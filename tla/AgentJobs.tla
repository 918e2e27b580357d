----------------------------- MODULE AgentJobs -----------------------------
(***************************************************************************)
(* Dispatch of a candidate patch through an external agent: NemoClaw,      *)
(* which runs the agent in one sandbox all dispatches share, and the       *)
(* adapter, which runs it in the directory of the task.  The job record    *)
(* of a dispatch is a file that an operator may abort meanwhile.           *)
(* Source: src/ralph/nemoclaw-opencode-gateway.js, nemoclaw-policy.js,     *)
(* external-agent-adapter.js, external-agent-gateway.js,                   *)
(* external-agent-jobs.js, deterministic-candidate-patch-fallback.js,      *)
(* autonomous-loop.js, autonomous-loop-wired.js,                           *)
(* scripts/ralph/real-external-agent-smoke.js.                             *)
(***************************************************************************)
EXTENDS Naturals, FiniteSets

CONSTANTS
    Tasks,       \* stories, and the smoke dispatches of a person
    Actors,      \* the processes that dispatch
    Owner,       \* [Tasks -> Actors]: who dispatches the task
    Mediated,    \* stories, which go through NemoClaw; the others use the adapter
    Simple,      \* stories of low risk whose paths the fallback may write
    Paths,
    Wants,       \* [Tasks -> SUBSET Paths]: requested_paths
    Existing,    \* files of the repository
    Patches,     \* diffs the agents may answer with: the file, whether as a new one
    Attempts,    \* [Tasks -> Nat]: max_attempts
    MaxCrashes,
    Ralph,       \* the author of a fallback patch
    None

ASSUME AgentAssumption ==
    /\ Owner \in [Tasks -> Actors] /\ Wants \in [Tasks -> SUBSET Paths]
    /\ Patches \subseteq [path : Paths, new : BOOLEAN]
    /\ Mediated \subseteq Tasks /\ Simple \subseteq Mediated /\ Existing \subseteq Paths
    /\ Attempts \in [Tasks -> Nat \ {0}] /\ MaxCrashes \in Nat
    /\ {None, Ralph} \cap Tasks = {} /\ None # Ralph /\ None \notin Paths

VARIABLES
    phase, left,     \* of each task: where its story is, attempts left
    source,          \* of each task: patch_source of its story
    host,            \* of each task: candidate.patch in its sandbox_root
    job,             \* of each task: status in its job record
    box,             \* candidate.patch in the sandbox of NemoClaw
    late,            \* tasks whose agent was given up and may still write there
    at, on,          \* of each actor: next step, task
    filed, said,     \* the patch the sandbox file held, the one on stdout
    code, trouble,   \* exit code of the last agent turn; rate limit, timeout
    aborting,        \* the record an operator found running
    crashes

storyVars == <<phase, left, source>>
turnVars == <<filed, said, code, trouble>>
agentVars == <<storyVars, host, job, box, late, at, on, turnVars, aborting, crashes>>

\* No file, or text that is no diff.
NoPatch == [path |-> None, new |-> FALSE, by |-> None]
Texts == [path : Paths \cup {None}, new : BOOLEAN, by : Tasks \cup {Ralph, None}]
Answers(t) == {[path |-> p.path, new |-> p.new, by |-> t] : p \in Patches}
Steps == {"idle", "agent", "cat", "retry", "recat", "land", "close", "save", "serve"}
Goes(a, label) == at' = [at EXCEPT ![a] = label]

-----------------------------------------------------------------------------
(* The start                                                               *)

\* buildNemoClawPolicy and buildExternalGatewayPolicy: paths must be requested.
Allowed(t) == Wants[t] # {}

Fresh(a) ==
    /\ filed' = [filed EXCEPT ![a] = NoPatch]
    /\ said' = [said EXCEPT ![a] = NoPatch]
    /\ code' = [code EXCEPT ![a] = "ok"]
    /\ trouble' = [trouble EXCEPT ![a] = "none"]

\* Policy, and for NemoClaw the removal of the old patch and the search for the
\* runtime, which may not be installed: a dispatch that gets no further writes no
\* job record.
Refuse(a, t) ==
    /\ at[a] = "idle" /\ a = Owner[t] /\ phase[t] = "OPENCODE_RUNNING"
    /\ \E c \in {"refused", "uninstalled"} :
         /\ c = "uninstalled" => Allowed(t) /\ t \in Mediated
         /\ code' = [code EXCEPT ![a] = c]
    /\ host' = IF Allowed(t) /\ t \in Mediated
               THEN [host EXCEPT ![t] = NoPatch] ELSE host
    /\ on' = [on EXCEPT ![a] = t] /\ Goes(a, "save")
    /\ UNCHANGED <<storyVars, job, box, late, filed, said, trouble, aborting, crashes>>

Start(a, t) ==
    /\ at[a] = "idle" /\ a = Owner[t] /\ phase[t] = "OPENCODE_RUNNING"
    /\ Allowed(t)
    /\ host' = IF t \in Mediated THEN [host EXCEPT ![t] = NoPatch] ELSE host
    /\ job' = [job EXCEPT ![t] = "running"]
    /\ on' = [on EXCEPT ![a] = t] /\ Goes(a, "agent")
    /\ Fresh(a)
    /\ UNCHANGED <<storyVars, box, late, aborting, crashes>>

-----------------------------------------------------------------------------
(* The agent                                                               *)

First(old, new) == IF old # NoPatch THEN old ELSE new

Ends(a, c, b) ==
    /\ code' = [code EXCEPT ![a] = c]
    /\ trouble' = [trouble EXCEPT ![a] = b]

\* An agent answers with a file, with a diff on stdout, with both or with prose.
\* One that is given up for its time goes on in the sandbox.
Turn(a) ==
    LET t == on[a] IN
    /\ at[a] \in {"agent", "retry"} /\ t \in Mediated
    /\ Goes(a, IF at[a] = "agent" THEN "cat" ELSE "recat")
    /\ \/ box' \in Answers(t) /\ UNCHANGED said
       \/ \E p \in Answers(t) \cup {NoPatch} :
            /\ said' = [said EXCEPT ![a] = First(@, p)]
            /\ UNCHANGED box
    /\ \/ \E c \in {"ok", "failed"}, b \in {"none", "limit"} :
            Ends(a, c, b) /\ UNCHANGED late
       \/ Ends(a, "failed", "timeout") /\ late' = late \cup {t}
    /\ UNCHANGED <<storyVars, host, job, on, filed, aborting, crashes>>

LateWrite(t) ==
    /\ t \in late
    /\ late' = late \ {t}
    /\ box' \in Answers(t)
    /\ UNCHANGED <<storyVars, host, job, at, on, turnVars, aborting, crashes>>

\* cat candidate.patch; the second turn is for an agent that answered in prose.
AsksAgain(a) == filed'[a] = NoPatch /\ said[a] = NoPatch /\ trouble'[a] = "none"

Cat(a) ==
    /\ at[a] \in {"cat", "recat"}
    /\ \/ /\ filed' = [filed EXCEPT ![a] = First(@, box)]
          /\ UNCHANGED trouble
       \/ /\ UNCHANGED filed
          /\ trouble' = [trouble EXCEPT ![a] = "timeout"]
    /\ Goes(a, IF at[a] = "cat" /\ AsksAgain(a) THEN "retry" ELSE "land")
    /\ UNCHANGED <<storyVars, host, job, box, late, on, said, code, aborting, crashes>>

\* The adapter's agent writes candidate.patch in its own directory.
AdapterTurn(a) ==
    LET t == on[a] IN
    /\ at[a] = "agent" /\ t \notin Mediated
    /\ Goes(a, "close")
    /\ \/ UNCHANGED host
       \/ \E p \in Answers(t) : host' = [host EXCEPT ![t] = p]
    /\ \/ \E c \in {"ok", "failed"} : Ends(a, c, "none")
       \/ Ends(a, "failed", "timeout")
    /\ UNCHANGED <<storyVars, job, box, late, on, filed, said, aborting, crashes>>

-----------------------------------------------------------------------------
(* The result                                                              *)

Text(a) == First(filed[a], said[a])

\* validateCandidatePatchAgainstRepository.
Fits(t, p) == p # NoPatch /\ p.path \in Wants[t] /\ ~(p.new /\ p.path \in Existing)

Land(a) ==
    LET t == on[a] IN
    /\ at[a] = "land" /\ Goes(a, "close")
    /\ host' = IF Fits(t, Text(a)) THEN [host EXCEPT ![t] = Text(a)] ELSE host
    /\ UNCHANGED <<storyVars, job, box, late, on, turnVars, aborting, crashes>>

\* What either side calls success.  The variant takes a well-formed diff for a
\* valid one.
SucceededIfDiff(a) ==
    /\ code[a] = "ok" /\ trouble[a] # "timeout"
    /\ IF on[a] \in Mediated THEN Text(a) # NoPatch ELSE host[on[a]] # NoPatch
Succeeded(a) ==
    /\ code[a] = "ok" /\ trouble[a] # "timeout"
    /\ IF on[a] \in Mediated THEN Fits(on[a], Text(a)) ELSE host[on[a]] # NoPatch

\* writeGatewayJob, writeAdapterJob: whatever the record says by now.  The variant
\* leaves the record of a dispatch that timed out alone.
OutcomeInTime(a) == IF trouble[a] = "timeout" THEN job[on[a]]
                    ELSE IF Succeeded(a) THEN "completed" ELSE "failed"
Outcome(a) == IF Succeeded(a) THEN "completed" ELSE "failed"

Close(a) ==
    /\ at[a] = "close" /\ Goes(a, "save")
    /\ job' = [job EXCEPT ![on[a]] = Outcome(a)]
    /\ UNCHANGED <<storyVars, host, box, late, on, turnVars, aborting, crashes>>

-----------------------------------------------------------------------------
(* The story after the dispatch                                            *)

Leave(a) == on' = [on EXCEPT ![a] = None] /\ Goes(a, "idle") /\ Fresh(a)

\* FALLBACK_FAILURE_REASONS: no runtime, a rate limit, a timeout, or no file at all,
\* which is one of the ways to have no diff.
Excuses(a) ==
    IF on[a] \notin Mediated \/ code[a] = "refused" THEN {FALSE}
    ELSE IF code[a] = "uninstalled" \/ trouble[a] # "none" THEN {TRUE}
    ELSE IF Text(a) = NoPatch THEN BOOLEAN ELSE {FALSE}

\* eligibleForDeterministicFallback: one requested path, and no file there yet.
Eligible(t) ==
    t \in Simple /\ \E path \in Paths \ Existing : Wants[t] = {path}
FallbackPatch(t) ==
    [path |-> CHOOSE path \in Paths : Wants[t] = {path}, new |-> TRUE, by |-> Ralph]

Save(a) ==
    /\ at[a] = "save" /\ Succeeded(a)
    /\ phase' = [phase EXCEPT ![on[a]] = "PATCH_PREVIEW"]
    /\ Leave(a)
    /\ UNCHANGED <<left, source, host, job, box, late, aborting, crashes>>

\* maybeFallbackAfterOpenCodeFailure writes a patch, whatever the job record says,
\* and then the story.
Serve(a) ==
    LET t == on[a] IN
    /\ at[a] = "save" /\ ~Succeeded(a) /\ TRUE \in Excuses(a) /\ Eligible(t)
    /\ host' = [host EXCEPT ![t] = FallbackPatch(t)]
    /\ Goes(a, "serve")
    /\ UNCHANGED <<storyVars, job, box, late, on, turnVars, aborting, crashes>>

SaveServed(a) ==
    /\ at[a] = "serve"
    /\ phase' = [phase EXCEPT ![on[a]] = "PATCH_PREVIEW"]
    /\ source' = [source EXCEPT ![on[a]] = "deterministic_fallback"]
    /\ Leave(a)
    /\ UNCHANGED <<left, host, job, box, late, aborting, crashes>>

\* One attempt less.  The variant does not look at what is left.
AlwaysAgain(n) == "OPENCODE_RUNNING"
NextPhase(n) == IF n = 0 THEN "ESCALATED" ELSE "OPENCODE_RUNNING"

SaveFailed(a) ==
    LET t == on[a] IN
    /\ at[a] = "save" /\ ~Succeeded(a)
    /\ \E excused \in Excuses(a) :
         /\ ~(excused /\ Eligible(t))
         /\ source' = IF excused THEN [source EXCEPT ![t] = "none"] ELSE source
    /\ left' = [left EXCEPT ![t] = @ - 1]
    /\ phase' = [phase EXCEPT ![t] = NextPhase(left[t] - 1)]
    /\ Leave(a)
    /\ UNCHANGED <<host, job, box, late, aborting, crashes>>

\* A gate or a review sends the story back for another patch.
Repair(t) ==
    /\ phase[t] = "PATCH_PREVIEW" /\ left[t] > 1
    /\ phase' = [phase EXCEPT ![t] = "OPENCODE_RUNNING"]
    /\ left' = [left EXCEPT ![t] = @ - 1]
    /\ UNCHANGED <<source, host, job, box, late, at, on, turnVars, aborting, crashes>>

-----------------------------------------------------------------------------
(* Operator and crashes                                                    *)

\* abortExternalAgentJob reads the record and writes it later.
AbortRead(t) ==
    /\ aborting = None /\ job[t] = "running"
    /\ aborting' = t
    /\ UNCHANGED <<storyVars, host, job, box, late, at, on, turnVars, crashes>>

AbortWrite ==
    /\ aborting # None
    /\ job' = [job EXCEPT ![aborting] = "aborted"]
    /\ aborting' = None
    /\ UNCHANGED <<storyVars, host, box, late, at, on, turnVars, crashes>>

\* The process dies; the agent in the sandbox does not notice.
Crash(a) ==
    /\ at[a] # "idle" /\ crashes < MaxCrashes
    /\ crashes' = crashes + 1
    /\ late' = IF at[a] \in {"agent", "retry"} /\ on[a] \in Mediated
               THEN late \cup {on[a]} ELSE late
    /\ Leave(a)
    /\ UNCHANGED <<storyVars, host, job, box, aborting>>

-----------------------------------------------------------------------------
Init ==
    /\ phase = [t \in Tasks |-> "OPENCODE_RUNNING"]
    /\ left = Attempts /\ source = [t \in Tasks |-> "none"]
    /\ host = [t \in Tasks |-> NoPatch]
    /\ job = [t \in Tasks |-> "none"]
    /\ box = NoPatch /\ late = {}
    /\ at = [a \in Actors |-> "idle"] /\ on = [a \in Actors |-> None]
    /\ filed = [a \in Actors |-> NoPatch] /\ said = [a \in Actors |-> NoPatch]
    /\ code = [a \in Actors |-> "ok"] /\ trouble = [a \in Actors |-> "none"]
    /\ aborting = None /\ crashes = 0

Dispatching(a) ==
    \/ \E t \in Tasks : Refuse(a, t) \/ Start(a, t)
    \/ Turn(a) \/ AdapterTurn(a) \/ Cat(a) \/ Land(a) \/ Close(a)
    \/ Save(a) \/ Serve(a) \/ SaveServed(a) \/ SaveFailed(a)

Next ==
    \/ \E a \in Actors : Dispatching(a) \/ Crash(a)
    \/ \E t \in Tasks : LateWrite(t) \/ Repair(t) \/ AbortRead(t)
    \/ AbortWrite

Spec == Init /\ [][Next]_agentVars

-----------------------------------------------------------------------------
\* Shapes; a story never has more attempts left than it began with, whatever
\* sends it round again (autonomous-loop.js, external-agent-jobs.js).
TypeOK ==
    /\ phase \in [Tasks -> {"OPENCODE_RUNNING", "PATCH_PREVIEW", "ESCALATED"}]
    /\ left \in [Tasks -> Nat] /\ \A t \in Tasks : left[t] <= Attempts[t]
    /\ source \in [Tasks -> {"none", "deterministic_fallback"}]
    /\ host \in [Tasks -> Texts] /\ box \in Texts /\ late \subseteq Tasks
    /\ job \in [Tasks -> {"none", "running", "completed", "failed", "aborted"}]
    /\ at \in [Actors -> Steps] /\ on \in [Actors -> Tasks \cup {None}]
    /\ filed \in [Actors -> Texts] /\ said \in [Actors -> Texts]
    /\ code \in [Actors -> {"ok", "failed", "refused", "uninstalled"}]
    /\ trouble \in [Actors -> {"none", "limit", "timeout"}]
    /\ aborting \in Tasks \cup {None} /\ crashes \in 0 .. MaxCrashes

\* A story that went on to the preview has a patch there.  An agent's patch comes
\* with a job record that does not call its dispatch failed or still running, and
\* the fallback's, which no job made, with a story that says so; however crashes,
\* retries, refused dispatches and aborts fell between the writes of patch, record
\* and story (nemoclaw-opencode-gateway.js:345-361, external-agent-jobs.js:161,
\* autonomous-loop-wired.js:293-361).
PreviewBacked ==
    \A t \in Tasks : phase[t] = "PATCH_PREVIEW" =>
        /\ host[t] # NoPatch
        /\ IF host[t].by = Ralph THEN source[t] = "deterministic_fallback"
           ELSE job[t] \in {"completed", "aborted"}

\* Each crash leaves at most one job record that says running while no process is on
\* the task, and nothing else leaves one: not a timeout, a refused dispatch, the
\* fallback or an abort (external-agent-jobs.js:41, external-agent-adapter.js:121).
Stray == {t \in Tasks : job[t] = "running" /\ \A a \in Actors : on[a] # t}
StrayRecords == Cardinality(Stray) <= crashes

\* Not kept: the patch at a story's preview is its own agent's or the fallback's.  The
\* file in the shared sandbox is never removed (nemoclaw-opencode-gateway.js:334
\* removes another one), so a dispatch may find an earlier story's patch there.
OwnPatch ==
    \A t \in Tasks : phase[t] = "PATCH_PREVIEW" => host[t].by \in {t, Ralph}
=============================================================================
