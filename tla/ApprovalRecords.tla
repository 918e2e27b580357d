--------------------------- MODULE ApprovalRecords ---------------------------
(***************************************************************************)
(* The approval records that let a stopped story run again, as files which *)
(* nobody locks: a decision reads the record, judges it and writes it back; *)
(* the consumer finds an approved one, marks it executed and re-arms the   *)
(* story.  Every file operation is a step.                                 *)
(* Source: src/ralph/approval-manager.js, approval-validator.js,           *)
(* resume-after-security-stop.js, src/telegram/approval-adapter.js.        *)
(***************************************************************************)
EXTENDS Naturals, FiniteSets

CONSTANTS
    Records,      \* possible RESUME records of the story
    NoRecord,
    Deciders,     \* people who decide, each through Telegram or the CLI
    Sweepers,     \* processes that expire records
    Requesters,
    Consumers,    \* processes that tick or consume
    MaxStops,     \* bound on the stops of the story
    MaxRequests,  \* bound on the requests, of all records
    MaxLate       \* bound on the approvals written to a used-up record

Actors == Deciders \cup Sweepers \cup Requesters \cup Consumers

ASSUME RecordAssumption ==
    /\ NoRecord \notin Records
    /\ {MaxStops, MaxRequests, MaxLate} \subseteq Nat

VARIABLES
    file,      \* the status in each record's file
    lapsed,    \* records past expires_at
    latest,    \* the record of the current second
    halted,    \* the story's phase or status is a stopped one
    stops,     \* how often it was stopped
    asked,     \* the stop each record was requested in
    at, rec,   \* what each actor is about to do, and to which record
    verdict,   \* the status a decision has settled on and not yet written
    spent,     \* history: records marked executed and not requested again
    requested, \* how often each record was requested,
    late,      \* how often an approval was written to it once it was spent,
    used       \* and how many resumes were made with it

recordVars == <<file, lapsed, latest, asked>>
storyVars == <<halted, stops>>
jobVars == <<at, rec, verdict>>
counts == <<spent, requested, late, used>>
approvalVars == <<recordVars, storyVars, jobVars, counts>>

Statuses == {"none", "pending", "approved", "denied", "superseded", "expired",
             "failed_verification", "executed"}

Goes(a, label, r) ==
    at' = [at EXCEPT ![a] = label] /\ rec' = [rec EXCEPT ![a] = r]
Writes(r, status) == file' = [file EXCEPT ![r] = status]

-----------------------------------------------------------------------------
(* Decisions                                                               *)

\* A record that may be approved: its status is an allowed one and its time is
\* not over.  The variant forgets to look at the status.
InTime(r, allowed) == r \notin lapsed
Approvable(r, allowed) == file[r] \in allowed /\ r \notin lapsed

\* dryRunApprovalCommand: Telegram looks before it lets a command through.
DryRun(a, r) ==
    /\ a \in Deciders /\ at[a] = "idle"
    /\ Approvable(r, {"pending"})
    /\ Goes(a, "load", r)
    /\ UNCHANGED <<recordVars, storyVars, verdict, counts>>

Judged(r, allowed) ==
    IF Approvable(r, allowed) THEN "approved" ELSE "failed_verification"

\* approveApprovalRecordOnly; denyApproval and supersedeApprovalForModify, which
\* never look.
Outcomes(r) == {Judged(r, {"pending"}), "denied", "superseded"}

\* approveApproval: takes an approved record too, and compares the plan hash.
HashedOutcomes(r) == {Judged(r, {"pending", "approved"}), "failed_verification"}

Settles(a, r, outcomes) ==
    /\ file[r] # "none"
    /\ \E v \in outcomes : verdict' = [verdict EXCEPT ![a] = v]
    /\ Goes(a, "store", r)
    /\ UNCHANGED <<recordVars, storyVars, counts>>

\* The command reads the record: Telegram's after its dry run, the CLI's at once.
Load(a, r) ==
    /\ at[a] = "load" /\ rec[a] = r
    /\ Settles(a, r, Outcomes(r))

CliLoad(a, r) ==
    /\ a \in Deciders /\ at[a] = "idle"
    /\ Settles(a, r, Outcomes(r) \cup HashedOutcomes(r))

\* expirePendingApprovals, one file of it.
SweepLoad(a, r) ==
    /\ a \in Sweepers /\ at[a] = "idle"
    /\ file[r] = "pending" /\ r \in lapsed
    /\ verdict' = [verdict EXCEPT ![a] = "expired"]
    /\ Goes(a, "store", r)
    /\ UNCHANGED <<recordVars, storyVars, counts>>

\* A decision that read the record before it was marked executed makes it an
\* approved one once more.
Late(a) == verdict[a] = "approved" /\ rec[a] \in spent

\* writeApproval: the file becomes what was read, with the new status.
Store(a) ==
    /\ at[a] = "store"
    /\ Writes(rec[a], verdict[a])
    /\ IF Late(a)
       THEN /\ late[rec[a]] < MaxLate
            /\ late' = [late EXCEPT ![rec[a]] = @ + 1]
            /\ spent' = spent \ {rec[a]}
       ELSE UNCHANGED <<late, spent>>
    /\ Goes(a, "idle", NoRecord)
    /\ verdict' = [verdict EXCEPT ![a] = "none"]
    /\ UNCHANGED <<lapsed, latest, asked, storyVars, requested, used>>

-----------------------------------------------------------------------------
(* The story and its resumption                                            *)

\* A security stop, a failure, or an operator's stop.
Stop ==
    /\ ~halted /\ stops < MaxStops
    /\ halted' = TRUE /\ stops' = stops + 1
    /\ UNCHANGED <<recordVars, jobVars, counts>>

\* isStopped.  The variant lets a running story be requested for.
AnyStory == TRUE
IsStopped == halted

\* requestResumeApproval reads the story ...
RequestCheck(a) ==
    /\ a \in Requesters /\ at[a] = "idle"
    /\ IsStopped
    /\ Goes(a, "create", NoRecord)
    /\ UNCHANGED <<recordVars, storyVars, verdict, counts>>

Requests == {q \in Records \X (1..MaxRequests) : q[2] <= requested[q[1]]}

\* ... and creates a record; within one second it replaces the latest one.
Create(a, r) ==
    /\ at[a] = "create"
    /\ file[r] = "none" \/ latest = r
    /\ Cardinality(Requests) < MaxRequests
    /\ Writes(r, "pending")
    /\ lapsed' = lapsed \ {r} /\ latest' = r
    /\ asked' = [asked EXCEPT ![r] = stops]
    /\ requested' = [requested EXCEPT ![r] = @ + 1]
    /\ spent' = spent \ {r}
    /\ Goes(a, "idle", NoRecord)
    /\ UNCHANGED <<storyVars, verdict, late, used>>

\* A second passes; the record's time is over.
Tick == latest # NoRecord /\ latest' = NoRecord
        /\ UNCHANGED <<file, lapsed, asked, storyVars, jobVars, counts>>

Lapse(r) ==
    /\ file[r] # "none" /\ r \notin lapsed
    /\ lapsed' = lapsed \cup {r}
    /\ UNCHANGED <<file, latest, asked, storyVars, jobVars, counts>>

\* findApprovedResumeApproval, for a story that is stopped.  The variant takes
\* a record that was already consumed.
UsableTwice(r) == file[r] \in {"approved", "executed"} /\ r \notin lapsed
Usable(r) == file[r] = "approved" /\ r \notin lapsed

Find(a, r) ==
    /\ a \in Consumers /\ at[a] = "idle"
    /\ IsStopped /\ Usable(r)
    /\ Goes(a, "mark", r)
    /\ UNCHANGED <<recordVars, storyVars, verdict, counts>>

\* consumeApprovedResume: executed first ...
Mark(a) ==
    /\ at[a] = "mark"
    /\ Writes(rec[a], "executed")
    /\ spent' = spent \cup {rec[a]}
    /\ Goes(a, "rearm", rec[a])
    /\ UNCHANGED <<lapsed, latest, asked, storyVars, verdict, requested, late,
                   used>>

\* ... then the story returns to PLAN_APPROVAL_PENDING.
Rearm(a) ==
    /\ at[a] = "rearm"
    /\ halted' = FALSE
    /\ used' = [used EXCEPT ![rec[a]] = @ + 1]
    /\ Goes(a, "idle", NoRecord)
    /\ UNCHANGED <<recordVars, stops, verdict, spent, requested, late>>

\* An actor's process dies and is started again; so is one whose command fails.
Crash(a) ==
    /\ at[a] # "idle"
    /\ Goes(a, "idle", NoRecord)
    /\ verdict' = [verdict EXCEPT ![a] = "none"]
    /\ UNCHANGED <<recordVars, storyVars, counts>>

-----------------------------------------------------------------------------
Init ==
    /\ file = [r \in Records |-> "none"] /\ lapsed = {} /\ latest = NoRecord
    /\ asked = [r \in Records |-> 0]
    /\ halted = FALSE /\ stops = 0
    /\ at = [a \in Actors |-> "idle"]
    /\ rec = [a \in Actors |-> NoRecord]
    /\ verdict = [a \in Actors |-> "none"]
    /\ spent = {}
    /\ requested = [r \in Records |-> 0]
    /\ late = [r \in Records |-> 0]
    /\ used = [r \in Records |-> 0]

Decision(a) == Store(a) \/ \E r \in Records :
    DryRun(a, r) \/ Load(a, r) \/ CliLoad(a, r) \/ SweepLoad(a, r)

Resumption(a) == RequestCheck(a) \/ Mark(a) \/ Rearm(a) \/ \E r \in Records :
    Create(a, r) \/ Find(a, r)

Next ==
    \/ Stop \/ Tick
    \/ \E r \in Records : Lapse(r)
    \/ \E a \in Actors : Decision(a) \/ Resumption(a) \/ Crash(a)

Spec == Init /\ [][Next]_approvalVars

-----------------------------------------------------------------------------
\* Shapes; a record exists only for a story that was stopped, and an actor names
\* one exactly while it works on it.
TypeOK ==
    /\ file \in [Records -> Statuses] /\ lapsed \subseteq Records
    /\ latest \in Records \cup {NoRecord}
    /\ asked \in [Records -> 0..MaxStops]
    /\ \A r \in Records : file[r] # "none" => asked[r] # 0
    /\ halted \in BOOLEAN /\ stops \in 0..MaxStops
    /\ at \in [Actors -> {"idle", "load", "store", "create", "mark", "rearm"}]
    /\ rec \in [Actors -> Records \cup {NoRecord}]
    /\ \A a \in Actors : rec[a] = NoRecord <=> at[a] \in {"idle", "create"}
    /\ verdict \in [Actors -> Statuses]
    /\ spent \subseteq Records
    /\ requested \in [Records -> Nat] /\ late \in [Records -> Nat]
    /\ used \in [Records -> Nat]

\* A record resumes the story once each time it is requested, and once more only
\* for a decision that had read it before it was marked executed and is written
\* after: no crash, second stop, sweep, refusal or repeated approval of an
\* approved record multiplies it (resume-after-security-stop.js:178-205).
OneResumePerRequest ==
    \A r \in Records : used[r] <= requested[r] + late[r]

\* What the code says of the mark: "so it cannot be reused"
\* (resume-after-security-stop.js:178).
NotReused == \A r \in Records : used[r] <= requested[r]

\* A refused record is not approved any more unless it is requested again
\* (approval-validator.js:11-17, approval-manager.js:105-108).
RefusalStands ==
    [][\A r \in Records :
         file[r] \in {"denied", "superseded"} => file'[r] # "approved"]_approvalVars

\* A story leaves its stop by a record that was requested in that stop
\* (docs/ralph-detailed-design-v0.2.md:430, "a fresh ... approval").
FreshResume ==
    [][\A r \in Records : used'[r] > used[r] => asked[r] = stops]_approvalVars
=============================================================================
