---------------------------- MODULE IssueSupply ----------------------------
(***************************************************************************)
(* From the backlog to the story queue.  The issue supplier, a scheduled   *)
(* workflow, files the next item of the home repository's backlog as an    *)
(* issue (.github/workflows/issue-supplier.yml, backlog-supplier.js); the  *)
(* resolver and people work on the issues; the daemon's supplier and the   *)
(* import script copy the ready ones into local stories                    *)
(* (github-issue-supplier.js, -provider.js, -queue.js).  The backlog is    *)
(* written meanwhile by the Telegram worker.                               *)
(***************************************************************************)
EXTENDS RefineSession

CONSTANTS
    Suppliers,      \* workflow runs that may overlap (no concurrency group)
    ListFails,      \* whether gh issue list may fail
    ListLimit,      \* how many issues it lists at most (500)
    MaxOpenPrs,     \* ISSUE_SUPPLIER_MAX_OPEN_PRS
    Window,         \* how many stories the import looks at (100)
    ItemLabels,     \* the label sets a person's own item may name
    OwnIssues       \* bound: issues people and the quick flow open

ASSUME SupplyAssumption == ListLimit \in Nat /\ Window \in Nat /\ OwnIssues \in Nat

VARIABLES
    issues,     \* the issues of the home repository, in order
    run,        \* the item each supplier run is about to file, or None
    pull,       \* the issues an import has fetched, or None
    stories     \* the stories, the most recently written first

supplyVars == <<issues, run, pull, stories>>
vars == <<sessionVars, supplyVars>>

Init ==
    /\ InitSession
    /\ issues = <<>>
    /\ run = [s \in Suppliers |-> None]
    /\ pull = None
    /\ stories = <<>>

Issue(item, labels) ==
    [id |-> item.id, deps |-> item.deps, state |-> "open", labels |-> labels]

-----------------------------------------------------------------------------
(* The supplier workflow: it checks the backlog out, lists the issues and  *)
(* open pull requests, selects on these, and files what it selected.       *)

OpenPrs == Cardinality({i \in DOMAIN issues : issues[i].state = "pr"})

(* gh issue list --limit 500 ... || echo '[]': the latest issues; a failed *)
(* listing is an empty one.                                                *)
Latest == IF Len(issues) <= ListLimit THEN issues
          ELSE SubSeq(issues, Len(issues) - ListLimit + 1, Len(issues))
Listings == {Latest} \cup (IF ListFails THEN {<<>>} ELSE {})

extractFiledIds(listed) == Ids(listed)
extractDoneIds(listed) ==
    {listed[i].id : i \in {j \in DOMAIN listed : listed[j].state = "closed"}}

(* The positions of the items that may be filed; the first one is.         *)
EligibleOnceFiled(items, listed) ==   \* variant: dependencies filed are enough
    {i \in DOMAIN items : /\ items[i].id \notin extractFiledIds(listed)
                          /\ items[i].deps \subseteq extractFiledIds(listed)}
EligibleUnlessOpen(items, listed) ==  \* variant: only open issues count as filed
    {i \in DOMAIN items :
        /\ items[i].id \notin extractFiledIds(listed) \ extractDoneIds(listed)
        /\ items[i].deps \subseteq extractDoneIds(listed)}
Eligible(items, listed) ==
    {i \in DOMAIN items : /\ items[i].id \notin extractFiledIds(listed)
                          /\ items[i].deps \subseteq extractDoneIds(listed)}
MayFile(items, listed) == OpenPrs < MaxOpenPrs /\ Eligible(items, listed) # {}
selectNextItem(items, listed) == items[Min(Eligible(items, listed))]

(* A run that selects nothing ends there.                                  *)
Select(s) ==
    /\ run[s] = None
    /\ LET items == ItemsOf(backlog[Home])
       IN \E listed \in Listings :
             /\ MayFile(items, listed)
             /\ run' = [run EXCEPT ![s] = selectNextItem(items, listed)]
    /\ UNCHANGED <<sessionVars, issues, pull, stories>>

(* An item that names no labels gets one; the worker's items name none.    *)
(* The issue may not come about.                                           *)
LabelsOf(item) == IF item.doc = 0 THEN ItemLabels ELSE {{"aider-fix"}}
File(s) ==
    /\ run[s] # None
    /\ \/ \E labels \in LabelsOf(run[s]) :
             issues' = Append(issues, Issue(run[s], labels))
       \/ issues' = issues
    /\ run' = [run EXCEPT ![s] = None]
    /\ UNCHANGED <<sessionVars, pull, stories>>

-----------------------------------------------------------------------------
(* Issues outside the supplier: the quick flow of the worker, the resolver *)
(* that opens a pull request, a merge or a person closing the issue, a     *)
(* person opening an issue the daemon may take.                            *)

Opened == Cardinality({i \in DOMAIN issues : issues[i].id = None})
Untitled == [id |-> None, deps |-> {}]     \* a title without [id]

QuickIssue(m) ==
    /\ At(m, "quick") /\ Ended(m)
    /\ \/ issues' = issues
       \/ /\ task[m].repo = Home /\ Opened < OwnIssues
          /\ issues' = Append(issues, Issue(Untitled, {"aider-fix"}))
    /\ UNCHANGED <<route, session, exists, backlog, edits, run, pull, stories>>

OpenReady ==
    /\ Opened < OwnIssues
    /\ issues' = Append(issues, Issue(Untitled, {"ralph-ready"}))
    /\ UNCHANGED <<sessionVars, run, pull, stories>>

OpenPr(i) ==
    /\ issues[i].state = "open" /\ "aider-fix" \in issues[i].labels
    /\ issues' = [issues EXCEPT ![i].state = "pr"]
    /\ UNCHANGED <<sessionVars, run, pull, stories>>

CloseIssue(i) ==
    /\ issues[i].state # "closed"
    /\ issues' = [issues EXCEPT ![i].state = "closed"]
    /\ UNCHANGED <<sessionVars, run, pull, stories>>

-----------------------------------------------------------------------------
(* The import into stories.                                                *)

READY_LABELS == {"ralph-ready", "autonomous"}
labelMatches(issue) == issue.labels \cap READY_LABELS # {}

(* fetchOpenIssues and filterEligibleIssues; the request is awaited.       *)
Eligibles == {i \in DOMAIN issues : issues[i].state # "closed" /\ labelMatches(issues[i])}
FetchIssues ==
    /\ pull = None /\ Eligibles # {}
    /\ pull' = Eligibles
    /\ UNCHANGED <<sessionVars, issues, run, stories>>

(* listStories: the most recently written files, up to the window.         *)
listStories(all) == SubSeq(all, 1, IF Len(all) < Window THEN Len(all) ELSE Window)
KnownQueued(all) ==   \* variant: only the queued stories are listed
    {all[k].issue : k \in {j \in DOMAIN all : all[j].status = "QUEUED"}}
Known(all) == {listStories(all)[k].issue : k \in DOMAIN listStories(all)}

Without(all, i) == RemoveFirstMatch(all, LAMBDA story : story.issue = i)
Written(all, i, status) == <<[issue |-> i, status |-> status]>> \o Without(all, i)

(* importGitHubIssuesAsStories: a story already known is skipped, any      *)
(* other issue's story is written, over what its file held.                *)
ImportIssues ==
    /\ pull # None
    /\ stories' = FoldSet(LAMBDA i, all : Written(all, i, "QUEUED"),
                          stories, pull \ Known(stories))
    /\ pull' = None
    /\ UNCHANGED <<sessionVars, issues, run>>

(* The autonomous loop works on a story; writing its file brings it first. *)
WorkStory(k) ==
    /\ stories' = Written(stories, stories[k].issue, "ACTIVE")
    /\ UNCHANGED <<sessionVars, issues, run, pull>>

-----------------------------------------------------------------------------
Supply(s) == Select(s) \/ File(s)
SupplyNext ==
    \/ \E s \in Suppliers : Supply(s)
    \/ OpenReady \/ FetchIssues \/ ImportIssues
    \/ \E i \in DOMAIN issues : OpenPr(i) \/ CloseIssue(i)
    \/ \E k \in DOMAIN stories : WorkStory(k)

Next ==
    \/ SessionNext /\ UNCHANGED supplyVars
    \/ \E m \in 1..Messages : QuickIssue(m)
    \/ SupplyNext

Spec == Init /\ [][Next]_vars

-----------------------------------------------------------------------------
(* Properties.                                                             *)

(* A decomposition enters the backlog whole: every item the worker adds    *)
(* finds the items it depends on among those added with it, under ids that *)
(* no other commit, pruned item or hand-written one can take from it       *)
(* (index.mjs:228, refine-session.mjs:74-116).                             *)
Added(r) == ToSet(ItemsOf(backlog'[r])) \ ToSet(ItemsOf(backlog[r]))
PlansWhole ==
    [][\A r \in Repos : \A x \in Added(r) :
          x.deps \subseteq {y.id : y \in Added(r)}]_vars

(* The worker never takes an item off a readable backlog, whatever it read *)
(* before and whoever wrote meanwhile (index.mjs:215, refine-session:74).  *)
NothingLost ==
    [][\A r \in Repos :
          \/ edits' # edits \/ backlog[r] \in {None, Unparsable}
          \/ ToSet(backlog[r]) \subseteq ToSet(ItemsOf(backlog'[r]))]_vars

(* An item becomes an issue only after every item it depends on has an     *)
(* issue that is closed, though the run that files it decides on a         *)
(* checkout and a listing taken before (backlog-supplier.js:78).           *)
BuildOrder ==
    \A i \in DOMAIN issues : issues[i].deps \subseteq extractDoneIds(issues)

(* No item is filed twice, also after its issue was closed, while one      *)
(* listing holds all issues; for runs that do not overlap and listings     *)
(* that do not fail (backlog-supplier.js:36, issue-supplier.yml:77).       *)
NeverRefiled ==
    \A i, j \in DOMAIN issues :
       issues[i].id = issues[j].id /\ issues[i].id # None => i = j
FiledOnce == Len(issues) <= ListLimit => NeverRefiled

(* An import skips the stories that exist: none that was worked on goes    *)
(* back to the queue, while the window covers the stories there are        *)
(* (github-issue-queue.js:35).                                             *)
ImportKeeps ==
    [][\A k \in DOMAIN stories :
          stories[k].status = "ACTIVE" =>
             \E l \in DOMAIN stories' : stories'[l] = stories[k]]_vars

(* The ids the worker mints were never filed: what the comment of          *)
(* assignItemIds promises (refine-session.mjs:100).                        *)
FreshIds ==
    [][\A r \in {Home} :
          edits' = edits =>
             (Ids(ItemsOf(backlog'[r])) \ Ids(ItemsOf(backlog[r])))
                \cap extractFiledIds(issues) = {}]_vars
=============================================================================
