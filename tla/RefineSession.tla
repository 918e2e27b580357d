--------------------------- MODULE RefineSession ---------------------------
(***************************************************************************)
(* The Telegram worker (telegram-worker/index.mjs): webhook calls that     *)
(* return at once and leave a task running (ctx.waitUntil), conversations  *)
(* kept in a key-value store between the calls, and the commit of an       *)
(* approved decomposition to the backlog file of a repository through      *)
(* GitHub's contents interface, where a write must name the blob it        *)
(* replaces.  Tasks of one chat run side by side: nothing serialises them. *)
(*                                                                         *)
(* A blob is identified by its content, as git does, so the "sha" a task   *)
(* holds is the file it read.  A document is the number of the message     *)
(* that brought it; a decomposition is, for each item in its order, the    *)
(* name the model gave it and the names it depends on.                     *)
(***************************************************************************)
EXTENDS Naturals, Sequences, FiniteSetsExt, SequencesExt

CONSTANTS
    Chats, Threads,     \* the allowed chats and their forum topics
    Repos, Home,        \* repositories a chat may be bound to; GITHUB_REPO
    MAX_ROUNDS,         \* rounds of clarifying questions
    Plans,              \* the decompositions the model may answer with
    Messages,           \* bound: messages the users send
    Edits, EditKinds,   \* bound: changes a person makes to backlog files
    MayLackContent,     \* whether GitHub may answer without the file's content
    None,
    Unparsable          \* a file that is not JSON with an items array

ASSUME SessionAssumption ==
    /\ Home \in Repos /\ Edits \in Nat /\ EditKinds \subseteq {"add", "prune", "break"}
    /\ MayLackContent \in BOOLEAN

(* The model may give two items one name, and name items that are not there. *)
ASSUME PlansAssumption == Plans \subseteq Seq([name : Nat, deps : SUBSET Nat])

Says == {"document", "ok", "cancel", "text"}

VARIABLES
    route,      \* the binding of a chat and topic to a repository
    session,    \* the conversation kept for a chat
    exists,     \* the repositories provisioned so far
    backlog,    \* .github/ralph-backlog.json of each repository
    task,       \* the task each message left running
    edits       \* how many times a person changed a backlog

sessionVars == <<route, session, exists, backlog, task, edits>>

NoTask == [at |-> "idle"]
Sent == {m \in 1..Messages : task[m] # NoTask}
newSession(m) == [phase |-> "idle", doc |-> m, rounds |-> 0, plan |-> <<>>]

(* The items of a backlog file; a missing or unreadable one has none.      *)
ItemsOf(file) == IF file \in {None, Unparsable} THEN <<>> ELSE file

InitSession ==
    /\ route = [key \in Chats \X Threads |-> None]
    /\ session = [c \in Chats |-> None]
    /\ exists = {Home}
    /\ backlog = [r \in Repos |-> None]
    /\ task = [m \in 1..Messages |-> NoTask]
    /\ edits = 0

resolveRepo(key) == IF route[key] = None THEN Home ELSE route[key]

-----------------------------------------------------------------------------
(* Webhook calls.                                                          *)

NextMessage(m) == m \notin Sent /\ \A k \in 1..(m - 1) : k \in Sent
Ended(m) == task' = [task EXCEPT ![m] = [at |-> "done"]]

(* /project owner/repo binds the topic, /project clear unbinds it; the     *)
(* write to the store is best effort.                                      *)
ProjectCommand(m) ==
    /\ NextMessage(m) /\ Ended(m)
    /\ \E key \in Chats \X Threads, r \in exists \cup {None} :
          route' = [route EXCEPT ![key] = r]
    /\ UNCHANGED <<session, exists, backlog, edits>>

(* /newproject starts the provisioning workflow and binds the topic to the *)
(* repository before it exists; a refused start changes nothing.           *)
NewProject(m) ==
    /\ NextMessage(m) /\ Ended(m)
    /\ \E key \in Chats \X Threads, r \in Repos \ exists :
          route' \in {route, [route EXCEPT ![key] = r]}
    /\ UNCHANGED <<session, exists, backlog, edits>>

Provisioned(r) ==
    /\ r \notin exists /\ \E key \in DOMAIN route : route[key] = r
    /\ exists' = exists \cup {r}
    /\ UNCHANGED <<route, session, backlog, task, edits>>

(* Any other message: the repository is resolved now, and the task started *)
(* is a refinement when the chat has a session or the text looks like      *)
(* requirements.  A store that cannot be read counts as no session.        *)
Webhook(m) ==
    /\ NextMessage(m)
    /\ \E c \in Chats, t \in Threads, says \in Says :
       \E seen \in {session[c], None} :
          task' = [task EXCEPT ![m] =
                     [at |-> IF seen # None \/ says = "document"
                             THEN "refine" ELSE "quick",
                      chat |-> c, says |-> says, repo |-> resolveRepo(<<c, t>>)]]
    /\ UNCHANGED <<route, session, exists, backlog, edits>>

-----------------------------------------------------------------------------
(* handleRefinement, one step per await that others can come between.      *)

At(m, label) == task[m].at = label
Goes(m, label, own) ==
    task' = [task EXCEPT ![m] =
               [at |-> label, chat |-> @.chat, own |-> own,
                repo |-> IF label = "get" THEN @.repo ELSE None]]
Keeps(m, s) == session' = [session EXCEPT ![task[m].chat] = s]

(* Where a message takes a conversation: cancel, answer, approval, or      *)
(* anything else as feedback on the decomposition.                         *)
NextStep(m, s) ==
    IF task[m].says = "cancel" THEN <<"clear", None>>
    ELSE IF s.phase = "awaiting_answers"
         THEN <<"analyze", [s EXCEPT !.rounds = @ + 1]>>
    ELSE IF task[m].says = "ok" THEN <<"get", s>>
    ELSE <<"decompose", s>>

Refine(m) ==
    /\ At(m, "refine")
    /\ \E s \in {session[task[m].chat], None} :
         \/ s # None /\ LET step == NextStep(m, s) IN Goes(m, step[1], step[2])
         \/ s = None /\ Goes(m, "analyze", newSession(m))
         \/ s = None /\ task[m].says = "document" /\ Ended(m)   \* unreadable upload
    /\ UNCHANGED <<route, session, exists, backlog, edits>>

(* runAnalyze: the request fails and the task dies, the answer does not    *)
(* parse, it asks questions and a round is left, or it goes on.            *)
Asks(s) == s.rounds < MAX_ROUNDS
Analyze(m) ==
    /\ At(m, "analyze")
    /\ \/ Ended(m) /\ UNCHANGED session
       \/ Goes(m, "clear", None) /\ UNCHANGED session
       \/ /\ Asks(task[m].own) /\ Ended(m)
          /\ Keeps(m, [task[m].own EXCEPT !.phase = "awaiting_answers"])
       \/ Goes(m, "decompose", task[m].own) /\ UNCHANGED session
    /\ UNCHANGED <<route, exists, backlog, edits>>

Decompose(m) ==
    /\ At(m, "decompose")
    /\ \/ Ended(m) /\ UNCHANGED session
       \/ Goes(m, "clear", None) /\ UNCHANGED session
       \/ \E p \in Plans :
             /\ Ended(m)
             /\ Keeps(m, [task[m].own EXCEPT !.phase = "awaiting_approval",
                                             !.plan = p])
    /\ UNCHANGED <<route, exists, backlog, edits>>

clearSession(m) ==
    /\ At(m, "clear") /\ Ended(m) /\ Keeps(m, None)
    /\ UNCHANGED <<route, exists, backlog, edits>>

-----------------------------------------------------------------------------
(* commitBacklog.  The read of the file may fail, which leaves no sha; the *)
(* answer may name the blob and hold no content that can be decoded.       *)
Contents(got) ==
    {got} \cup (IF MayLackContent /\ got # None THEN {Unparsable} ELSE {})
GetBacklog(m) ==
    /\ At(m, "get")
    /\ \E got \in {backlog[task[m].repo], None} : \E read \in Contents(got) :
          task' = [task EXCEPT ![m] = [at |-> "put", chat |-> @.chat, own |-> @.own,
                                       repo |-> @.repo, got |-> got, read |-> read]]
    /\ UNCHANGED <<route, session, exists, backlog, edits>>

Ids(items) == {items[i].id : i \in DOMAIN items}
CountedId(items) == Len(items)   \* variant: the number of items
LastId(items) == Max({0} \cup Ids(items))

(* assignItemIds: ids after the highest one the file holds, dependencies   *)
(* renamed along.  Of two items of one name the last gives both their id;  *)
(* a dependency on a name that no item has is dropped.                     *)
Names(plan) == {plan[i].name : i \in DOMAIN plan}
Position(plan, name) == Max({i \in DOMAIN plan : plan[i].name = name})
assignItemIds(s, items) ==
    [i \in DOMAIN s.plan |->
        [id |-> LastId(items) + Position(s.plan, s.plan[i].name), doc |-> s.doc,
         deps |-> {LastId(items) + Position(s.plan, d) :
                      d \in s.plan[i].deps \cap Names(s.plan)}]]

(* GitHub takes a write that names the blob it replaces, or that creates   *)
(* the file.                                                               *)
AcceptsAny(repo, got) == repo \in exists   \* variant: no sha in the request
Accepts(repo, got) == repo \in exists /\ backlog[repo] = got

(* mergeBacklog appends the items whose ids the file does not hold.        *)
Missing(new, items) ==
    FoldLeft(LAMBDA kept, x : IF x.id \in Ids(items) THEN kept ELSE Append(kept, x),
             <<>>, new)
Merged(m) == LET items == ItemsOf(task[m].read)
             IN items \o Missing(assignItemIds(task[m].own, items), items)

(* A refused write clears the conversation like an accepted one; a request *)
(* that throws, before or after GitHub took it, leaves it as it was.       *)
PutBacklog(m) ==
    /\ At(m, "put")
    /\ \/ /\ Accepts(task[m].repo, task[m].got)
          /\ backlog' = [backlog EXCEPT ![task[m].repo] = Merged(m)]
          /\ Goes(m, "clear", None) \/ Ended(m)
       \/ /\ ~ Accepts(task[m].repo, task[m].got)
          /\ UNCHANGED backlog
          /\ Goes(m, "clear", None)
       \/ Ended(m) /\ UNCHANGED backlog
    /\ UNCHANGED <<route, session, exists, edits>>

-----------------------------------------------------------------------------
(* A conversation left alone for a day expires.                            *)
Expire(c) ==
    /\ session[c] # None
    /\ session' = [session EXCEPT ![c] = None]
    /\ UNCHANGED <<route, exists, backlog, task, edits>>

(* A person keeps the backlog too: adds an item of their own, prunes one,  *)
(* or leaves the file unreadable.                                          *)
Own == [id |-> 0, doc |-> 0, deps |-> {}]     \* an id that is no REQ-NNN
Edited(file, kind) ==
    CASE kind = "add"   -> {Append(ItemsOf(file), Own)}
      [] kind = "prune" -> {RemoveAt(ItemsOf(file), i) : i \in DOMAIN ItemsOf(file)}
      [] kind = "break" -> {Unparsable}
Edit(r) ==
    /\ edits < Edits /\ r \in exists
    /\ edits' = edits + 1
    /\ \E kind \in EditKinds : \E file \in Edited(backlog[r], kind) :
          /\ 0 \notin Ids(ItemsOf(backlog[r])) \/ kind # "add"
          /\ backlog' = [backlog EXCEPT ![r] = file]
    /\ UNCHANGED <<route, session, exists, task>>

Handle(m) ==
    \/ Refine(m) \/ Analyze(m) \/ Decompose(m) \/ clearSession(m)
    \/ GetBacklog(m) \/ PutBacklog(m)
SessionNext ==
    \/ \E m \in 1..Messages :
          ProjectCommand(m) \/ NewProject(m) \/ Webhook(m) \/ Handle(m)
    \/ \E r \in Repos : Provisioned(r) \/ Edit(r)
    \/ \E c \in Chats : Expire(c)
=============================================================================
