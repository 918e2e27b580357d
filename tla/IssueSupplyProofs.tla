-------------------------- MODULE IssueSupplyProofs --------------------------
(***************************************************************************)
(* What the backlog, its supplier and the issues keep for any plans, any   *)
(* number of messages, edits, issues and overlapping supplier runs.        *)
(***************************************************************************)
EXTENDS IssueSupply, FoldLemmas

-----------------------------------------------------------------------------
(* Decompositions.                                                         *)

\* A conversation has no decomposition yet, or one the model answered with; so has
\* what a task took from it.
Drafts == Plans \cup {<<>>}
Talks(t) == t.at \in {"analyze", "decompose", "get", "put"}
DraftInv ==
    /\ DOMAIN task = 1..Messages /\ DOMAIN session = Chats
    /\ \A m \in 1..Messages : Talks(task[m]) \/ task[m].at = "refine" => task[m].chat \in Chats
    /\ \A c \in DOMAIN session : session[c] # None => session[c].plan \in Drafts
    /\ \A m \in 1..Messages : Talks(task[m]) => task[m].own.plan \in Drafts

\* The last item of a name is an item of that name.
LEMMA DraftsWhole ==
    ASSUME NEW p \in Drafts
    PROVE  /\ Len(p) \in Nat /\ DOMAIN p = 1..Len(p)
           /\ \A n \in Names(p) : Position(p, n) \in DOMAIN p /\ p[Position(p, n)].name = n
  <1>1. Len(p) \in Nat /\ DOMAIN p = 1..Len(p)
    BY PlansAssumption DEF Drafts
  <1>2. ASSUME NEW n \in Names(p)
        PROVE  Position(p, n) \in DOMAIN p /\ p[Position(p, n)].name = n
    <2> DEFINE S == {i \in DOMAIN p : p[i].name = n}
    <2>1. S \in SUBSET (1..Len(p)) /\ S # {}
      BY <1>1 DEF Names
    <2>2. Max(S) \in S
      BY <1>1, <2>1, MaxIn
    <2>3. QED
      BY <2>2 DEF Position
  <1>3. QED
    BY <1>1, <1>2

LEMMA DraftsStart == Init => DraftInv
  BY DEF Init, InitSession, DraftInv, NoTask, Talks

\* A step of one task, which may keep a conversation.
LEMMA DraftMoves ==
    ASSUME DraftInv, NEW m \in 1..Messages, NEW new, task' = [task EXCEPT ![m] = new],
           Talks(new) => new.own.plan \in Drafts,
           Talks(new) \/ new.at = "refine" => new.chat \in Chats,
           UNCHANGED session \/ \E c, s : /\ session' = [session EXCEPT ![c] = s]
                                          /\ s # None => s.plan \in Drafts
    PROVE  DraftInv'
  <1>1. \A c \in DOMAIN session' : session'[c] # None => session'[c].plan \in Drafts
    BY DEF DraftInv
  <1>2. QED
    BY <1>1 DEF DraftInv

LEMMA DraftEnds ==
    ASSUME DraftInv, NEW m \in 1..Messages, Ended(m),
           UNCHANGED session \/ \E c, s : /\ session' = [session EXCEPT ![c] = s]
                                          /\ s # None => s.plan \in Drafts
    PROVE  DraftInv'
  <1>1. ~ Talks([at |-> "done"]) /\ [at |-> "done"].at # "refine"
    BY DEF Talks
  <1>2. QED
    BY <1>1, DraftMoves DEF Ended

LEMMA DraftGoes ==
    ASSUME DraftInv, NEW m \in 1..Messages, NEW label, NEW own, Goes(m, label, own),
           label # "clear" => /\ own.plan \in Drafts /\ task[m].chat \in Chats
                              /\ label # "refine",
           UNCHANGED session
    PROVE  DraftInv'
  <1> DEFINE new == [at |-> label, chat |-> task[m].chat, own |-> own,
                     repo |-> IF label = "get" THEN task[m].repo ELSE None]
  <1>1. task' = [task EXCEPT ![m] = new]
    BY DEF Goes
  <1>2. /\ Talks(new) => new.own.plan \in Drafts
        /\ Talks(new) \/ new.at = "refine" => new.chat \in Chats
    BY DEF Talks
  <1> HIDE DEF new
  <1>3. QED
    BY <1>1, <1>2, DraftMoves

LEMMA RefineKeepsDrafts ==
    ASSUME DraftInv, NEW m \in 1..Messages, Refine(m) PROVE DraftInv'
  <1>1. PICK s \in {session[task[m].chat], None} :
           \/ s # None /\ LET step == NextStep(m, s) IN Goes(m, step[1], step[2])
           \/ s = None /\ Goes(m, "analyze", newSession(m))
           \/ s = None /\ task[m].says = "document" /\ Ended(m)
    BY DEF Refine
  <1>2. UNCHANGED session /\ task[m].chat \in Chats
    BY DEF Refine, At, DraftInv
  <1>3. newSession(m).plan \in Drafts
    BY DEF newSession, Drafts
  <1>4. CASE s # None /\ Goes(m, NextStep(m, s)[1], NextStep(m, s)[2])
    <2>1. s.plan \in Drafts
      BY <1>1, <1>2, <1>4 DEF DraftInv
    <2>2. \/ NextStep(m, s)[1] = "clear"
          \/ NextStep(m, s)[2].plan \in Drafts /\ NextStep(m, s)[1] # "refine"
      BY <2>1 DEF NextStep
    <2>3. QED
      BY <1>2, <1>4, <2>2, DraftGoes
  <1>5. QED
    BY <1>1, <1>2, <1>3, <1>4, DraftGoes, DraftEnds

LEMMA AnalyzeKeepsDrafts ==
    ASSUME DraftInv, NEW m \in 1..Messages, Analyze(m) PROVE DraftInv'
  <1>1. task[m].own.plan \in Drafts /\ task[m].chat \in Chats
    BY DEF Analyze, At, DraftInv, Talks
  <1>2. CASE Ended(m) /\ Keeps(m, [task[m].own EXCEPT !.phase = "awaiting_answers"])
    <2>1. [task[m].own EXCEPT !.phase = "awaiting_answers"].plan \in Drafts
      BY <1>1
    <2>2. QED
      BY <1>2, <2>1, DraftEnds DEF Keeps
  <1>3. QED
    BY <1>1, <1>2, DraftEnds, DraftGoes DEF Analyze

LEMMA DecomposeKeepsDrafts ==
    ASSUME DraftInv, NEW m \in 1..Messages, Decompose(m) PROVE DraftInv'
  <1>1. ASSUME NEW p \in Plans, Ended(m),
               Keeps(m, [task[m].own EXCEPT !.phase = "awaiting_approval", !.plan = p])
        PROVE  DraftInv'
    <2> DEFINE s == [task[m].own EXCEPT !.phase = "awaiting_approval", !.plan = p]
    <2>1. session' = [session EXCEPT ![task[m].chat] = s]
      BY <1>1 DEF Keeps
    <2>2. s.plan \in Drafts
      BY DEF Drafts
    <2> HIDE DEF s
    <2>3. QED
      BY <1>1, <2>1, <2>2, DraftEnds
  <1>2. task[m].own.plan \in Drafts /\ task[m].chat \in Chats
    BY DEF Decompose, At, DraftInv, Talks
  <1>3. QED
    BY <1>1, <1>2, DraftEnds, DraftGoes DEF Decompose

LEMMA GetKeepsDrafts ==
    ASSUME DraftInv, NEW m \in 1..Messages, GetBacklog(m) PROVE DraftInv'
  <1>1. PICK got, read :
           task' = [task EXCEPT ![m] = [at |-> "put", chat |-> @.chat, own |-> @.own,
                                        repo |-> @.repo, got |-> got, read |-> read]]
    BY DEF GetBacklog
  <1> DEFINE new == [at |-> "put", chat |-> task[m].chat, own |-> task[m].own,
                     repo |-> task[m].repo, got |-> got, read |-> read]
  <1>2. task' = [task EXCEPT ![m] = new]
    BY <1>1
  <1>3. new.own.plan \in Drafts /\ new.chat \in Chats
    BY DEF GetBacklog, At, DraftInv, Talks
  <1> HIDE DEF new
  <1>4. QED
    BY <1>2, <1>3, DraftMoves DEF GetBacklog

LEMMA DraftStep == DraftInv /\ [Next]_vars => DraftInv'
  <1> SUFFICES ASSUME DraftInv, [Next]_vars PROVE DraftInv'
    OBVIOUS
  <1>1. CASE UNCHANGED <<session, task>>
    BY <1>1 DEF DraftInv
  <1>2. ASSUME NEW m \in 1..Messages, ProjectCommand(m) \/ NewProject(m) \/ QuickIssue(m)
        PROVE  DraftInv'
    BY <1>2, DraftEnds DEF ProjectCommand, NewProject, QuickIssue
  <1>3. ASSUME NEW m \in 1..Messages, Webhook(m) PROVE DraftInv'
    <2>1. PICK c, says, label, repo :
             /\ c \in Chats /\ label \in {"refine", "quick"}
             /\ task' = [task EXCEPT ![m] = [at |-> label, chat |-> c, says |-> says,
                                            repo |-> repo]]
      BY <1>3 DEF Webhook
    <2> DEFINE new == [at |-> label, chat |-> c, says |-> says, repo |-> repo]
    <2>2. ~ Talks(new) /\ new.chat \in Chats
      BY <2>1 DEF Talks
    <2>3. task' = [task EXCEPT ![m] = new]
      BY <2>1
    <2> HIDE DEF new
    <2>4. QED
      BY <1>3, <2>2, <2>3, DraftMoves DEF Webhook
  <1>4. ASSUME NEW m \in 1..Messages, clearSession(m) PROVE DraftInv'
    BY <1>4, DraftEnds DEF clearSession, Keeps
  <1>5. ASSUME NEW m \in 1..Messages, PutBacklog(m) PROVE DraftInv'
    <2>1. (Goes(m, "clear", None) \/ Ended(m)) /\ UNCHANGED session
      BY <1>5 DEF PutBacklog
    <2>2. CASE Goes(m, "clear", None)
      BY <2>1, <2>2, DraftGoes
    <2>3. CASE Ended(m)
      BY <2>1, <2>3, DraftEnds
    <2>4. QED
      BY <2>1, <2>2, <2>3
  <1>6. ASSUME NEW c \in Chats, Expire(c) PROVE DraftInv'
    BY <1>6 DEF Expire, DraftInv
  <1>7. CASE SessionNext
    BY <1>1, <1>2, <1>3, <1>4, <1>5, <1>6, <1>7, RefineKeepsDrafts, AnalyzeKeepsDrafts,
       DecomposeKeepsDrafts, GetKeepsDrafts DEF SessionNext, Handle, Provisioned, Edit
  <1>8. CASE SupplyNext \/ UNCHANGED vars
    BY <1>1, <1>8 DEF SupplyNext, Supply, Select, File, OpenReady, FetchIssues, ImportIssues,
       OpenPr, CloseIssue, WorkStory, sessionVars, vars
  <1>9. QED
    BY <1>2, <1>7, <1>8 DEF Next

LEMMA DraftsHold == Spec => []DraftInv
  BY DraftsStart, DraftStep, PTL DEF Spec

-----------------------------------------------------------------------------
(* Backlog files.                                                          *)

\* A file that can be read is a list of items under numbers.
Listed(items) == DOMAIN items = 1..Len(items) /\ Len(items) \in Nat
Numbered(items) == Listed(items) /\ \A i \in DOMAIN items : items[i].id \in Nat
Readable(file) == file \in {None, Unparsable} \/ Numbered(file)

\* So is every file there is, and what a task holds of one; a conversation is about
\* one of the repositories.
HeldWell(t) ==
    /\ t.at \in {"refine", "get"} => t.repo \in Repos
    /\ t.at = "put" => Readable(t.got) /\ Readable(t.read)
    /\ t.at = "put" /\ t.read # t.got => MayLackContent
FilesInv ==
    /\ route \in [Chats \X Threads -> Repos \cup {None}] /\ exists \subseteq Repos
    /\ DOMAIN backlog = Repos /\ DOMAIN task = 1..Messages
    /\ \A r \in Repos : Readable(backlog[r])
    /\ \A m \in 1..Messages : HeldWell(task[m])

LEMMA ItemsListed ==
    ASSUME NEW file, Readable(file)
    PROVE  Numbered(ItemsOf(file)) /\ Listed(ItemsOf(file))
  <1>1. Numbered(<<>>)
    BY DEF Numbered, Listed
  <1>2. QED
    BY <1>1 DEF Readable, ItemsOf, Numbered

\* The highest number of a list is one of its own or 0.
LEMMA LastIdHighest ==
    ASSUME NEW items, Numbered(items)
    PROVE  LastId(items) \in Nat /\ \A i \in DOMAIN items : LastId(items) >= items[i].id
  <1> DEFINE n == Len(items)
             Upto(k) == {0} \cup {items[i].id : i \in 1..k}
             Has(s) == \E x \in s : \A y \in s : x >= y
             T == {k \in Nat : k <= n => Has(Upto(k))}
  <1>1. n \in Nat /\ DOMAIN items = 1..n /\ \A i \in 1..n : items[i].id \in Nat
    BY DEF Numbered, Listed
  <1> HIDE DEF n
  <1>2. 0 \in T
    <2>1. Upto(0) = {0}
      OBVIOUS
    <2>2. QED
      BY <2>1
  <1>3. ASSUME NEW k \in Nat, k \in T PROVE k + 1 \in T
    <2>1. ASSUME k + 1 <= n PROVE Has(Upto(k + 1))
      <3>1. Upto(k + 1) = Upto(k) \cup {items[k + 1].id}
        <4>1. 1..(k + 1) = (1..k) \cup {k + 1}
          OBVIOUS
        <4>2. QED
          BY <4>1
      <3>2. Upto(k) \subseteq Nat /\ items[k + 1].id \in Nat
        BY <1>1, <2>1
      <3>3. Has(Upto(k))
        BY <1>1, <1>3, <2>1
      <3> HIDE DEF Upto
      <3>4. PICK x \in Upto(k) : \A y \in Upto(k) : x >= y
        BY <3>3
      <3>5. CASE x >= items[k + 1].id
        BY <3>1, <3>4, <3>5
      <3>6. CASE ~ (x >= items[k + 1].id)
        <4>1. \A y \in Upto(k) : items[k + 1].id >= y
          BY <3>2, <3>4, <3>6
        <4>2. \A y \in Upto(k + 1) : items[k + 1].id >= y
          BY <3>1, <3>2, <4>1
        <4>3. items[k + 1].id \in Upto(k + 1)
          BY <3>1
        <4>4. QED
          BY <4>2, <4>3
      <3>7. QED
        BY <3>5, <3>6
    <2> HIDE DEF Has, Upto
    <2>2. QED
      BY <2>1
  <1>4. Nat \subseteq T
    <2> HIDE DEF T
    <2>1. QED
      BY <1>2, <1>3, Inductive
  <1>5. Has(Upto(n))
    <2> HIDE DEF Has, Upto
    <2>1. QED
      BY <1>1, <1>4
  <1>6. Upto(n) = {0} \cup Ids(items) /\ Upto(n) \subseteq Nat
    BY <1>1 DEF Ids
  <1>7. LastId(items) \in Upto(n) /\ \A y \in Upto(n) : LastId(items) >= y
    <2> HIDE DEF Upto
    <2>1. QED
      BY <1>5, <1>6 DEF LastId, Max
  <1>8. QED
    BY <1>1, <1>6, <1>7 DEF Ids

\* So the items a decomposition becomes have numbers no item of the file has.
LEMMA MintedFresh ==
    ASSUME NEW items, Numbered(items), NEW s, s.plan \in Drafts
    PROVE  /\ Numbered(assignItemIds(s, items))
           /\ \A i \in DOMAIN s.plan : assignItemIds(s, items)[i].id \notin Ids(items)
  <1> DEFINE n == Len(s.plan)
             new == assignItemIds(s, items)
  <1>1. n \in Nat /\ DOMAIN s.plan = 1..n
    BY DraftsWhole
  <1> DEFINE at(i) == Position(s.plan, s.plan[i].name)
  <1>2. /\ DOMAIN new = 1..n
        /\ \A i \in 1..n : at(i) \in 1..n /\ new[i].id = LastId(items) + at(i)
    <2>1. \A i \in 1..n : s.plan[i].name \in Names(s.plan)
      BY <1>1 DEF Names
    <2>2. \A i \in 1..n : at(i) \in 1..n
      BY <1>1, <2>1, DraftsWhole
    <2>3. QED
      BY <1>1, <2>2 DEF assignItemIds
  <1>3. Len(new) = n
    BY <1>1, <1>2
  <1> HIDE DEF new, n, at
  <1>4. \A i \in 1..n : new[i].id \in Nat /\ new[i].id > LastId(items)
    <2>1. LastId(items) \in Nat
      BY LastIdHighest
    <2>2. ASSUME NEW i \in 1..n, NEW k \in 1..n, new[i].id = LastId(items) + k
          PROVE  new[i].id \in Nat /\ new[i].id > LastId(items)
      BY <1>1, <2>1, <2>2
    <2>3. QED
      BY <1>2, <2>2
  <1>5. \A i \in 1..n : new[i].id \notin Ids(items)
    BY <1>1, <1>4, LastIdHighest DEF Ids, Numbered
  <1>6. QED
    BY <1>1, <1>2, <1>3, <1>4, <1>5 DEF Numbered, Listed, new

\* What mergeBacklog keeps of the parts of a list of items.
Kept(new, items) ==
    CHOOSE g : g = [s \in SUBSET DOMAIN new |->
                      IF s = {} THEN <<>>
                      ELSE LET k == Max(s)
                           IN IF new[k].id \in Ids(items) THEN g[s \ {k}]
                              ELSE Append(g[s \ {k}], new[k])]

LEMMA MissingIsKept ==
    ASSUME NEW new, NEW items
    PROVE  Missing(new, items) = Kept(new, items)[DOMAIN new]
  BY DEF Missing, FoldLeft, MapThenFoldSet, Kept

\* It drops none of the items whose numbers the file does not hold.
LEMMA MissingAll ==
    ASSUME NEW new, NEW items, Listed(new), new = [i \in DOMAIN new |-> new[i]],
           \A i \in DOMAIN new : new[i].id \notin Ids(items)
    PROVE  Missing(new, items) = new
  <1> DEFINE n == Len(new)
             V == Seq({new[i] : i \in 1..n})
             step == [k \in 1..n |-> [v \in V |-> Append(v, new[k])]]
             Is(g) == g = [s \in SUBSET (1..n) |->
                             IF s = {} THEN <<>>
                             ELSE LET k == Max(s)
                                  IN IF new[k].id \in Ids(items) THEN g[s \ {k}]
                                     ELSE Append(g[s \ {k}], new[k])]
             Part(k) == [i \in 1..k |-> new[i]]
  <1>1. n \in Nat /\ DOMAIN new = 1..n
    BY DEF Listed
  <1> HIDE DEF n
  <1>2. \E g \in [SUBSET (1..n) -> V] : FoldsUpto(g, n, <<>>, step)
    <2>1. <<>> \in V
      OBVIOUS
    <2>2. \A k \in 1..n : \A v \in V : step[k][v] \in V
      OBVIOUS
    <2> HIDE DEF V, step
    <2>3. QED
      BY <1>1, <2>1, <2>2, FoldUptoExists
  <1>3. \A g \in [SUBSET (1..n) -> V] : FoldsUpto(g, n, <<>>, step) => Is(g)
    <2> SUFFICES ASSUME NEW g \in [SUBSET (1..n) -> V], FoldsUpto(g, n, <<>>, step)
                 PROVE Is(g)
      OBVIOUS
    <2>1. ASSUME NEW s \in SUBSET (1..n), s # {}
          PROVE  /\ new[Max(s)].id \notin Ids(items)
                 /\ step[Max(s)][g[s \ {Max(s)}]] = Append(g[s \ {Max(s)}], new[Max(s)])
      <3>1. Max(s) \in 1..n
        BY <1>1, <2>1, MaxIn
      <3>2. g[s \ {Max(s)}] \in V
        <4> HIDE DEF V
        <4>1. QED
          OBVIOUS
      <3>3. QED
        BY <1>1, <3>1, <3>2
    <2> HIDE DEF step, V
    <2>2. QED
      BY <2>1 DEF FoldsUpto
  <1>4. Is(Kept(new, items))
    <2> HIDE DEF Is, V, step
    <2>1. Is(CHOOSE g : Is(g))
      BY <1>2, <1>3
    <2>2. QED
      BY <1>1, <2>1 DEF Is, Kept
  <1> HIDE DEF V, step
  <1>5. ASSUME NEW k \in Nat PROVE k <= n => Kept(new, items)[1..k] = Part(k)
    <2> DEFINE T == {j \in Nat : j <= n => Kept(new, items)[1..j] = Part(j)}
    <2>1. 0 \in T
      <3>1. 1..0 = {} /\ Part(0) = <<>>
        OBVIOUS
      <3>2. QED
        BY <1>4, <3>1
    <2>2. ASSUME NEW j \in Nat, j \in T PROVE j + 1 \in T
      <3>1. ASSUME j + 1 <= n PROVE Kept(new, items)[1..(j + 1)] = Part(j + 1)
        <4>1. /\ 1..(j + 1) \in SUBSET (1..n) /\ 1..(j + 1) # {}
              /\ Max(1..(j + 1)) = j + 1 /\ (1..(j + 1)) \ {j + 1} = 1..j
          BY <1>1, <3>1, MaxUpto
        <4>2. new[j + 1].id \notin Ids(items)
          BY <1>1, <3>1
        <4>3. Kept(new, items)[1..(j + 1)] = Append(Kept(new, items)[1..j], new[j + 1])
          BY <1>4, <4>1, <4>2
        <4>4. Kept(new, items)[1..j] = Part(j)
          BY <2>2, <1>1, <3>1
        <4>5. Append(Part(j), new[j + 1]) = Part(j + 1)
          OBVIOUS
        <4>6. QED
          BY <4>3, <4>4, <4>5
      <3> HIDE DEF Part
      <3>2. QED
        BY <3>1
    <2>3. Nat \subseteq T
      <3> HIDE DEF T
      <3>1. QED
        BY <2>1, <2>2, Inductive
    <2>4. QED
      BY <2>3
  <1>6. Kept(new, items)[1..n] = new
    BY <1>1, <1>5
  <1>7. QED
    BY <1>1, <1>6, MissingIsKept

LEMMA Joined ==
    ASSUME NEW s, NEW t, Numbered(s), Numbered(t)
    PROVE  Numbered(s \o t) /\ ToSet(s \o t) = ToSet(s) \cup ToSet(t)
  <1>1. DOMAIN (s \o t) = 1..(Len(s) + Len(t)) /\ Len(s \o t) = Len(s) + Len(t)
    BY DEF Numbered, Listed
  <1>2. \A i \in DOMAIN s : i \in DOMAIN (s \o t) /\ (s \o t)[i] = s[i]
    BY <1>1 DEF Numbered, Listed
  <1>3. \A i \in DOMAIN t : i + Len(s) \in DOMAIN (s \o t) /\ (s \o t)[i + Len(s)] = t[i]
    BY <1>1 DEF Numbered, Listed
  <1>4. ASSUME NEW i \in DOMAIN (s \o t)
        PROVE  \/ i \in DOMAIN s /\ (s \o t)[i] = s[i]
               \/ i - Len(s) \in DOMAIN t /\ (s \o t)[i] = t[i - Len(s)]
    BY <1>1 DEF Numbered, Listed
  <1>5. ToSet(s \o t) = ToSet(s) \cup ToSet(t)
    BY <1>2, <1>3, <1>4 DEF ToSet
  <1>6. \A i \in DOMAIN (s \o t) : (s \o t)[i].id \in Nat
    BY <1>4 DEF Numbered
  <1>7. QED
    BY <1>1, <1>5, <1>6 DEF Numbered, Listed

\* What a commit writes: the items it read and all of the decomposition's.
LEMMA MergedListed ==
    ASSUME NEW m, Readable(task[m].read), task[m].own.plan \in Drafts
    PROVE  LET items == ItemsOf(task[m].read)
               new == assignItemIds(task[m].own, items)
           IN /\ Numbered(Merged(m)) /\ Listed(Merged(m))
              /\ ToSet(Merged(m)) = ToSet(items) \cup ToSet(new)
  <1> DEFINE items == ItemsOf(task[m].read)
             new == assignItemIds(task[m].own, items)
  <1>1. Numbered(items)
    BY ItemsListed
  <1>2. Numbered(new) /\ \A i \in DOMAIN new : new[i].id \notin Ids(items)
    <2>1. DOMAIN new = DOMAIN task[m].own.plan
      BY DEF assignItemIds
    <2> HIDE DEF items
    <2>2. QED
      BY <1>1, <2>1, MintedFresh
  <1>3. new = [i \in DOMAIN new |-> new[i]]
    BY DEF assignItemIds
  <1>4. Merged(m) = items \o Missing(new, items)
    BY DEF Merged
  <1> HIDE DEF items, new
  <1>5. Missing(new, items) = new
    BY <1>2, <1>3, MissingAll DEF Numbered
  <1>6. /\ Numbered(items \o new) /\ Listed(items \o new)
        /\ ToSet(items \o new) = ToSet(items) \cup ToSet(new)
    BY <1>1, <1>2, Joined DEF Numbered
  <1>7. QED
    BY <1>4, <1>5, <1>6 DEF items, new

\* What is left of a list without its i-th item.
LEMMA RemoveAtLists ==
    ASSUME NEW items, Listed(items), NEW i \in DOMAIN items
    PROVE  LET left == RemoveAt(items, i)
           IN /\ Len(left) = Len(items) - 1 /\ DOMAIN left = 1..(Len(items) - 1)
              /\ \A k \in DOMAIN left : left[k] = IF k < i THEN items[k] ELSE items[k + 1]
  <1> DEFINE n == Len(items)
             left == RemoveAt(items, i)
             a == SubSeq(items, 1, i - 1)
             b == SubSeq(items, i + 1, n)
  <1>1. n \in Nat /\ i \in 1..n /\ DOMAIN items = 1..n
    BY DEF Listed
  <1>2. Len(a) = i - 1 /\ DOMAIN a = 1..(i - 1) /\ \A k \in 1..(i - 1) : a[k] = items[k]
    BY <1>1
  <1>3. /\ Len(b) = n - i /\ DOMAIN b = 1..(n - i)
        /\ \A k \in 1..(n - i) : b[k] = items[k + i]
    <2> HIDE DEF n
    <2>1. Len(b) = n - i /\ DOMAIN b = 1..(n - i)
      BY <1>1
    <2>2. \A k \in 1..(n - i) : b[k] = items[k + i]
      BY <1>1
    <2>3. QED
      BY <2>1, <2>2
  <1>4. left = a \o b
    BY DEF RemoveAt
  <1> HIDE DEF a, b, left, n
  <1>5. Len(a) \in Nat /\ Len(b) \in Nat /\ Len(a) + Len(b) = n - 1
    BY <1>1, <1>2, <1>3
  <1>6. DOMAIN (a \o b) = 1..(Len(a) + Len(b)) /\ Len(a \o b) = Len(a) + Len(b)
    BY <1>5
  <1>7. \A k \in 1..(Len(a) + Len(b)) :
           (a \o b)[k] = IF k <= Len(a) THEN a[k] ELSE b[k - Len(a)]
    BY <1>5
  <1>8. \A k \in 1..(n - 1) : left[k] = IF k <= i - 1 THEN a[k] ELSE b[k - (i - 1)]
    BY <1>2, <1>4, <1>5, <1>7
  <1>9. \A k \in 1..(n - 1) :
           /\ k < i => k \in 1..(i - 1) /\ k <= i - 1
           /\ ~ (k < i) => /\ k - (i - 1) \in 1..(n - i) /\ ~ (k <= i - 1)
                           /\ (k - (i - 1)) + i = k + 1
    BY <1>1
  <1>10. \A k \in 1..(n - 1) : left[k] = IF k < i THEN items[k] ELSE items[k + 1]
    BY <1>2, <1>3, <1>8, <1>9
  <1>11. Len(left) = n - 1 /\ DOMAIN left = 1..(n - 1)
    BY <1>4, <1>5, <1>6
  <1>12. QED
    BY <1>10, <1>11 DEF left, n

LEMMA RemoveListed ==
    ASSUME NEW items, Listed(items), NEW i \in DOMAIN items
    PROVE  /\ Listed(RemoveAt(items, i))
           /\ ToSet(RemoveAt(items, i)) \subseteq ToSet(items)
           /\ \A k \in DOMAIN items : k # i => items[k] \in ToSet(RemoveAt(items, i))
  <1> DEFINE n == Len(items)
             left == RemoveAt(items, i)
  <1>1. n \in Nat /\ i \in 1..n /\ DOMAIN items = 1..n
    BY DEF Listed
  <1>2. /\ Len(left) = n - 1 /\ DOMAIN left = 1..(n - 1)
        /\ \A k \in 1..(n - 1) : left[k] = IF k < i THEN items[k] ELSE items[k + 1]
    BY RemoveAtLists
  <1> HIDE DEF left, n
  <1>3. \A k \in 1..(n - 1) : k \in 1..n /\ k + 1 \in 1..n
    BY <1>1
  <1>4. \A k \in 1..n : k # i =>
           \/ k \in 1..(n - 1) /\ k < i
           \/ k - 1 \in 1..(n - 1) /\ ~ (k - 1 < i) /\ (k - 1) + 1 = k
    BY <1>1
  <1>5. \A k \in DOMAIN items : k # i => items[k] \in ToSet(left)
    BY <1>1, <1>2, <1>4 DEF ToSet
  <1>6. QED
    BY <1>1, <1>2, <1>3, <1>5 DEF Listed, ToSet, left

LEMMA EditedListed ==
    ASSUME NEW file, Readable(file), NEW kind \in EditKinds, NEW new \in Edited(file, kind)
    PROVE  Readable(new)
  <1> DEFINE items == ItemsOf(file)
  <1>1. Numbered(items)
    BY ItemsListed
  <1> HIDE DEF items
  <1>2. Numbered(Append(items, Own))
    BY <1>1 DEF Numbered, Listed, Own
  <1>3. ASSUME NEW i \in DOMAIN items PROVE Numbered(RemoveAt(items, i))
    <2>1. Listed(RemoveAt(items, i)) /\ ToSet(RemoveAt(items, i)) \subseteq ToSet(items)
      BY <1>1, RemoveListed DEF Numbered
    <2>2. QED
      BY <1>1, <2>1 DEF Numbered, ToSet
  <1>4. kind \in {"add", "prune", "break"}
    BY SessionAssumption
  <1>5. QED
    BY <1>2, <1>3, <1>4 DEF Edited, Readable, items

LEMMA FilesStart == Init => FilesInv
  BY SessionAssumption DEF Init, InitSession, FilesInv, Readable, NoTask, HeldWell

\* A step of one task that changes no file.
LEMMA TaskMoves ==
    ASSUME FilesInv, UNCHANGED <<route, exists, backlog>>, NEW m \in 1..Messages,
           NEW new, HeldWell(new), task' = [task EXCEPT ![m] = new]
    PROVE  FilesInv'
  BY DEF FilesInv

LEMMA TaskEnds ==
    ASSUME NEW m, Ended(m)
    PROVE  \E new : HeldWell(new) /\ task' = [task EXCEPT ![m] = new]
  <1> DEFINE new == [at |-> "done"]
  <1>1. HeldWell(new) /\ task' = [task EXCEPT ![m] = new]
    BY DEF Ended, HeldWell
  <1>2. QED
    BY <1>1

LEMMA TaskGoes ==
    ASSUME FilesInv, NEW m \in 1..Messages, NEW label, NEW own,
           Goes(m, label, own), label \notin {"put", "refine"},
           label = "get" => task[m].at = "refine"
    PROVE  \E new : HeldWell(new) /\ task' = [task EXCEPT ![m] = new]
  <1> DEFINE new == [at |-> label, chat |-> task[m].chat, own |-> own,
                     repo |-> IF label = "get" THEN task[m].repo ELSE None]
  <1>1. task' = [task EXCEPT ![m] = new]
    BY DEF Goes
  <1>2. HeldWell(new)
    BY DEF HeldWell, FilesInv
  <1>3. QED
    BY <1>1, <1>2

\* The binding of a topic, which is only ever to a repository that exists or will.
LEMMA BindKeepsFiles ==
    ASSUME FilesInv, NEW m \in 1..Messages, ProjectCommand(m) \/ NewProject(m)
    PROVE  FilesInv'
  <1>1. route' \in [Chats \X Threads -> Repos \cup {None}] /\ UNCHANGED <<exists, backlog>>
    <2>1. ASSUME NEW key \in Chats \X Threads, NEW r \in Repos \cup {None},
                 route' = [route EXCEPT ![key] = r]
          PROVE  route' \in [Chats \X Threads -> Repos \cup {None}]
      BY <2>1 DEF FilesInv
    <2>2. QED
      BY <2>1 DEF ProjectCommand, NewProject, FilesInv
  <1>2. PICK new : HeldWell(new) /\ task' = [task EXCEPT ![m] = new]
    BY TaskEnds DEF ProjectCommand, NewProject
  <1>3. QED
    BY <1>1, <1>2 DEF FilesInv

LEMMA WebhookKeepsFiles ==
    ASSUME FilesInv, NEW m \in 1..Messages, Webhook(m) PROVE FilesInv'
  <1>1. PICK c \in Chats, t \in Threads, says \in Says, label \in {"refine", "quick"} :
           task' = [task EXCEPT ![m] =
                   [at |-> label, chat |-> c, says |-> says, repo |-> resolveRepo(<<c, t>>)]]
    BY DEF Webhook
  <1> DEFINE new == [at |-> label, chat |-> c, says |-> says, repo |-> resolveRepo(<<c, t>>)]
  <1>2. resolveRepo(<<c, t>>) \in Repos
    BY SessionAssumption DEF resolveRepo, FilesInv
  <1>3. HeldWell(new)
    BY <1>2 DEF HeldWell
  <1>4. task' = [task EXCEPT ![m] = new]
    BY <1>1
  <1> HIDE DEF new
  <1>5. QED
    BY <1>3, <1>4, TaskMoves DEF Webhook

\* The handler's steps between the webhook and the commit.
LEMMA TalkKeepsFiles ==
    ASSUME FilesInv, NEW m \in 1..Messages,
           Refine(m) \/ Analyze(m) \/ Decompose(m) \/ clearSession(m)
    PROVE  FilesInv'
  <1> DEFINE Moved == \E new : HeldWell(new) /\ task' = [task EXCEPT ![m] = new]
  <1>1. CASE Refine(m)
    <2>1. task[m].at = "refine"
      BY <1>1 DEF Refine, At
    <2>2. ASSUME NEW s PROVE NextStep(m, s)[1] \in {"clear", "analyze", "get", "decompose"}
      BY DEF NextStep
    <2>3. \/ \E s : LET step == NextStep(m, s) IN Goes(m, step[1], step[2])
          \/ Goes(m, "analyze", newSession(m))
          \/ Ended(m)
      BY <1>1 DEF Refine
    <2>4. Moved
      BY <2>1, <2>2, <2>3, TaskGoes, TaskEnds
    <2>5. QED
      BY <1>1, <2>4, TaskMoves DEF Refine
  <1>2. CASE Analyze(m) \/ Decompose(m) \/ clearSession(m)
    <2>1. (\E label \in {"clear", "decompose"} : \E own : Goes(m, label, own)) \/ Ended(m)
      BY <1>2 DEF Analyze, Decompose, clearSession
    <2>2. Moved
      BY <2>1, TaskGoes, TaskEnds
    <2>3. QED
      BY <1>2, <2>2, TaskMoves DEF Analyze, Decompose, clearSession
  <1>3. QED
    BY <1>1, <1>2

LEMMA GetKeepsFiles ==
    ASSUME FilesInv, NEW m \in 1..Messages, GetBacklog(m) PROVE FilesInv'
  <1>1. PICK got \in {backlog[task[m].repo], None} : \E read \in Contents(got) :
           task' = [task EXCEPT ![m] = [at |-> "put", chat |-> @.chat, own |-> @.own,
                                        repo |-> @.repo, got |-> got, read |-> read]]
    BY DEF GetBacklog
  <1>2. PICK read \in Contents(got) :
           task' = [task EXCEPT ![m] = [at |-> "put", chat |-> @.chat, own |-> @.own,
                                        repo |-> @.repo, got |-> got, read |-> read]]
    BY <1>1
  <1>3. task[m].repo \in Repos
    BY DEF GetBacklog, At, FilesInv, HeldWell
  <1>4. /\ Readable(got) /\ Readable(read)
        /\ ~ MayLackContent => read = got
    BY <1>3 DEF FilesInv, Readable, Contents
  <1> DEFINE new == [at |-> "put", chat |-> task[m].chat, own |-> task[m].own,
                     repo |-> task[m].repo, got |-> got, read |-> read]
  <1>5. HeldWell(new) /\ task' = [task EXCEPT ![m] = new]
    BY <1>2, <1>4 DEF HeldWell
  <1>6. QED
    BY <1>5, TaskMoves DEF GetBacklog

\* GitHub takes the write or not.
LEMMA PutKeepsFiles ==
    ASSUME DraftInv, FilesInv, NEW m \in 1..Messages, PutBacklog(m) PROVE FilesInv'
  <1>1. task[m].at = "put" /\ Readable(task[m].read) /\ task[m].own.plan \in Drafts
    BY DEF PutBacklog, At, FilesInv, HeldWell, DraftInv, Talks
  <1>2. Numbered(Merged(m))
    BY <1>1, MergedListed
  <1>3. Goes(m, "clear", None) \/ Ended(m)
    BY DEF PutBacklog
  <1>4. PICK new : HeldWell(new) /\ task' = [task EXCEPT ![m] = new]
    BY <1>3, TaskGoes, TaskEnds
  <1>5. UNCHANGED backlog \/ backlog' = [backlog EXCEPT ![task[m].repo] = Merged(m)]
    BY DEF PutBacklog
  <1>6. DOMAIN backlog' = Repos /\ \A r \in Repos : Readable(backlog'[r])
    BY <1>2, <1>5 DEF FilesInv, Readable
  <1>7. UNCHANGED <<route, exists>>
    BY DEF PutBacklog
  <1>8. QED
    BY <1>4, <1>6, <1>7 DEF FilesInv

LEMMA EditKeepsFiles ==
    ASSUME FilesInv, NEW r \in Repos, Edit(r) PROVE FilesInv'
  <1>1. PICK kind \in EditKinds : \E new \in Edited(backlog[r], kind) :
           backlog' = [backlog EXCEPT ![r] = new]
    BY DEF Edit
  <1>2. PICK new \in Edited(backlog[r], kind) : backlog' = [backlog EXCEPT ![r] = new]
    BY <1>1
  <1>3. Readable(backlog[r])
    BY DEF FilesInv
  <1>4. Readable(new)
    BY <1>2, <1>3, EditedListed
  <1>5. UNCHANGED <<route, exists, task>>
    BY DEF Edit
  <1>6. QED
    BY <1>2, <1>4, <1>5 DEF FilesInv

LEMMA FilesStep == DraftInv /\ FilesInv /\ [Next]_vars => FilesInv'
  <1> SUFFICES ASSUME DraftInv, FilesInv, [Next]_vars PROVE FilesInv'
    OBVIOUS
  <1>1. CASE UNCHANGED <<route, exists, backlog, task>>
    BY <1>1 DEF FilesInv
  <1>2. ASSUME NEW m \in 1..Messages, QuickIssue(m) PROVE FilesInv'
    BY <1>2, TaskEnds, TaskMoves DEF QuickIssue
  <1>3. ASSUME NEW r \in Repos, Provisioned(r) PROVE FilesInv'
    BY <1>3 DEF Provisioned, FilesInv
  <1>4. CASE SessionNext
    BY <1>1, <1>3, <1>4, BindKeepsFiles, WebhookKeepsFiles, TalkKeepsFiles, GetKeepsFiles, PutKeepsFiles,
       EditKeepsFiles DEF SessionNext, Handle, Expire
  <1>5. CASE SupplyNext \/ UNCHANGED vars
    BY <1>1, <1>5 DEF SupplyNext, Supply, Select, File, OpenReady, FetchIssues, ImportIssues,
       OpenPr, CloseIssue, WorkStory, sessionVars, vars
  <1>6. QED
    BY <1>2, <1>4, <1>5 DEF Next

LEMMA FilesHold == Spec => []FilesInv
  BY FilesStart, FilesStep, DraftsHold, PTL DEF Spec

-----------------------------------------------------------------------------
(* The worker's writes.                                                    *)

EditsInv == edits \in Nat

LEMMA EditsHold == Spec => []EditsInv
  <1>1. Init => EditsInv
    BY DEF Init, InitSession, EditsInv
  <1>2. edits' = edits \/ edits' = edits + 1 \/ ~ [Next]_vars
    BY DEF Next, vars, sessionVars, SessionNext, ProjectCommand, NewProject, Webhook, Handle, Refine,
       Analyze, Decompose, clearSession, GetBacklog, PutBacklog, Provisioned, Edit, Expire,
       QuickIssue, SupplyNext, Supply, Select, File, OpenReady, FetchIssues, ImportIssues,
       OpenPr, CloseIssue, WorkStory
  <1>3. EditsInv /\ [Next]_vars => EditsInv'
    BY <1>2 DEF EditsInv
  <1>4. QED
    BY <1>1, <1>3, PTL DEF Spec

\* Only the worker's commit and a person write a backlog.
LEMMA Writers ==
    ASSUME [Next]_vars, backlog' # backlog
    PROVE  (\E m \in 1..Messages : PutBacklog(m)) \/ \E r \in Repos : Edit(r)
  BY DEF Next, vars, sessionVars, SessionNext, ProjectCommand, NewProject, Webhook, Handle, Refine,
     Analyze, Decompose, clearSession, GetBacklog, Provisioned, Expire,
     QuickIssue, SupplyNext, Supply, Select, File, OpenReady, FetchIssues, ImportIssues,
     OpenPr, CloseIssue, WorkStory

\* A commit that GitHub takes replaces the file it was merged with, which is still
\* the one in the repository, and adds the items of the decomposition to it: unless
\* an answer named the file and did not hold its content.
LEMMA CommitAdds ==
    ASSUME ~ MayLackContent, DraftInv, FilesInv, NEW m \in 1..Messages, PutBacklog(m),
           NEW r \in Repos, backlog'[r] # backlog[r]
    PROVE  LET new == assignItemIds(task[m].own, ItemsOf(backlog[r]))
           IN /\ task[m].own.plan \in Drafts /\ Numbered(backlog'[r])
              /\ ToSet(backlog'[r]) = ToSet(ItemsOf(backlog[r])) \cup ToSet(new)
  <1>1. /\ backlog' = [backlog EXCEPT ![task[m].repo] = Merged(m)]
        /\ backlog[task[m].repo] = task[m].got
    BY DEF PutBacklog, Accepts
  <1>2. task[m].repo = r /\ backlog[r] = task[m].got /\ backlog'[r] = Merged(m)
    BY <1>1 DEF FilesInv
  <1>3. /\ Readable(task[m].read) /\ task[m].read = task[m].got
        /\ task[m].own.plan \in Drafts
    BY DEF PutBacklog, At, FilesInv, HeldWell, DraftInv, Talks
  <1>4. QED
    BY <1>2, <1>3, MergedListed

\* A person adds an item without dependencies, or none.
LEMMA EditAdds ==
    ASSUME FilesInv, FilesInv', NEW q \in Repos, Edit(q), NEW r \in Repos
    PROVE  Added(r) \subseteq {Own}
  <1> DEFINE items == ItemsOf(backlog[r])
  <1>1. PICK kind \in EditKinds : \E new \in Edited(backlog[q], kind) :
           backlog' = [backlog EXCEPT ![q] = new]
    BY DEF Edit
  <1>2. PICK new \in Edited(backlog[q], kind) : backlog' = [backlog EXCEPT ![q] = new]
    BY <1>1
  <1>3. CASE q # r
    BY <1>2, <1>3 DEF FilesInv, Added
  <1>4. CASE q = r
    <2>1. backlog'[r] = new /\ new \in Edited(backlog[r], kind) /\ Listed(items)
      BY <1>2, <1>4, ItemsListed DEF FilesInv
    <2>2. CASE new \in {None, Unparsable}
      BY <2>1, <2>2 DEF Added, ItemsOf, ToSet
    <2>3. CASE new \notin {None, Unparsable}
      <3>1. ItemsOf(backlog'[r]) = new
        BY <2>1, <2>3 DEF ItemsOf
      <3>2. new = Append(items, Own) \/ \E i \in DOMAIN items : new = RemoveAt(items, i)
        BY <2>1, <2>3, SessionAssumption DEF Edited
      <3> HIDE DEF items
      <3>3. ToSet(new) \subseteq ToSet(items) \cup {Own}
        <4>1. ToSet(Append(items, Own)) \subseteq ToSet(items) \cup {Own}
          BY <2>1 DEF Listed, ToSet
        <4>2. \A i \in DOMAIN items : ToSet(RemoveAt(items, i)) \subseteq ToSet(items)
          BY <2>1, RemoveListed
        <4>3. QED
          BY <3>2, <4>1, <4>2
      <3>4. QED
        BY <3>1, <3>3 DEF Added, items
    <2>4. QED
      BY <2>2, <2>3
  <1>5. QED
    BY <1>3, <1>4

\* A list of items is neither a missing nor an unreadable file.
ListsApart == \A file : Listed(file) => file \notin {None, Unparsable}

\* The worker never takes an item off a readable backlog, for any plans, number of
\* tasks and repositories: the write GitHub accepts names the file it was merged
\* with (index.mjs:215, refine-session.mjs:74), where GitHub sends a file's content
\* along with its name.
THEOREM NothingIsLost ==
    ASSUME ListsApart, ~ MayLackContent PROVE Spec => NothingLost
  <1> DEFINE Lossless(r) ==
        \/ edits' # edits \/ backlog[r] \in {None, Unparsable}
        \/ ToSet(backlog[r]) \subseteq ToSet(ItemsOf(backlog'[r]))
  <1>1. ASSUME DraftInv, FilesInv, EditsInv, [Next]_vars, NEW r \in Repos PROVE Lossless(r)
    <2> SUFFICES ASSUME edits' = edits, backlog[r] \notin {None, Unparsable}
                 PROVE ToSet(backlog[r]) \subseteq ToSet(ItemsOf(backlog'[r]))
      OBVIOUS
    <2>1. CASE backlog'[r] = backlog[r]
      BY <2>1 DEF ItemsOf
    <2>2. CASE backlog'[r] # backlog[r]
      <3>1. ASSUME NEW q \in Repos, Edit(q) PROVE FALSE
        BY <1>1, <3>1 DEF Edit, EditsInv
      <3>2. PICK m \in 1..Messages : PutBacklog(m)
        BY <1>1, <2>2, <3>1, Writers
      <3>3. Numbered(backlog'[r]) /\ ToSet(backlog[r]) \subseteq ToSet(backlog'[r])
        BY <1>1, <2>2, <3>2, CommitAdds DEF ItemsOf
      <3>4. QED
        BY <3>3 DEF ListsApart, Numbered, ItemsOf
    <2>3. QED
      BY <2>1, <2>2
  <1>2. DraftInv /\ FilesInv /\ EditsInv /\ [Next]_vars => [\A r \in Repos : Lossless(r)]_vars
    BY <1>1
  <1>3. QED
    BY <1>2, DraftsHold, FilesHold, EditsHold, PTL DEF Spec, NothingLost

\* A decomposition enters the backlog whole, for any plans, number of tasks and
\* repositories: whatever was committed, pruned or written by hand meanwhile, no item
\* of it is taken for one that is there already, and each finds the ones it depends on
\* among those added with it (index.mjs:228, refine-session.mjs:74-116), where GitHub
\* sends a file's content along with its name.
THEOREM PlansStayWhole == ASSUME ~ MayLackContent PROVE Spec => PlansWhole
  <1> DEFINE Whole(r) == \A x \in Added(r) : x.deps \subseteq {y.id : y \in Added(r)}
  <1>1. ASSUME DraftInv, FilesInv, FilesInv', [Next]_vars, NEW r \in Repos PROVE Whole(r)
    <2>1. CASE backlog'[r] = backlog[r]
      BY <2>1 DEF Added, ItemsOf
    <2>2. ASSUME NEW q \in Repos, Edit(q) PROVE Whole(r)
      BY <1>1, <2>2, EditAdds DEF Own
    <2>3. ASSUME NEW m \in 1..Messages, PutBacklog(m), backlog'[r] # backlog[r]
          PROVE  Whole(r)
      <3> DEFINE items == ItemsOf(backlog[r])
                 plan == task[m].own.plan
                 new == assignItemIds(task[m].own, items)
      <3>1. plan \in Drafts /\ ToSet(backlog'[r]) = ToSet(items) \cup ToSet(new)
        BY <1>1, <2>3, CommitAdds
      <3>2. Numbered(items)
        BY <1>1, ItemsListed DEF FilesInv
      <3>3. /\ DOMAIN new = DOMAIN plan
            /\ \A i \in DOMAIN plan :
                  /\ new[i].id = LastId(items) + Position(plan, plan[i].name)
                  /\ new[i].deps = {LastId(items) + Position(plan, d) :
                                       d \in plan[i].deps \cap Names(plan)}
        BY DEF assignItemIds
      <3>4. \A i \in DOMAIN plan : new[i].id \notin Ids(items)
        BY <3>1, <3>2, MintedFresh
      <3>5. \A n \in Names(plan) :
               Position(plan, n) \in DOMAIN plan /\ plan[Position(plan, n)].name = n
        BY <3>1, DraftsWhole
      <3>6. CASE backlog'[r] \in {None, Unparsable}
        BY <3>6 DEF Added, ItemsOf, ToSet
      <3>7. CASE backlog'[r] \notin {None, Unparsable}
        <4>1. Added(r) = (ToSet(items) \cup ToSet(new)) \ ToSet(items)
          BY <3>1, <3>7 DEF Added, ItemsOf
        <4> HIDE DEF items, plan, new
        <4>2. \A i \in DOMAIN plan : new[i] \in Added(r)
          BY <3>3, <3>4, <4>1 DEF ToSet, Ids
        <4>3. ASSUME NEW x \in Added(r) PROVE x.deps \subseteq {y.id : y \in Added(r)}
          <5>1. PICK i \in DOMAIN plan : x = new[i]
            BY <3>3, <4>1 DEF ToSet
          <5>2. ASSUME NEW d \in plan[i].deps \cap Names(plan)
                PROVE  LastId(items) + Position(plan, d) \in {y.id : y \in Added(r)}
            <6> DEFINE j == Position(plan, d)
            <6>1. j \in DOMAIN plan /\ plan[j].name = d
              BY <3>5
            <6>2. new[j].id = LastId(items) + j /\ new[j] \in Added(r)
              BY <3>3, <4>2, <6>1
            <6>3. QED
              BY <6>2
          <5>3. QED
            BY <3>3, <5>1, <5>2
        <4>4. QED
          BY <4>3
      <3>8. QED
        BY <3>6, <3>7
    <2>4. QED
      BY <1>1, <2>1, <2>2, <2>3, Writers
  <1>2. DraftInv /\ FilesInv /\ FilesInv' /\ [Next]_vars => [\A r \in Repos : Whole(r)]_vars
    BY <1>1
  <1>3. QED
    BY <1>2, DraftsHold, FilesHold, PTL DEF Spec, PlansWhole

-----------------------------------------------------------------------------
(* The supplier's issues.                                                  *)

\* What a run is about to file was in order when it was selected, and stays so: an
\* issue that is closed stays closed under its id.
OrderInv ==
    /\ Listed(issues) /\ DOMAIN run = Suppliers
    /\ \A s \in Suppliers : run[s] # None => run[s].deps \subseteq extractDoneIds(issues)
    /\ BuildOrder

\* The item that is selected is one of the eligible ones.
LEMMA SelectedEligible ==
    ASSUME NEW items, NEW listed, Listed(items), Eligible(items, listed) # {}
    PROVE  /\ selectNextItem(items, listed) \in ToSet(items)
           /\ selectNextItem(items, listed).id \notin extractFiledIds(listed)
           /\ selectNextItem(items, listed).deps \subseteq extractDoneIds(listed)
  <1> DEFINE E == Eligible(items, listed)
  <1>1. E \in SUBSET Nat
    BY DEF Eligible, Listed
  <1>2. \E i \in E : \A j \in E : i <= j
    <2> DEFINE R == OpToRel(<, Nat)
    <2>1. IsWellFoundedOn(R, Nat)
      BY NatLessThanWellFounded
    <2>2. PICK i \in E : \A j \in E : ~ (<<j, i>> \in R)
      BY <1>1, <2>1, WFMin
    <2>3. \A j \in E : ~ (j < i)
      BY <1>1, <2>2 DEF OpToRel
    <2>4. QED
      BY <1>1, <2>3
  <1>3. Min(E) \in E
    BY <1>2 DEF Min
  <1>4. QED
    BY <1>3 DEF Eligible, selectNextItem, ToSet

\* A new issue, and one whose state changes without being reopened.
LEMMA IssueFiled ==
    ASSUME Listed(issues), NEW new, issues' = Append(issues, new)
    PROVE  /\ Listed(issues') /\ Len(issues') = Len(issues) + 1
           /\ \A i \in DOMAIN issues : i \in DOMAIN issues' /\ issues'[i] = issues[i]
           /\ issues'[Len(issues) + 1] = new
           /\ \A i \in DOMAIN issues' : i \in DOMAIN issues \/ i = Len(issues) + 1
           /\ extractDoneIds(issues) \subseteq extractDoneIds(issues')
           /\ Ids(issues') = Ids(issues) \cup {new.id}
  <1>1. /\ DOMAIN issues' = 1..(Len(issues) + 1) /\ Len(issues') = Len(issues) + 1
        /\ issues'[Len(issues) + 1] = new
        /\ \A i \in 1..Len(issues) : issues'[i] = issues[i]
    BY DEF Listed
  <1>2. /\ Listed(issues')
        /\ \A i \in DOMAIN issues : i \in DOMAIN issues' /\ issues'[i] = issues[i]
        /\ \A i \in DOMAIN issues' : i \in DOMAIN issues \/ i = Len(issues) + 1
        /\ Len(issues) + 1 \in DOMAIN issues'
    BY <1>1 DEF Listed
  <1>3. extractDoneIds(issues) \subseteq extractDoneIds(issues')
    BY <1>2 DEF extractDoneIds
  <1>4. Ids(issues') = Ids(issues) \cup {new.id}
    BY <1>1, <1>2 DEF Ids
  <1>5. QED
    BY <1>1, <1>2, <1>3, <1>4

LEMMA IssueMoves ==
    ASSUME Listed(issues), NEW i \in DOMAIN issues, OpenPr(i) \/ CloseIssue(i)
    PROVE  /\ Listed(issues') /\ DOMAIN issues' = DOMAIN issues
           /\ \A j \in DOMAIN issues :
                 issues'[j].id = issues[j].id /\ issues'[j].deps = issues[j].deps
           /\ extractDoneIds(issues) \subseteq extractDoneIds(issues')
           /\ Ids(issues') = Ids(issues)
  <1>1. PICK state \in {"pr", "closed"} :
           /\ issues' = [issues EXCEPT ![i].state = state]
           /\ issues[i].state = "closed" => state = "closed"
    BY DEF OpenPr, CloseIssue
  <1>2. DOMAIN issues' = DOMAIN issues /\ Listed(issues')
    BY <1>1 DEF Listed
  <1>3. \A j \in DOMAIN issues :
           issues'[j].id = issues[j].id /\ issues'[j].deps = issues[j].deps
    BY <1>1
  <1>4. \A j \in DOMAIN issues : issues[j].state = "closed" => issues'[j].state = "closed"
    BY <1>1
  <1>5. QED
    BY <1>2, <1>3, <1>4 DEF extractDoneIds, Ids

\* The steps that touch neither the issues nor the runs.
Aside == UNCHANGED <<issues, run>>

LEMMA SupplySteps ==
    ASSUME [Next]_vars
    PROVE  \/ Aside
           \/ \E s \in Suppliers : Select(s) \/ File(s)
           \/ UNCHANGED run /\ issues' \in {Append(issues, Issue(Untitled, {"aider-fix"})),
                                            Append(issues, Issue(Untitled, {"ralph-ready"}))}
           \/ UNCHANGED run /\ \E i \in DOMAIN issues : OpenPr(i) \/ CloseIssue(i)
  <1>1. ASSUME NEW m \in 1..Messages, QuickIssue(m)
        PROVE  \/ Aside
               \/ UNCHANGED run /\ issues' = Append(issues, Issue(Untitled, {"aider-fix"}))
    BY <1>1 DEF QuickIssue, Aside
  <1>2. CASE SupplyNext
    BY <1>2 DEF SupplyNext, Supply, OpenReady, FetchIssues, ImportIssues, OpenPr, CloseIssue,
       WorkStory, Aside
  <1>3. CASE (SessionNext /\ UNCHANGED supplyVars) \/ UNCHANGED vars
    BY <1>3 DEF supplyVars, vars, Aside
  <1>4. QED
    BY <1>1, <1>2, <1>3 DEF Next

LEMMA OrderStarts == Init => OrderInv
  BY DEF Init, OrderInv, Listed, BuildOrder

\* What a listing shows as closed is closed.
LEMMA ListedDone ==
    ASSUME Listed(issues), NEW listed \in Listings
    PROVE  extractDoneIds(listed) \subseteq extractDoneIds(issues)
  <1>1. CASE listed = issues \/ listed = <<>>
    BY <1>1 DEF extractDoneIds
  <1>2. CASE ~ (Len(issues) <= ListLimit) /\ listed = Latest
    <2> DEFINE n == Len(issues)
               from == n - ListLimit + 1
    <2>1. n \in Nat /\ from \in 1..(n + 1) /\ DOMAIN issues = 1..n
      BY <1>2, SupplyAssumption DEF Listed
    <2>2. listed = SubSeq(issues, from, n)
      BY <1>2 DEF Latest
    <2>3. \A j \in DOMAIN listed : \E i \in DOMAIN issues : listed[j] = issues[i]
      <3>1. ASSUME NEW j \in DOMAIN listed
            PROVE  from + j - 1 \in DOMAIN issues /\ listed[j] = issues[from + j - 1]
        <4> HIDE DEF n, from
        <4>1. DOMAIN listed = 1..(n - from + 1)
          BY <2>1, <2>2
        <4>2. QED
          BY <2>1, <2>2, <4>1
      <3>2. QED
        BY <3>1
    <2>4. QED
      BY <2>3 DEF extractDoneIds
  <1>3. QED
    BY <1>1, <1>2 DEF Listings, Latest

LEMMA SelectKeepsOrder ==
    ASSUME FilesInv, OrderInv, NEW s \in Suppliers, Select(s) PROVE OrderInv'
  <1> DEFINE items == ItemsOf(backlog[Home])
  <1>1. PICK listed \in Listings :
           Eligible(items, listed) # {} /\ run' = [run EXCEPT ![s] = selectNextItem(items, listed)]
    BY DEF Select, MayFile
  <1>2. Listed(items)
    BY SessionAssumption, ItemsListed DEF FilesInv
  <1> HIDE DEF items
  <1>3. selectNextItem(items, listed).deps \subseteq extractDoneIds(listed)
    BY <1>1, <1>2, SelectedEligible
  <1>4. extractDoneIds(listed) \subseteq extractDoneIds(issues)
    BY ListedDone DEF OrderInv
  <1>5. UNCHANGED issues
    BY DEF Select
  <1>6. QED
    BY <1>1, <1>3, <1>4, <1>5 DEF OrderInv, BuildOrder, extractDoneIds

\* An issue whose dependencies are done keeps the order.
LEMMA AppendKeepsOrder ==
    ASSUME OrderInv, NEW new, new.deps \subseteq extractDoneIds(issues),
           issues' = Append(issues, new), DOMAIN run' = Suppliers,
           \A s \in Suppliers : run'[s] \in {run[s], None}
    PROVE  OrderInv'
  <1>1. Listed(issues)
    BY DEF OrderInv
  <1>2. /\ Listed(issues')
        /\ \A i \in DOMAIN issues : i \in DOMAIN issues' /\ issues'[i] = issues[i]
        /\ issues'[Len(issues) + 1] = new
        /\ \A i \in DOMAIN issues' : i \in DOMAIN issues \/ i = Len(issues) + 1
        /\ extractDoneIds(issues) \subseteq extractDoneIds(issues')
    BY <1>1, IssueFiled
  <1>3. BuildOrder'
    BY <1>2 DEF OrderInv, BuildOrder
  <1>4. \A s \in Suppliers : run'[s] # None => run'[s].deps \subseteq extractDoneIds(issues')
    BY <1>2 DEF OrderInv
  <1>5. QED
    BY <1>2, <1>3, <1>4 DEF OrderInv

LEMMA OrderStep == FilesInv /\ OrderInv /\ [Next]_vars => OrderInv'
  <1> SUFFICES ASSUME FilesInv, OrderInv, [Next]_vars PROVE OrderInv'
    OBVIOUS
  <1>1. CASE Aside
    BY <1>1 DEF Aside, OrderInv, BuildOrder, extractDoneIds, Listed
  <1>2. ASSUME NEW s \in Suppliers, File(s) PROVE OrderInv'
    <2>1. /\ (\E labels : issues' = Append(issues, Issue(run[s], labels))) \/ issues' = issues
          /\ run[s].deps \subseteq extractDoneIds(issues)
          /\ run' = [run EXCEPT ![s] = None]
      BY <1>2 DEF File, OrderInv
    <2>2. \A labels : Issue(run[s], labels).deps = run[s].deps
      BY DEF Issue
    <2>3. DOMAIN run' = Suppliers /\ \A t \in Suppliers : run'[t] \in {run[t], None}
      BY <2>1 DEF OrderInv
    <2>4. CASE issues' = issues
      BY <2>3, <2>4 DEF OrderInv, BuildOrder, extractDoneIds
    <2>5. QED
      BY <2>1, <2>2, <2>3, <2>4, AppendKeepsOrder
  <1>3. ASSUME NEW labels, issues' = Append(issues, Issue(Untitled, labels)), UNCHANGED run
        PROVE  OrderInv'
    <2>1. Issue(Untitled, labels).deps = {}
      BY DEF Issue, Untitled
    <2>2. DOMAIN run' = Suppliers /\ \A t \in Suppliers : run'[t] \in {run[t], None}
      BY <1>3 DEF OrderInv
    <2>3. QED
      BY <1>3, <2>1, <2>2, AppendKeepsOrder
  <1>4. ASSUME NEW i \in DOMAIN issues, OpenPr(i) \/ CloseIssue(i), UNCHANGED run PROVE OrderInv'
    <2>1. /\ Listed(issues') /\ DOMAIN issues' = DOMAIN issues
          /\ \A j \in DOMAIN issues : issues'[j].deps = issues[j].deps
          /\ extractDoneIds(issues) \subseteq extractDoneIds(issues')
      BY <1>4, IssueMoves DEF OrderInv
    <2>2. BuildOrder'
      BY <2>1 DEF OrderInv, BuildOrder
    <2>3. QED
      BY <1>4, <2>1, <2>2 DEF OrderInv
  <1>5. QED
    BY <1>1, <1>2, <1>3, <1>4, SelectKeepsOrder, SupplySteps

\* An item becomes an issue only after every item it depends on has a closed one,
\* however many supplier runs overlap and listings fail, and whoever edits the
\* backlog meanwhile (backlog-supplier.js:78).
THEOREM IssuesInOrder == Spec => []BuildOrder
  <1>1. OrderInv => BuildOrder
    BY DEF OrderInv
  <1>2. QED
    BY <1>1, OrderStarts, OrderStep, FilesHold, PTL DEF Spec

-----------------------------------------------------------------------------
(* No item twice.                                                          *)

\* Supplier runs do not overlap, and no listing fails.
Alone == (\A s, t \in Suppliers : s = t) /\ ~ ListFails

\* What a run is about to file has no issue yet, while one listing holds them all.
InOneList == Len(issues) <= ListLimit
FreshInv ==
    /\ Listed(issues) /\ DOMAIN run = Suppliers
    /\ \A s \in Suppliers :
          InOneList /\ run[s] # None => run[s].id \notin Ids(issues) \ {None}
    /\ FiledOnce

LEMMA FreshStarts == Init => FreshInv
  BY DEF Init, FreshInv, Listed, FiledOnce, NeverRefiled

LEMMA AppendKeepsFresh ==
    ASSUME FreshInv, NEW new, InOneList => new.id \notin Ids(issues) \ {None},
           issues' = Append(issues, new), DOMAIN run' = Suppliers,
           \A s \in Suppliers : run'[s] # None => run'[s] = run[s] /\ new.id = None
    PROVE  FreshInv'
  <1>1. Listed(issues)
    BY DEF FreshInv
  <1>2. /\ Listed(issues')
        /\ \A i \in DOMAIN issues : i \in DOMAIN issues' /\ issues'[i] = issues[i]
        /\ issues'[Len(issues) + 1] = new
        /\ \A i \in DOMAIN issues' : i \in DOMAIN issues \/ i = Len(issues) + 1
        /\ Ids(issues') = Ids(issues) \cup {new.id} /\ Len(issues') = Len(issues) + 1
    BY <1>1, IssueFiled
  <1>3. \A i \in DOMAIN issues : issues[i].id \in Ids(issues)
    BY DEF Ids
  <1>4. InOneList' => InOneList
    BY <1>1, <1>2, SupplyAssumption DEF InOneList, Listed
  <1>5. FiledOnce'
    BY <1>2, <1>3, <1>4 DEF FreshInv, FiledOnce, NeverRefiled, InOneList
  <1>6. \A s \in Suppliers :
           InOneList' /\ run'[s] # None => run'[s].id \notin Ids(issues') \ {None}
    BY <1>2, <1>4 DEF FreshInv
  <1>7. QED
    BY <1>2, <1>5, <1>6 DEF FreshInv

LEMMA FreshStep == Alone /\ FilesInv /\ FreshInv /\ [Next]_vars => FreshInv'
  <1> SUFFICES ASSUME Alone, FilesInv, FreshInv, [Next]_vars PROVE FreshInv'
    OBVIOUS
  <1>1. CASE Aside
    BY <1>1 DEF Aside, FreshInv, FiledOnce, NeverRefiled, InOneList, Ids, Listed
  <1>2. ASSUME NEW s \in Suppliers, Select(s) PROVE FreshInv'
    <2> DEFINE items == ItemsOf(backlog[Home])
    <2>1. Eligible(items, Latest) # {} /\ run' = [run EXCEPT ![s] = selectNextItem(items, Latest)]
      BY <1>2 DEF Select, MayFile, Listings, Alone
    <2>2. Listed(items)
      BY SessionAssumption, ItemsListed DEF FilesInv
    <2> HIDE DEF items
    <2>3. InOneList => selectNextItem(items, Latest).id \notin Ids(issues)
      BY <2>1, <2>2, SelectedEligible DEF extractFiledIds, Latest, InOneList
    <2>4. UNCHANGED issues
      BY <1>2 DEF Select
    <2>5. QED
      BY <2>1, <2>3, <2>4 DEF FreshInv, FiledOnce, NeverRefiled, InOneList, Ids
  <1>3. ASSUME NEW s \in Suppliers, File(s) PROVE FreshInv'
    <2>1. /\ (\E labels : issues' = Append(issues, Issue(run[s], labels))) \/ issues' = issues
          /\ InOneList => run[s].id \notin Ids(issues) \ {None}
          /\ run' = [run EXCEPT ![s] = None]
      BY <1>3 DEF File, FreshInv
    <2>2. \A labels : Issue(run[s], labels).id = run[s].id
      BY DEF Issue
    <2>3. DOMAIN run' = Suppliers /\ \A t \in Suppliers : run'[t] = None
      BY <2>1 DEF FreshInv, Alone
    <2>4. CASE issues' = issues
      BY <2>3, <2>4 DEF FreshInv, FiledOnce, NeverRefiled, Listed
    <2>5. QED
      BY <2>1, <2>2, <2>3, <2>4, AppendKeepsFresh
  <1>4. ASSUME NEW labels, issues' = Append(issues, Issue(Untitled, labels)), UNCHANGED run
        PROVE  FreshInv'
    <2>1. Issue(Untitled, labels).id = None
      BY DEF Issue, Untitled
    <2>2. DOMAIN run' = Suppliers
      BY <1>4 DEF FreshInv
    <2>3. QED
      BY <1>4, <2>1, <2>2, AppendKeepsFresh
  <1>5. ASSUME NEW i \in DOMAIN issues, OpenPr(i) \/ CloseIssue(i), UNCHANGED run PROVE FreshInv'
    <2>1. /\ Listed(issues') /\ DOMAIN issues' = DOMAIN issues
          /\ \A j \in DOMAIN issues : issues'[j].id = issues[j].id
          /\ Ids(issues') = Ids(issues)
      BY <1>5, IssueMoves DEF FreshInv
    <2>2. InOneList' => InOneList
      BY <2>1 DEF FreshInv, InOneList, Listed
    <2>3. FiledOnce'
      BY <2>1, <2>2 DEF FreshInv, FiledOnce, NeverRefiled, InOneList
    <2>4. QED
      BY <1>5, <2>1, <2>2, <2>3 DEF FreshInv
  <1>6. QED
    BY <1>1, <1>2, <1>3, <1>4, <1>5, SupplySteps

\* No item is filed twice, also after its issue was closed, while one listing holds
\* all issues, for supplier runs that do not overlap and listings that do not fail:
\* the workflow has none of the three for granted (backlog-supplier.js:36,
\* issue-supplier.yml:77).
THEOREM FiledAtMostOnce == ASSUME Alone PROVE Spec => []FiledOnce
  <1>1. FreshInv => FiledOnce
    BY DEF FreshInv
  <1>2. FilesInv /\ FreshInv /\ [Next]_vars => FreshInv'
    BY FreshStep
  <1>3. QED
    BY <1>1, <1>2, FreshStarts, FilesHold, PTL DEF Spec

-----------------------------------------------------------------------------
(* Numbers that were never filed.                                          *)

\* Nobody takes an item off a backlog or spoils the file, and the code tells the id
\* of an issue without one from a number.
Unpruned ==
    EditKinds \subseteq {"add"} /\ ~ MayLackContent /\ None \notin Nat /\ ListsApart

\* Then every issue of an item, and every item to be filed, is in the backlog still.
HomeIds == Ids(ItemsOf(backlog[Home]))
HomeInv ==
    /\ Ids(issues) \subseteq HomeIds \cup {None}
    /\ \A s \in Suppliers : run[s] # None => run[s].id \in HomeIds

LEMMA HomeStarts == Init => HomeInv
  BY DEF Init, HomeInv, Ids

LEMMA IdsOfSet == ASSUME NEW items PROVE Ids(items) = {x.id : x \in ToSet(items)}
  BY DEF Ids, ToSet

LEMMA HomeGrows ==
    ASSUME Unpruned, DraftInv, FilesInv, FilesInv', [Next]_vars PROVE HomeIds \subseteq HomeIds'
  <1> DEFINE items == ItemsOf(backlog[Home])
  <1>1. Home \in Repos /\ Listed(items)
    BY SessionAssumption, ItemsListed DEF FilesInv
  <1>2. ASSUME NEW m \in 1..Messages, PutBacklog(m), backlog'[Home] # backlog[Home]
        PROVE  HomeIds \subseteq HomeIds'
    <2>1. Numbered(backlog'[Home]) /\ ToSet(items) \subseteq ToSet(backlog'[Home])
      BY <1>1, <1>2, CommitAdds DEF Unpruned
    <2>2. ItemsOf(backlog'[Home]) = backlog'[Home]
      BY <2>1 DEF Unpruned, ListsApart, Numbered, ItemsOf
    <2>3. QED
      BY <2>1, <2>2, IdsOfSet DEF HomeIds
  <1>3. ASSUME NEW r \in Repos, Edit(r), backlog'[Home] # backlog[Home]
        PROVE  HomeIds \subseteq HomeIds'
    <2>1. backlog'[Home] = Append(items, Own)
      BY <1>1, <1>3 DEF Edit, Edited, Unpruned, FilesInv
    <2> HIDE DEF items
    <2>2. Listed(Append(items, Own)) /\ ToSet(items) \subseteq ToSet(Append(items, Own))
      BY <1>1 DEF Listed, ToSet
    <2>3. ItemsOf(backlog'[Home]) = Append(items, Own)
      BY <2>1, <2>2 DEF Unpruned, ListsApart, ItemsOf
    <2>4. QED
      BY <2>2, <2>3, IdsOfSet DEF HomeIds, items
  <1>4. QED
    BY <1>2, <1>3, Writers DEF HomeIds

LEMMA HomeStep ==
    ASSUME Unpruned, DraftInv, FilesInv, FilesInv', OrderInv, HomeInv, [Next]_vars
    PROVE  HomeInv'
  <1>1. HomeIds \subseteq HomeIds' /\ Listed(issues) /\ DOMAIN run = Suppliers
    BY HomeGrows DEF OrderInv
  <1>2. CASE Aside
    BY <1>1, <1>2 DEF Aside, HomeInv, Ids
  <1>3. ASSUME NEW s \in Suppliers, Select(s) PROVE HomeInv'
    <2> DEFINE items == ItemsOf(backlog[Home])
    <2>1. PICK listed \in Listings :
             Eligible(items, listed) # {} /\ run' = [run EXCEPT ![s] = selectNextItem(items, listed)]
      BY <1>3 DEF Select, MayFile
    <2>2. Listed(items)
      BY SessionAssumption, ItemsListed DEF FilesInv
    <2>3. selectNextItem(items, listed) \in ToSet(items)
      BY <2>1, <2>2, SelectedEligible
    <2>4. selectNextItem(items, listed).id \in HomeIds
      BY <2>3, IdsOfSet DEF HomeIds
    <2>5. UNCHANGED issues
      BY <1>3 DEF Select
    <2> HIDE DEF items
    <2>6. QED
      BY <1>1, <2>1, <2>4, <2>5 DEF HomeInv, Ids
  <1>4. ASSUME NEW new, issues' = Append(issues, new), new.id \in HomeIds \cup {None},
               \A s \in Suppliers : run'[s] \in {run[s], None}
        PROVE  HomeInv'
    <2>1. Ids(issues') = Ids(issues) \cup {new.id}
      BY <1>1, <1>4, IssueFiled
    <2>2. QED
      BY <1>1, <1>4, <2>1 DEF HomeInv
  <1>5. ASSUME NEW s \in Suppliers, File(s) PROVE HomeInv'
    <2>1. \A labels : Issue(run[s], labels).id \in HomeIds
      BY <1>5 DEF File, HomeInv, Issue
    <2>2. \A t \in Suppliers : run'[t] \in {run[t], None}
      BY <1>1, <1>5 DEF File
    <2>3. CASE issues' = issues
      BY <1>1, <2>2, <2>3 DEF HomeInv, Ids
    <2>4. CASE \E labels : issues' = Append(issues, Issue(run[s], labels))
      BY <1>4, <2>1, <2>2, <2>4
    <2>5. QED
      BY <1>5, <2>3, <2>4 DEF File
  <1>6. ASSUME NEW labels, issues' = Append(issues, Issue(Untitled, labels)), UNCHANGED run
        PROVE  HomeInv'
    <2>1. Issue(Untitled, labels).id = None
      BY DEF Issue, Untitled
    <2>2. QED
      BY <1>4, <1>6, <2>1
  <1>7. ASSUME NEW i \in DOMAIN issues, OpenPr(i) \/ CloseIssue(i), UNCHANGED run PROVE HomeInv'
    <2>1. Ids(issues') = Ids(issues)
      BY <1>1, <1>7, IssueMoves
    <2>2. QED
      BY <1>1, <1>7, <2>1 DEF HomeInv
  <1>8. QED
    BY <1>2, <1>3, <1>5, <1>6, <1>7, SupplySteps

\* Where items are only ever added, the numbers the worker gives out were never
\* filed, as the comment of assignItemIds promises (refine-session.mjs:100): it is the
\* pruned and the unreadable backlogs, and nothing else, that break the promise.
THEOREM UnprunedIdsAreFresh == ASSUME Unpruned PROVE Spec => FreshIds
  <1>1. DraftInv /\ FilesInv /\ FilesInv' /\ OrderInv /\ HomeInv /\ [Next]_vars => HomeInv'
    BY HomeStep
  <1>2. DraftInv /\ FilesInv /\ EditsInv /\ HomeInv /\ [Next]_vars =>
           [\A r \in {Home} : edits' = edits =>
              (Ids(ItemsOf(backlog'[r])) \ Ids(ItemsOf(backlog[r])))
                 \cap extractFiledIds(issues) = {}]_vars
    <2> SUFFICES ASSUME DraftInv, FilesInv, EditsInv, HomeInv, [Next]_vars, edits' = edits,
                        NEW n \in HomeIds' \ HomeIds
                 PROVE  n \notin extractFiledIds(issues)
      BY DEF HomeIds
    <2>1. Home \in Repos /\ backlog'[Home] # backlog[Home]
      BY SessionAssumption DEF HomeIds
    <2>2. ASSUME NEW q \in Repos, Edit(q) PROVE FALSE
      BY <2>2 DEF Edit, EditsInv
    <2>3. PICK m \in 1..Messages : PutBacklog(m)
      BY <2>1, <2>2, Writers
    <2>4. Numbered(backlog'[Home])
      BY <2>1, <2>3, CommitAdds DEF Unpruned
    <2>5. ItemsOf(backlog'[Home]) = backlog'[Home]
      BY <2>4 DEF Unpruned, ListsApart, Numbered, ItemsOf
    <2>6. n \in Nat
      BY <2>4, <2>5 DEF HomeIds, Ids, Numbered
    <2>7. QED
      BY <2>6 DEF HomeInv, Unpruned, extractFiledIds
  <1>3. QED
    BY <1>1, <1>2, HomeStarts, OrderStarts, OrderStep, DraftsHold, FilesHold, EditsHold, PTL
    DEF Spec, FreshIds

-----------------------------------------------------------------------------
(* The stories.                                                            *)

\* The issues the daemon may take, and the lists of stories that have at most one
\* for each of them.
Ready == {i \in DOMAIN issues : labelMatches(issues[i])}
Story(R) == [issue : R, status : {"QUEUED", "ACTIVE"}]
StoryLists(R) ==
    {all \in Seq(Story(R)) :
        \A j, k \in DOMAIN all : all[j].issue = all[k].issue => j = k}

\* Only issues that people opened for it are ready, so there are no more of them, nor
\* stories of them, than people open; and what an import fetched was ready.
StoryInv ==
    /\ Listed(issues) /\ \A i \in Ready : issues[i].id = None
    /\ Cardinality(Ready) <= OwnIssues
    /\ pull # None => pull \subseteq Ready
    /\ stories \in StoryLists(Ready)

LEMMA StoriesStart == Init => StoryInv
  <1> SUFFICES ASSUME Init PROVE StoryInv
    OBVIOUS
  <1>1. issues = <<>> /\ Ready = {}
    BY DEF Init, Ready
  <1>2. Cardinality(Ready) = 0
    BY <1>1, FS_EmptySet
  <1>3. stories \in StoryLists(Ready)
    BY DEF Init, StoryLists
  <1>4. QED
    BY <1>1, <1>2, <1>3, SupplyAssumption DEF Init, StoryInv, Listed

\* Writing the file of a story leaves those of the other issues as they are.
LEMMA WithoutKeeps ==
    ASSUME NEW R, NEW all \in StoryLists(R), NEW i
    PROVE  /\ Without(all, i) \in StoryLists(R)
           /\ \A k \in DOMAIN Without(all, i) : Without(all, i)[k].issue # i
           /\ \A k \in DOMAIN all : all[k].issue # i => all[k] \in ToSet(Without(all, i))
  <1> DEFINE n == Len(all)
             Here == {k \in 1..n : all[k].issue = i}
             left == Without(all, i)
  <1>1. /\ n \in Nat /\ DOMAIN all = 1..n /\ Listed(all)
        /\ \A k \in 1..n : all[k] \in Story(R)
        /\ \A j, k \in 1..n : all[j].issue = all[k].issue => j = k
    BY DEF StoryLists, Listed
  <1>2. CASE Here = {}
    <2>1. left = all
      BY <1>2 DEF Without, RemoveFirstMatch
    <2>2. QED
      BY <1>1, <1>2, <2>1 DEF ToSet
  <1>3. CASE Here # {}
    <2>1. PICK h \in 1..n : all[h].issue = i
      BY <1>3
    <2>2. Here = {h}
      BY <1>1, <2>1
    <2>3. Min({h}) = h
      BY DEF Min
    <2>4. left = RemoveAt(all, h)
      <3>1. left = RemoveAt(all, SelectInSeq(all, LAMBDA story : story.issue = i))
        BY <1>3 DEF Without, RemoveFirstMatch
      <3>2. SelectInSeq(all, LAMBDA story : story.issue = i) = Min(Here)
        BY <1>3 DEF SelectInSeq
      <3>3. QED
        BY <2>2, <2>3, <3>1, <3>2
    <2> HIDE DEF Here, left, n
    <2>5. /\ Len(left) = n - 1 /\ DOMAIN left = 1..(n - 1)
          /\ \A k \in 1..(n - 1) : left[k] = IF k < h THEN all[k] ELSE all[k + 1]
      <3>1. Listed(all) /\ h \in DOMAIN all /\ n = Len(all)
        BY <1>1, <2>1 DEF n
      <3>2. /\ Len(RemoveAt(all, h)) = n - 1 /\ DOMAIN RemoveAt(all, h) = 1..(n - 1)
            /\ \A k \in DOMAIN RemoveAt(all, h) :
                  RemoveAt(all, h)[k] = IF k < h THEN all[k] ELSE all[k + 1]
        BY <3>1, RemoveAtLists
      <3>3. QED
        BY <2>4, <3>2
    <2> DEFINE Old(k) == IF k < h THEN k ELSE k + 1
    <2>6. /\ \A k \in 1..(n - 1) : Old(k) \in 1..n /\ Old(k) # h
          /\ \A j, k \in 1..(n - 1) : Old(j) = Old(k) => j = k
      BY <1>1, <2>1
    <2>7. \A k \in 1..(n - 1) : left[k] = all[Old(k)]
      BY <2>5
    <2> HIDE DEF Old
    <2>8. \A k \in 1..(n - 1) : left[k] \in Story(R) /\ left[k].issue # i
      BY <1>1, <2>1, <2>6, <2>7
    <2>9. \A j, k \in 1..(n - 1) : left[j].issue = left[k].issue => j = k
      BY <1>1, <2>6, <2>7
    <2>10. left \in Seq(Story(R))
      <3>1. all \in Seq(Story(R))
        BY DEF StoryLists
      <3>2. QED
        BY <1>1, <2>1, <2>4, <3>1 DEF RemoveAt, n
    <2>11. \A k \in DOMAIN all : all[k].issue # i => all[k] \in ToSet(left)
      BY <1>1, <2>1, <2>4, RemoveListed
    <2>12. QED
      BY <2>5, <2>8, <2>9, <2>10, <2>11 DEF StoryLists, left
  <1>4. QED
    BY <1>2, <1>3

LEMMA WrittenKeeps ==
    ASSUME NEW R, NEW all \in StoryLists(R), NEW i \in R,
           NEW status \in {"QUEUED", "ACTIVE"}
    PROVE  /\ Written(all, i, status) \in StoryLists(R)
           /\ [issue |-> i, status |-> status] \in ToSet(Written(all, i, status))
           /\ \A x \in ToSet(all) : x.issue # i => x \in ToSet(Written(all, i, status))
  <1> DEFINE new == [issue |-> i, status |-> status]
             left == Without(all, i)
             n == Len(left)
             result == <<new>> \o left
  <1>1. /\ left \in StoryLists(R) /\ \A k \in DOMAIN left : left[k].issue # i
        /\ \A k \in DOMAIN all : all[k].issue # i => all[k] \in ToSet(left)
    BY WithoutKeeps
  <1>2. result = Written(all, i, status)
    BY DEF Written
  <1> HIDE DEF left
  <1>3. /\ left \in Seq(Story(R)) /\ n \in Nat /\ DOMAIN left = 1..n
        /\ \A j, k \in 1..n : left[j].issue = left[k].issue => j = k
    BY <1>1 DEF StoryLists
  <1>4. new \in Story(R) /\ new.issue = i
    BY DEF Story
  <1> HIDE DEF new
  <1>5. /\ result \in Seq(Story(R)) /\ DOMAIN result = 1..(n + 1) /\ result[1] = new
        /\ \A k \in 1..n : result[k + 1] = left[k]
    BY <1>3, <1>4
  <1>6. \A k \in 1..(n + 1) : k # 1 => k - 1 \in 1..n /\ result[k] = left[k - 1]
    <2>1. \A k \in 1..(n + 1) : k # 1 => k - 1 \in 1..n /\ (k - 1) + 1 = k
      BY <1>3
    <2>2. QED
      BY <1>5, <2>1
  <1> HIDE DEF result, n
  <1>7. ASSUME NEW j \in 1..(n + 1), NEW k \in 1..(n + 1), result[j].issue = result[k].issue
        PROVE  j = k
    <2>1. CASE j = 1 \/ k = 1
      <3>1. result[1].issue = i /\ \A l \in 1..(n + 1) : l # 1 => result[l].issue # i
        <4>1. \A h \in 1..n : left[h].issue # i
          BY <1>1, <1>3
        <4>2. ASSUME NEW l \in 1..(n + 1), l # 1 PROVE result[l].issue # i
          <5>1. l - 1 \in 1..n /\ result[l] = left[l - 1]
            BY <1>6, <4>2
          <5>2. QED
            BY <4>1, <5>1
        <4>3. QED
          BY <1>4, <1>5, <4>2
      <3>2. QED
        BY <1>7, <2>1, <3>1
    <2>2. CASE j # 1 /\ k # 1
      <3>1. /\ j - 1 \in 1..n /\ result[j] = left[j - 1]
            /\ k - 1 \in 1..n /\ result[k] = left[k - 1]
        BY <1>6, <2>2
      <3>2. left[j - 1].issue = left[k - 1].issue
        BY <1>7, <3>1
      <3>3. j - 1 = k - 1
        BY <1>3, <3>1, <3>2
      <3>4. QED
        BY <1>3, <3>3
    <2>3. QED
      BY <2>1, <2>2
  <1>8. result \in StoryLists(R)
    BY <1>5, <1>7 DEF StoryLists
  <1>9. new \in ToSet(result)
    BY <1>3, <1>5 DEF ToSet
  <1>10. ToSet(left) \subseteq ToSet(result)
    <2>1. \A k \in 1..n : k + 1 \in 1..(n + 1)
      BY <1>3
    <2>2. \A k \in 1..n : left[k] = result[k + 1] /\ k + 1 \in DOMAIN result
      BY <1>5, <2>1
    <2>3. QED
      BY <1>3, <2>2 DEF ToSet
  <1>11. \A x \in ToSet(all) : x.issue # i => x \in ToSet(result)
    BY <1>1, <1>10 DEF ToSet
  <1>12. QED
    BY <1>2, <1>8, <1>9, <1>11 DEF new

\* What an import makes of the stories, for each part of the issues it imports.
Imports(S, all) ==
    CHOOSE g : g = [s \in SUBSET S |->
                      IF s = {} THEN all ELSE Written(g[s \ {Some(s)}], Some(s), "QUEUED")]

LEMMA ImportIsFold ==
    ASSUME NEW S, NEW all
    PROVE  FoldSet(LAMBDA i, sofar : Written(sofar, i, "QUEUED"), all, S) = Imports(S, all)[S]
  BY DEF FoldSet, MapThenFoldSet, Imports, Some

\* An import of issues that have no story keeps every story as it was.
LEMMA ImportedKeeps ==
    ASSUME NEW R, NEW S \in SUBSET R, IsFiniteSet(S), NEW all \in StoryLists(R),
           \A k \in DOMAIN all : all[k].issue \notin S
    PROVE  /\ Imports(S, all)[S] \in StoryLists(R)
           /\ ToSet(all) \subseteq ToSet(Imports(S, all)[S])
  <1> DEFINE V == StoryLists(R)
             step == [s \in SUBSET S |-> [v \in V |-> Written(v, Some(s), "QUEUED")]]
             Is(g) == g = [s \in SUBSET S |->
                             IF s = {} THEN all
                             ELSE Written(g[s \ {Some(s)}], Some(s), "QUEUED")]
             T == {s \in SUBSET S : /\ Imports(S, all)[s] \in V
                                    /\ ToSet(all) \subseteq ToSet(Imports(S, all)[s])}
  <1>1. \A s \in SUBSET S : s # {} => Some(s) \in s /\ Picks(S)[s] = Some(s)
    BY SomeIn DEF Picks
  <1>2. \A s \in SUBSET S : \A v \in V : s # {} => Written(v, Some(s), "QUEUED") \in V
    BY <1>1, WrittenKeeps
  <1> HIDE DEF V
  <1>3. \A s \in SUBSET S : \A v \in V : step[s][v] = Written(v, Some(s), "QUEUED")
    OBVIOUS
  <1>4. \E g \in [SUBSET S -> V] : Folds(g, S, all, Picks(S), step)
    <2>1. all \in V
      BY DEF V
    <2>2. \A s \in SUBSET S : s # {} => Picks(S)[s] \in s
      BY <1>1
    <2>3. \A s \in SUBSET S : \A v \in V : s # {} => step[s][v] \in V
      BY <1>2, <1>3
    <2> HIDE DEF step
    <2>4. QED
      BY <2>1, <2>2, <2>3, FoldExists
  <1>5. \A g \in [SUBSET S -> V] : Folds(g, S, all, Picks(S), step) => Is(g)
    <2> HIDE DEF step
    <2> SUFFICES ASSUME NEW g \in [SUBSET S -> V], Folds(g, S, all, Picks(S), step)
                 PROVE Is(g)
      OBVIOUS
    <2>1. \A s \in SUBSET S : s # {} =>
             step[s][g[s \ {Picks(S)[s]}]] = Written(g[s \ {Some(s)}], Some(s), "QUEUED")
      BY <1>1, <1>3
    <2>2. QED
      BY <2>1 DEF Folds
  <1>6. Is(Imports(S, all))
    <2> HIDE DEF Is, step
    <2>1. Is(CHOOSE g : Is(g))
      BY <1>4, <1>5
    <2>2. QED
      BY <2>1 DEF Is, Imports
  <1> HIDE DEF step
  <1>7. {} \in T
    BY <1>6 DEF V
  <1>8. ASSUME NEW s \in SUBSET S, s # {}, s \ {Some(s)} \in T PROVE s \in T
    <2> DEFINE i == Some(s)
               before == Imports(S, all)[s \ {i}]
               after == Imports(S, all)[s]
    <2>1. i \in s /\ i \in R /\ s \ {i} \in SUBSET S
      BY <1>1, <1>8
    <2>2. after = Written(before, i, "QUEUED")
      BY <1>6, <1>8
    <2>3. before \in V /\ ToSet(all) \subseteq ToSet(before)
      BY <1>8
    <2> HIDE DEF i, before, after
    <2>4. after \in V /\ \A x \in ToSet(before) : x.issue # i => x \in ToSet(after)
      BY <2>1, <2>2, <2>3, WrittenKeeps DEF V
    <2>5. \A x \in ToSet(all) : x.issue # i
      BY <1>8, <2>1 DEF ToSet
    <2>6. QED
      BY <2>3, <2>4, <2>5 DEF after
  <1>9. S \in T
    <2>1. \A s \in SUBSET S : s # {} => \E x \in s : s \ {x} \in T => s \in T
      BY <1>1, <1>8
    <2> HIDE DEF T
    <2>2. QED
      BY <1>7, <2>1, SubsetsInductive
  <1>10. QED
    BY <1>9 DEF V

LEMMA FiniteReady == ASSUME StoryInv PROVE IsFiniteSet(Ready) /\ Cardinality(Ready) \in Nat
  <1>1. IsFiniteSet(DOMAIN issues)
    BY FS_Interval DEF StoryInv, Listed
  <1>2. QED
    BY <1>1, FS_Subset, FS_CardinalityType DEF Ready

\* While the window covers the stories, an import knows of all of them.
LEMMA WindowCovers ==
    ASSUME StoryInv, Window >= OwnIssues
    PROVE  /\ IsFiniteSet(Ready)
           /\ Known(stories) = {stories[k].issue : k \in DOMAIN stories}
  <1> DEFINE n == Len(stories)
  <1>1. /\ n \in Nat /\ DOMAIN stories = 1..n
        /\ \A k \in 1..n : stories[k].issue \in Ready
        /\ \A j, k \in 1..n : stories[j].issue = stories[k].issue => j = k
        /\ stories \in Seq(Story(Ready))
    <2>1. /\ stories \in Seq(Story(Ready))
          /\ \A j, k \in DOMAIN stories : stories[j].issue = stories[k].issue => j = k
      BY DEF StoryInv, StoryLists
    <2>2. n \in Nat /\ DOMAIN stories = 1..n /\ \A k \in 1..n : stories[k] \in Story(Ready)
      BY <2>1
    <2>3. QED
      BY <2>1, <2>2 DEF Story
  <1>2. IsFiniteSet(Ready) /\ Cardinality(Ready) \in Nat
    BY FiniteReady
  <1> HIDE DEF n
  <1>3. n <= Cardinality(Ready)
    <2> DEFINE f == [k \in 1..n |-> stories[k].issue]
    <2>1. f \in Injection(1..n, Ready)
      BY <1>1 DEF Injection, IsInjective
    <2>2. Cardinality(1..n) = n
      BY <1>1, FS_Interval
    <2>3. QED
      BY <1>2, <2>1, <2>2, FS_Injection DEF ExistsInjection
  <1>4. n <= Window
    BY <1>1, <1>2, <1>3, SupplyAssumption DEF StoryInv
  <1>5. listStories(stories) = SubSeq(stories, 1, n)
    <2>1. n = IF n < Window THEN n ELSE Window
      BY <1>1, <1>4, SupplyAssumption
    <2>2. listStories(stories) = SubSeq(stories, 1, IF n < Window THEN n ELSE Window)
      BY DEF listStories, n
    <2>3. QED
      BY <2>1, <2>2
  <1>6. SubSeq(stories, 1, n) = stories
    BY <1>1 DEF n
  <1>7. QED
    BY <1>2, <1>5, <1>6 DEF Known

\* The steps as they concern the stories.
LEMMA StorySteps ==
    ASSUME [Next]_vars
    PROVE  \/ UNCHANGED <<issues, pull, stories>>
           \/ /\ UNCHANGED <<pull, stories>>
              /\ \/ \E item : \E labels \in ItemLabels \cup {{"aider-fix"}} :
                       issues' = Append(issues, Issue(item, labels))
                 \/ OpenReady \/ \E i \in DOMAIN issues : OpenPr(i) \/ CloseIssue(i)
           \/ FetchIssues \/ ImportIssues \/ \E k \in DOMAIN stories : WorkStory(k)
  <1>1. ASSUME NEW m \in 1..Messages, QuickIssue(m)
        PROVE  /\ UNCHANGED <<pull, stories>>
               /\ UNCHANGED issues \/ issues' = Append(issues, Issue(Untitled, {"aider-fix"}))
    BY <1>1 DEF QuickIssue
  <1>2. ASSUME NEW s \in Suppliers, Supply(s)
        PROVE  /\ UNCHANGED <<pull, stories>>
               /\ \/ UNCHANGED issues
                  \/ \E labels \in ItemLabels \cup {{"aider-fix"}} :
                        issues' = Append(issues, Issue(run[s], labels))
    BY <1>2 DEF Supply, Select, File, LabelsOf
  <1>3. CASE SupplyNext
    BY <1>2, <1>3 DEF SupplyNext, OpenReady, OpenPr, CloseIssue
  <1>4. CASE (SessionNext /\ UNCHANGED supplyVars) \/ UNCHANGED vars
    BY <1>4 DEF supplyVars, vars
  <1>5. QED
    BY <1>1, <1>3, <1>4 DEF Next

\* An issue of an item, or one whose state changes, is none for the daemon, where
\* people label no item of theirs for it.
NoneReady == \A labels \in ItemLabels : labels \cap READY_LABELS = {}

LEMMA OtherKeepsStories ==
    ASSUME NoneReady, StoryInv, UNCHANGED <<pull, stories>>,
           \/ \E item : \E labels \in ItemLabels \cup {{"aider-fix"}} :
                 issues' = Append(issues, Issue(item, labels))
           \/ \E i \in DOMAIN issues : OpenPr(i) \/ CloseIssue(i)
    PROVE  StoryInv'
  <1> DEFINE Same == /\ Listed(issues') /\ Ready' = Ready
                     /\ \A j \in Ready : issues'[j].id = issues[j].id
  <1>1. Same
    <2>1. ASSUME NEW item, NEW labels \in ItemLabels \cup {{"aider-fix"}},
                 issues' = Append(issues, Issue(item, labels))
          PROVE  Same
      <3>1. Issue(item, labels).labels = labels /\ labels \cap READY_LABELS = {}
        BY DEF Issue, NoneReady, READY_LABELS
      <3>2. QED
        BY <2>1, <3>1, IssueFiled DEF StoryInv, Ready, labelMatches
    <2>2. ASSUME NEW i \in DOMAIN issues, OpenPr(i) \/ CloseIssue(i)
          PROVE  Same
      <3>1. \A j \in DOMAIN issues : issues'[j].labels = issues[j].labels
        <4>1. PICK state \in {"pr", "closed"} : issues' = [issues EXCEPT ![i].state = state]
          BY <2>2 DEF OpenPr, CloseIssue
        <4>2. QED
          BY <4>1
      <3>2. QED
        BY <2>2, <3>1, IssueMoves DEF StoryInv, Ready, labelMatches
    <2>3. QED
      BY <2>1, <2>2
  <1>2. QED
    BY <1>1 DEF StoryInv, StoryLists, Story

\* The list of a story is one for more issues too.
LEMMA MoreIssues ==
    ASSUME NEW R, NEW Q, R \subseteq Q, NEW all \in StoryLists(R)
    PROVE  all \in StoryLists(Q)
  <1>1. all \in Seq(Story(R)) /\ Story(R) \subseteq Story(Q)
    BY DEF StoryLists, Story
  <1>2. all \in Seq(Story(Q))
    BY <1>1
  <1>3. QED
    BY <1>2 DEF StoryLists

LEMMA OpenReadyKeepsStories == ASSUME StoryInv, OpenReady PROVE StoryInv'
  <1> DEFINE new == Len(issues) + 1
  <1>1. issues' = Append(issues, Issue(Untitled, {"ralph-ready"})) /\ Opened < OwnIssues
        /\ UNCHANGED <<pull, stories>>
    BY DEF OpenReady
  <1>2. /\ Issue(Untitled, {"ralph-ready"}).labels = {"ralph-ready"}
        /\ Issue(Untitled, {"ralph-ready"}).id = None
    BY DEF Issue, Untitled
  <1>3. /\ Listed(issues') /\ Ready' = Ready \cup {new} /\ new \notin Ready
        /\ \A i \in Ready' : issues'[i].id = None
    BY <1>1, <1>2, IssueFiled DEF StoryInv, Ready, labelMatches, READY_LABELS, Listed
  <1>4. Cardinality(Ready') <= OwnIssues
    <2> DEFINE untitled == {i \in DOMAIN issues : issues[i].id = None}
    <2>1. IsFiniteSet(untitled) /\ Ready \subseteq untitled
      <3>1. IsFiniteSet(DOMAIN issues)
        BY FS_Interval DEF StoryInv, Listed
      <3>2. QED
        BY <3>1, FS_Subset DEF StoryInv, Ready
    <2>2. /\ Cardinality(Ready) <= Cardinality(untitled) /\ Cardinality(untitled) \in Nat
          /\ IsFiniteSet(Ready) /\ Cardinality(Ready) \in Nat
      BY <2>1, FiniteReady, FS_Subset, FS_CardinalityType
    <2>3. Cardinality(untitled) < OwnIssues
      BY <1>1 DEF Opened
    <2>4. Cardinality(Ready') = Cardinality(Ready) + 1
      BY <1>3, <2>2, FS_AddElement
    <2> HIDE DEF untitled
    <2>5. QED
      BY <2>2, <2>3, <2>4, SupplyAssumption
  <1>5. stories' \in StoryLists(Ready')
    BY <1>1, <1>3, MoreIssues DEF StoryInv
  <1>6. QED
    BY <1>1, <1>3, <1>4, <1>5 DEF StoryInv

\* An import and the loop write stories of ready issues; what they do to the others.
LEMMA ImportKeepsStories ==
    ASSUME StoryInv, Window >= OwnIssues, ImportIssues
    PROVE  StoryInv' /\ ToSet(stories) \subseteq ToSet(stories')
  <1> DEFINE S == pull \ Known(stories)
  <1>1. S \in SUBSET Ready /\ IsFiniteSet(S)
    BY WindowCovers, FS_Subset DEF ImportIssues, StoryInv
  <1>2. stories \in StoryLists(Ready) /\ \A k \in DOMAIN stories : stories[k].issue \notin S
    BY WindowCovers DEF StoryInv
  <1>3. stories' = Imports(S, stories)[S]
    BY ImportIsFold DEF ImportIssues
  <1> HIDE DEF S
  <1>4. stories' \in StoryLists(Ready) /\ ToSet(stories) \subseteq ToSet(stories')
    BY <1>1, <1>2, <1>3, ImportedKeeps
  <1>5. UNCHANGED issues /\ pull' = None /\ Ready' = Ready
    BY DEF ImportIssues, Ready
  <1>6. QED
    BY <1>4, <1>5 DEF StoryInv

LEMMA WorkKeepsStories ==
    ASSUME StoryInv, NEW k \in DOMAIN stories, WorkStory(k)
    PROVE  /\ StoryInv'
           /\ \A x \in ToSet(stories) : x.status = "ACTIVE" => x \in ToSet(stories')
  <1> DEFINE i == stories[k].issue
  <1>1. stories \in StoryLists(Ready) /\ DOMAIN stories = 1..Len(stories)
        /\ \A l \in DOMAIN stories : stories[l] \in Story(Ready)
    BY DEF StoryInv, StoryLists
  <1>2. i \in Ready /\ stories' = Written(stories, i, "ACTIVE")
    BY <1>1 DEF Story, WorkStory
  <1>3. /\ stories' \in StoryLists(Ready) /\ [issue |-> i, status |-> "ACTIVE"] \in ToSet(stories')
        /\ \A x \in ToSet(stories) : x.issue # i => x \in ToSet(stories')
    BY <1>1, <1>2, WrittenKeeps
  <1>4. ASSUME NEW x \in ToSet(stories), x.status = "ACTIVE" PROVE x \in ToSet(stories')
    <2>1. x \in Story(Ready)
      BY <1>1 DEF ToSet
    <2>2. x = [issue |-> x.issue, status |-> "ACTIVE"]
      BY <1>4, <2>1 DEF Story
    <2>3. QED
      BY <1>3, <2>2
  <1>5. UNCHANGED <<issues, pull>> /\ Ready' = Ready
    BY DEF WorkStory, Ready
  <1>6. QED
    BY <1>3, <1>4, <1>5 DEF StoryInv

LEMMA StoryStep ==
    ASSUME NoneReady, StoryInv, Window >= OwnIssues, [Next]_vars
    PROVE  /\ StoryInv'
           /\ \A x \in ToSet(stories) : x.status = "ACTIVE" => x \in ToSet(stories')
  <1>1. CASE UNCHANGED <<issues, pull, stories>>
    BY <1>1 DEF StoryInv, Ready
  <1>2. CASE FetchIssues
    <2>1. Eligibles \subseteq Ready /\ Ready' = Ready /\ pull' = Eligibles /\ UNCHANGED <<issues, stories>>
      BY <1>2 DEF FetchIssues, Eligibles, Ready
    <2>2. QED
      BY <2>1 DEF StoryInv
  <1>3. CASE OpenReady
    BY <1>3, OpenReadyKeepsStories DEF OpenReady
  <1>4. QED
    BY <1>1, <1>2, <1>3, StorySteps, OtherKeepsStories, ImportKeepsStories, WorkKeepsStories

\* No story that was worked on goes back to the queue, whatever is imported while the
\* loop works, as long as the window covers the issues people open for the daemon
\* (github-issue-queue.js:31-39) and they label no backlog item for it: an import then
\* knows of every story there is.
THEOREM StoriesAreKept ==
    ASSUME Window >= OwnIssues, NoneReady PROVE Spec => ImportKeeps
  <1>1. StoryInv /\ [Next]_vars => StoryInv'
    BY StoryStep
  <1>2. StoryInv /\ [Next]_vars =>
           [\A k \in DOMAIN stories : stories[k].status = "ACTIVE" =>
               \E l \in DOMAIN stories' : stories'[l] = stories[k]]_vars
    <2> SUFFICES ASSUME StoryInv, [Next]_vars, NEW k \in DOMAIN stories,
                        stories[k].status = "ACTIVE"
                 PROVE  \E l \in DOMAIN stories' : stories'[l] = stories[k]
      OBVIOUS
    <2>1. stories[k] \in ToSet(stories')
      BY StoryStep DEF ToSet
    <2>2. QED
      BY <2>1 DEF ToSet
  <1>3. QED
    BY <1>1, <1>2, StoriesStart, PTL DEF Spec, ImportKeeps
=============================================================================
