--------------------------- MODULE AgentJobsProofs ---------------------------
(* What the dispatch through external agents keeps for any number of tasks, *)
(* dispatching processes, agents given up, aborts and crashes.              *)
EXTENDS AgentJobs, FiniteSetTheorems, TLAPS

\* A process works on its own tasks only, while their stories wait for a patch.
Going ==
    \A a \in Actors :
        /\ at[a] = "idle" <=> on[a] = None
        /\ at[a] # "idle" => Owner[on[a]] = a /\ phase[on[a]] = "OPENCODE_RUNNING"

\* A story that is dispatched again has attempts left.
Alive == \A t \in Tasks : phase[t] = "OPENCODE_RUNNING" => left[t] > 0

AgentInv == TypeOK /\ Going /\ Alive

LEMMA NoPatchIsText == NoPatch \in Texts
  BY DEF Texts, NoPatch

LEMMA AnswersAreTexts ==
    ASSUME NEW t \in Tasks PROVE Answers(t) \subseteq Texts
  BY AgentAssumption DEF Answers, Texts

LEMMA FallbackIsText ==
    ASSUME NEW t \in Tasks, Eligible(t) PROVE FallbackPatch(t) \in Texts
  <1>1. \E path \in Paths : Wants[t] = {path}
    BY DEF Eligible
  <1>2. (CHOOSE path \in Paths : Wants[t] = {path}) \in Paths
    BY <1>1
  <1>3. QED
    BY <1>2 DEF FallbackPatch, Texts

LEMMA AgentStarts == Init => AgentInv
  BY AgentAssumption, NoPatchIsText DEF Init, AgentInv, TypeOK, Going, Alive, Steps

LEMMA AgentStep == AgentInv /\ [Next]_agentVars => AgentInv'
  <1> SUFFICES ASSUME AgentInv, [Next]_agentVars PROVE AgentInv'
    OBVIOUS
  <1> USE AgentAssumption, NoPatchIsText
      DEF AgentInv, TypeOK, Going, Alive, Goes, Fresh, Leave, Ends, storyVars, turnVars, Steps
  <1>1. CASE UNCHANGED agentVars
    BY <1>1 DEF agentVars
  <1>2. ASSUME NEW a \in Actors, NEW t \in Tasks, Refuse(a, t) PROVE AgentInv'
    BY <1>2 DEF Refuse
  <1>3. ASSUME NEW a \in Actors, NEW t \in Tasks, Start(a, t) PROVE AgentInv'
    BY <1>3 DEF Start
  <1>4. ASSUME NEW a \in Actors, Turn(a) PROVE AgentInv'
    <2>1. on[a] \in Tasks
      BY <1>4 DEF Turn
    <2>2. box' \in Texts /\ said' \in [Actors -> Texts]
      BY <1>4, <2>1, AnswersAreTexts DEF Turn, First
    <2>3. code' \in [Actors -> {"ok", "failed", "refused", "uninstalled"}]
      BY <1>4 DEF Turn
    <2>4. trouble' \in [Actors -> {"none", "limit", "timeout"}] /\ late' \subseteq Tasks
      BY <1>4, <2>1 DEF Turn
    <2>5. at' \in [Actors -> Steps] /\ at'[a] # "idle" /\ \A b \in Actors : b # a => at'[b] = at[b]
      BY <1>4 DEF Turn
    <2>6. QED
      BY <1>4, <2>2, <2>3, <2>4, <2>5 DEF Turn
  <1>5. ASSUME NEW a \in Actors, AdapterTurn(a) PROVE AgentInv'
    <2>1. host' \in [Tasks -> Texts]
      BY <1>5, AnswersAreTexts DEF AdapterTurn
    <2>2. /\ code' \in [Actors -> {"ok", "failed", "refused", "uninstalled"}]
          /\ trouble' \in [Actors -> {"none", "limit", "timeout"}]
      BY <1>5 DEF AdapterTurn
    <2>3. QED
      BY <1>5, <2>1, <2>2 DEF AdapterTurn
  <1>6. ASSUME NEW a \in Actors, Cat(a) PROVE AgentInv'
    <2>1. /\ filed' \in [Actors -> Texts]
          /\ trouble' \in [Actors -> {"none", "limit", "timeout"}]
      BY <1>6 DEF Cat, First
    <2>2. at' \in [Actors -> Steps] /\ at'[a] # "idle" /\ \A b \in Actors : b # a => at'[b] = at[b]
      BY <1>6 DEF Cat
    <2>3. QED
      BY <1>6, <2>1, <2>2 DEF Cat
  <1>7. ASSUME NEW a \in Actors, Land(a) PROVE AgentInv'
    <2>1. Text(a) \in Texts
      BY DEF Text, First
    <2>2. QED
      BY <1>7, <2>1 DEF Land
  <1>8. ASSUME NEW a \in Actors, Close(a) PROVE AgentInv'
    BY <1>8 DEF Close, Outcome
  <1>9. ASSUME NEW a \in Actors, Save(a) PROVE AgentInv'
    BY <1>9 DEF Save
  <1>16. ASSUME NEW a \in Actors, Serve(a) PROVE AgentInv'
    <2>1. on[a] \in Tasks /\ FallbackPatch(on[a]) \in Texts
      BY <1>16, FallbackIsText DEF Serve
    <2>2. QED
      BY <1>16, <2>1 DEF Serve
  <1>17. ASSUME NEW a \in Actors, SaveServed(a) PROVE AgentInv'
    BY <1>17 DEF SaveServed
  <1>18. ASSUME NEW a \in Actors, SaveFailed(a) PROVE AgentInv'
    <2>1. on[a] \in Tasks /\ left[on[a]] > 0 /\ left[on[a]] \in Nat
      BY <1>18 DEF SaveFailed
    <2>2. \A t \in Tasks : left[t] \in Nat /\ Attempts[t] \in Nat /\ left[t] <= Attempts[t]
      BY <1>18
    <2> DEFINE n == left[on[a]] - 1
    <2>3. n \in Nat /\ n <= Attempts[on[a]] /\ (n = 0 \/ n > 0)
      BY <2>1, <2>2
    <2>4. /\ left' = [left EXCEPT ![on[a]] = n]
          /\ phase' = [phase EXCEPT ![on[a]] = NextPhase(n)]
      BY <1>18, <2>1 DEF SaveFailed
    <2>5. source' \in [Tasks -> {"none", "deterministic_fallback"}]
      BY <1>18, <2>1 DEF SaveFailed
    <2> HIDE DEF n
    <2>6. /\ left' \in [Tasks -> Nat] /\ \A t \in Tasks : left'[t] <= Attempts[t]
          /\ phase' \in [Tasks -> {"OPENCODE_RUNNING", "PATCH_PREVIEW", "ESCALATED"}]
      BY <2>1, <2>2, <2>3, <2>4 DEF NextPhase
    <2>7. Alive'
      BY <2>1, <2>2, <2>3, <2>4 DEF NextPhase
    <2>8. \A t \in Tasks : t # on[a] => phase'[t] = phase[t]
      BY <2>1, <2>4
    <2>9. QED
      BY <1>18, <2>1, <2>5, <2>6, <2>7, <2>8 DEF SaveFailed
  <1>10. ASSUME NEW a \in Actors, Crash(a) PROVE AgentInv'
    <2>1. late' \subseteq Tasks
      BY <1>10 DEF Crash
    <2>2. crashes' \in 0 .. MaxCrashes
      BY <1>10 DEF Crash
    <2>3. QED
      BY <1>10, <2>1, <2>2 DEF Crash
  <1>11. ASSUME NEW t \in Tasks, LateWrite(t) PROVE AgentInv'
    BY <1>11, AnswersAreTexts DEF LateWrite
  <1>12. ASSUME NEW t \in Tasks, Repair(t) PROVE AgentInv'
    BY <1>12 DEF Repair
  <1>13. ASSUME NEW t \in Tasks, AbortRead(t) PROVE AgentInv'
    BY <1>13 DEF AbortRead
  <1>14. ASSUME AbortWrite PROVE AgentInv'
    BY <1>14 DEF AbortWrite
  <1>15. QED
    BY <1>1, <1>2, <1>3, <1>4, <1>5, <1>6, <1>7, <1>8, <1>9, <1>10, <1>11, <1>12,
       <1>13, <1>14, <1>16, <1>17, <1>18 DEF Next, Dispatching

LEMMA AgentHolds == Spec => []AgentInv
  BY AgentStarts, AgentStep, PTL DEF Spec

\* Shapes; and no story ever has more attempts left than it began with, nor fewer
\* than none.
THEOREM AgentsTyped == Spec => []TypeOK
  BY AgentHolds, PTL DEF AgentInv

-----------------------------------------------------------------------------
\* A dispatch is at work from its first record to its last.  A record that says
\* running with no dispatch at work on its task was left by a crash; one that is
\* refused leaves it so.
Working == {"agent", "cat", "retry", "recat", "land", "close"}
Unworked == {t \in Tasks : job[t] = "running" /\ \A a \in Actors : ~(at[a] \in Working /\ on[a] = t)}

StrayInv == IsFiniteSet(Unworked) /\ Cardinality(Unworked) <= crashes

\* No step but a crash adds to them.
LEMMA StrayStep == AgentInv /\ StrayInv /\ [Next]_agentVars => StrayInv'
  <1> SUFFICES ASSUME AgentInv, StrayInv, [Next]_agentVars PROVE StrayInv'
    OBVIOUS
  <1> USE DEF AgentInv, TypeOK, Goes, Leave, Fresh, Working
  <1>0. Cardinality(Unworked) \in Nat /\ crashes \in Nat
    BY AgentAssumption, FS_CardinalityType DEF StrayInv
  <1>1. ASSUME UNCHANGED crashes, Unworked' \subseteq Unworked PROVE StrayInv'
    <2>1. IsFiniteSet(Unworked') /\ Cardinality(Unworked') <= Cardinality(Unworked)
      BY <1>1, FS_Subset DEF StrayInv
    <2>2. Cardinality(Unworked') \in Nat
      BY <2>1, FS_CardinalityType
    <2>3. QED
      BY <1>0, <1>1, <2>1, <2>2 DEF StrayInv
  <1>2. ASSUME NEW a \in Actors, Crash(a) PROVE StrayInv'
    <2>1. Unworked' \subseteq Unworked \cup {on[a]}
      BY <1>2 DEF Crash, Unworked, Going
    <2>2. /\ IsFiniteSet(Unworked \cup {on[a]})
          /\ Cardinality(Unworked \cup {on[a]}) <= Cardinality(Unworked) + 1
      <3>1. IsFiniteSet(Unworked)
        BY DEF StrayInv
      <3> HIDE DEF AgentInv, TypeOK
      <3>2. QED
        BY <1>0, <3>1, FS_AddElement
    <2>3. IsFiniteSet(Unworked') /\ Cardinality(Unworked') <= Cardinality(Unworked) + 1
      BY <1>0, <2>1, <2>2, FS_Subset, FS_CardinalityType
    <2>4. crashes' = crashes + 1 /\ Cardinality(Unworked') \in Nat
      BY <1>2, <2>3, FS_CardinalityType DEF Crash
    <2>5. QED
      BY <1>0, <2>3, <2>4 DEF StrayInv
  <1>3. CASE UNCHANGED agentVars
    BY <1>1, <1>3 DEF agentVars, Unworked
  <1>4. ASSUME NEW a \in Actors, NEW t \in Tasks, Refuse(a, t) \/ Start(a, t) PROVE StrayInv'
    BY <1>1, <1>4 DEF Refuse, Start, Unworked
  <1>5. ASSUME NEW a \in Actors, Turn(a) \/ AdapterTurn(a) \/ Cat(a) \/ Land(a) PROVE StrayInv'
    BY <1>1, <1>5 DEF Turn, AdapterTurn, Cat, Land, Unworked
  <1>6. ASSUME NEW a \in Actors, Close(a) PROVE StrayInv'
    BY <1>1, <1>6 DEF Close, Outcome, Unworked
  <1>7. ASSUME NEW a \in Actors, Save(a) \/ Serve(a) \/ SaveServed(a) \/ SaveFailed(a) PROVE StrayInv'
    <2>1. crashes' = crashes /\ job' = job /\ at[a] \notin Working
      BY <1>7 DEF Save, Serve, SaveServed, SaveFailed
    <2>2. \A b \in Actors : b # a => at'[b] = at[b] /\ on'[b] = on[b]
      <3>1. CASE Serve(a)
        BY <3>1 DEF Serve
      <3>2. CASE Leave(a)
        BY <3>2
      <3>3. QED
        BY <1>7, <3>1, <3>2 DEF Save, SaveServed, SaveFailed
    <2>3. Unworked' \subseteq Unworked
      BY <2>1, <2>2 DEF Unworked
    <2>4. QED
      BY <1>1, <2>1, <2>3
  <1>8. ASSUME NEW t \in Tasks, LateWrite(t) \/ Repair(t) \/ AbortRead(t) PROVE StrayInv'
    BY <1>1, <1>8 DEF LateWrite, Repair, AbortRead, Unworked
  <1>9. ASSUME AbortWrite PROVE StrayInv'
    BY <1>1, <1>9 DEF AbortWrite, Unworked
  <1>10. QED
    BY <1>2, <1>3, <1>4, <1>5, <1>6, <1>7, <1>8, <1>9 DEF Next, Dispatching

\* Each crash leaves at most one record that says running with no process on its
\* task, and nothing else leaves one (external-agent-jobs.js:41).
THEOREM StraysAreCounted == Spec => []StrayRecords
  <1>1. Init => StrayInv
    <2> SUFFICES ASSUME Init PROVE StrayInv
      OBVIOUS
    <2>1. Unworked = {}
      BY DEF Init, Unworked
    <2>2. QED
      BY <2>1, FS_EmptySet DEF Init, StrayInv
  <1>2. AgentInv /\ StrayInv => StrayRecords
    <2> SUFFICES ASSUME AgentInv, StrayInv PROVE StrayRecords
      OBVIOUS
    <2>1. Stray \subseteq Unworked
      BY DEF Stray, Unworked
    <2>2. Cardinality(Stray) <= Cardinality(Unworked) /\ Cardinality(Stray) \in Nat
      BY <2>1, FS_Subset, FS_CardinalityType DEF StrayInv
    <2>3. Cardinality(Unworked) \in Nat /\ crashes \in Nat
      BY AgentAssumption, FS_CardinalityType DEF StrayInv, AgentInv, TypeOK
    <2>4. QED
      BY <2>2, <2>3 DEF StrayRecords, StrayInv
  <1>3. QED
    BY <1>1, <1>2, AgentHolds, StrayStep, PTL DEF Spec

-----------------------------------------------------------------------------
\* A dispatch about to be called a success has its patch in place, and from the
\* record's last write on, its record.
Landed ==
    \A a \in Actors :
        /\ at[a] \in {"close", "save"} /\ Succeeded(a) =>
               host[on[a]] # NoPatch /\ host[on[a]].by # Ralph
        /\ at[a] = "save" /\ Succeeded(a) => job[on[a]] \in {"completed", "aborted"}
        /\ at[a] = "serve" => host[on[a]] # NoPatch /\ host[on[a]].by = Ralph

\* No agent's file or answer is the fallback's, and the fallback serves stories only.
Signed ==
    /\ box.by # Ralph
    /\ \A a \in Actors : filed[a].by # Ralph /\ said[a].by # Ralph
    /\ \A t \in Tasks \ Mediated : host[t].by # Ralph

BackedInv == Landed /\ Signed /\ PreviewBacked

\* Two processes are never on one task, and one on a task keeps its story waiting.
LEMMA Apart ==
    ASSUME AgentInv, NEW a \in Actors, at[a] # "idle"
    PROVE  /\ on[a] \in Tasks /\ phase[on[a]] # "PATCH_PREVIEW"
           /\ \A b \in Actors : b # a /\ at[b] # "idle" => on[b] # on[a]
  BY AgentAssumption DEF AgentInv, TypeOK, Going

LEMMA SignedStep == AgentInv /\ Signed /\ [Next]_agentVars => Signed'
  <1> SUFFICES ASSUME AgentInv, Signed, [Next]_agentVars PROVE Signed'
    OBVIOUS
  <1> USE AgentAssumption DEF Signed, Goes, Fresh, Leave, Ends, turnVars
  <1>11. NoPatch.by # Ralph
    BY DEF NoPatch
  <1>0. TypeOK
    BY DEF AgentInv
  <1> USE DEF TypeOK
  <1>1. CASE UNCHANGED <<box, filed, said, host>>
    BY <1>1
  <1>2. ASSUME NEW a \in Actors, NEW t \in Tasks, Refuse(a, t) \/ Start(a, t) PROVE Signed'
    <2>1. UNCHANGED <<box, filed, said>> \/ (Start(a, t) /\ UNCHANGED box)
      BY <1>2 DEF Refuse, Start
    <2>2. \A b \in Actors : filed'[b].by # Ralph /\ said'[b].by # Ralph
      <3>1. CASE UNCHANGED <<filed, said>>
        BY <3>1
      <3>2. CASE /\ filed' = [filed EXCEPT ![a] = NoPatch]
                 /\ said' = [said EXCEPT ![a] = NoPatch]
        BY <1>0, <1>11, <3>2
      <3>3. QED
        BY <2>1, <3>1, <3>2 DEF Start
    <2>3. host' = host \/ host' = [host EXCEPT ![t] = NoPatch]
      BY <1>2 DEF Refuse, Start
    <2>4. \A u \in Tasks \ Mediated : host'[u].by # Ralph
      BY <1>0, <1>11, <2>3
    <2>5. QED
      BY <2>1, <2>2, <2>4
  <1>3. ASSUME NEW a \in Actors, Turn(a) PROVE Signed'
    <2>1. on[a] \in Tasks
      BY <1>3 DEF Turn
    <2>2. box'.by # Ralph
      BY <1>3, <2>1 DEF Turn, Answers
    <2>3. \A b \in Actors : said'[b].by # Ralph
      <3>1. CASE said' = said
        BY <3>1
      <3>2. ASSUME NEW p \in Answers(on[a]) \cup {NoPatch},
                   said' = [said EXCEPT ![a] = First(said[a], p)]
            PROVE  \A b \in Actors : said'[b].by # Ralph
        <4>1. p.by # Ralph
          BY <1>11, <2>1, <3>2 DEF Answers
        <4>2. First(said[a], p).by # Ralph
          BY <4>1 DEF First
        <4>3. QED
          BY <1>0, <3>2, <4>2
      <3>3. QED
        BY <1>3, <3>1, <3>2 DEF Turn
    <2>4. QED
      BY <1>3, <2>2, <2>3 DEF Turn
  <1>4. ASSUME NEW a \in Actors, AdapterTurn(a) PROVE Signed'
    <2>1. on[a] \in Tasks
      BY <1>0, <1>4, Apart DEF AdapterTurn
    <2>2. QED
      <3>1. UNCHANGED <<box, filed, said>>
        BY <1>4 DEF AdapterTurn
      <3>2. CASE UNCHANGED host
        BY <3>1, <3>2
      <3>3. ASSUME NEW p \in Answers(on[a]), host' = [host EXCEPT ![on[a]] = p] PROVE Signed'
        <4>1. p.by # Ralph
          BY <2>1, <3>3 DEF Answers
        <4>2. \A u \in Tasks : host'[u] = host[u] \/ host'[u] = p
          BY <1>0, <3>3
        <4>3. QED
          BY <3>1, <4>1, <4>2
      <3>4. QED
        BY <1>4, <3>2, <3>3 DEF AdapterTurn
  <1>5. ASSUME NEW a \in Actors, Cat(a) PROVE Signed'
    BY <1>0, <1>5 DEF Cat, First
  <1>6. ASSUME NEW a \in Actors, Land(a) PROVE Signed'
    BY <1>0, <1>6 DEF Land, Text, First
  <1>7. ASSUME NEW a \in Actors, Serve(a) PROVE Signed'
    <2>1. on[a] \in Mediated
      BY <1>7 DEF Serve, Eligible
    <2>2. QED
      BY <1>0, <1>7, <2>1 DEF Serve
  <1>8. ASSUME NEW a \in Actors, Save(a) \/ SaveServed(a) \/ SaveFailed(a) \/ Crash(a) PROVE Signed'
    <2>1. /\ UNCHANGED <<box, host>>
          /\ filed' = [filed EXCEPT ![a] = NoPatch]
          /\ said' = [said EXCEPT ![a] = NoPatch]
      BY <1>8 DEF Save, SaveServed, SaveFailed, Crash
    <2>2. QED
      BY <1>0, <1>11, <2>1
  <1>9. ASSUME NEW t \in Tasks, LateWrite(t) PROVE Signed'
    BY <1>0, <1>9 DEF LateWrite, Answers
  <1>10. QED
    BY <1>1, <1>2, <1>3, <1>4, <1>5, <1>6, <1>7, <1>8, <1>9
    DEF Next, agentVars, Dispatching, Close, Repair, AbortRead, AbortWrite

LEMMA BackedStep == AgentInv /\ BackedInv /\ [Next]_agentVars => BackedInv'
  <1> SUFFICES ASSUME AgentInv, BackedInv, [Next]_agentVars PROVE Landed' /\ PreviewBacked'
    BY SignedStep DEF BackedInv
  <1> USE AgentAssumption DEF PreviewBacked, Landed, Succeeded, Text, Goes, Leave, Fresh, Ends,
          storyVars, turnVars
  <1>0. TypeOK /\ Landed /\ PreviewBacked /\ \A a \in Actors : at[a] # "idle" =>
            /\ on[a] \in Tasks /\ phase[on[a]] # "PATCH_PREVIEW"
            /\ \A b \in Actors : b # a /\ at[b] # "idle" => on[b] # on[a]
    BY Apart DEF AgentInv, BackedInv
  <1>20. Signed
    BY DEF BackedInv
  <1> DEFINE Goal == Landed' /\ PreviewBacked'
  <1> USE DEF TypeOK
  <1>1. CASE UNCHANGED agentVars
    BY <1>0, <1>1 DEF agentVars
  <1>2. ASSUME NEW a \in Actors, NEW t \in Tasks, Refuse(a, t) PROVE Goal
    <2>1. \A b \in Actors : at[b] # "idle" => on[b] # t
      BY <1>2 DEF Refuse, AgentInv, Going
    <2>2. QED
      BY <1>0, <1>2, <2>1 DEF Refuse
  <1>3. ASSUME NEW a \in Actors, NEW t \in Tasks, Start(a, t) PROVE Goal
    <2>1. \A b \in Actors : at[b] # "idle" => on[b] # t
      BY <1>3 DEF Start, AgentInv, Going
    <2>2. QED
      BY <1>0, <1>3, <2>1 DEF Start
  <1>4. ASSUME NEW a \in Actors, Turn(a) PROVE Goal
    BY <1>0, <1>4 DEF Turn
  <1>5. ASSUME NEW a \in Actors, AdapterTurn(a) PROVE Goal
    <2>1. on[a] \in Tasks /\ on[a] \notin Mediated
      BY <1>0, <1>5 DEF AdapterTurn
    <2>2. host'[on[a]].by # Ralph
      BY <1>0, <1>5, <1>20, <2>1 DEF AdapterTurn, Signed, Answers
    <2>3. QED
      BY <1>0, <1>5, <2>1, <2>2 DEF AdapterTurn
  <1>6. ASSUME NEW a \in Actors, Cat(a) PROVE Goal
    BY <1>0, <1>6 DEF Cat
  <1>7. ASSUME NEW a \in Actors, Land(a) PROVE Goal
    <2>1. Text(a).by # Ralph
      BY <1>20 DEF Signed, First
    <2>2. CASE on[a] \in Mediated
      BY <1>0, <1>7, <2>1, <2>2 DEF Land, Fits
    <2>3. CASE on[a] \notin Mediated
      BY <1>0, <1>7, <1>20, <2>1, <2>3 DEF Land, Signed
    <2>4. QED
      BY <2>2, <2>3
  <1>8. ASSUME NEW a \in Actors, Close(a) PROVE Goal
    BY <1>0, <1>8 DEF Close, Outcome
  <1>9. ASSUME NEW a \in Actors, Save(a) PROVE Goal
    BY <1>0, <1>9 DEF Save
  <1>10. ASSUME NEW a \in Actors, Crash(a) PROVE Goal
    BY <1>0, <1>10 DEF Crash
  <1>11. ASSUME NEW t \in Tasks, LateWrite(t) PROVE Goal
    BY <1>0, <1>11 DEF LateWrite
  <1>12. ASSUME NEW t \in Tasks, Repair(t) PROVE Goal
    BY <1>0, <1>12 DEF Repair
  <1>13. ASSUME NEW t \in Tasks, AbortRead(t) PROVE Goal
    BY <1>0, <1>13 DEF AbortRead
  <1>14. ASSUME AbortWrite PROVE Goal
    BY <1>0, <1>14 DEF AbortWrite
  <1>16. ASSUME NEW a \in Actors, Serve(a) PROVE Goal
    <2>1. /\ on[a] \in Tasks
          /\ FallbackPatch(on[a]) # NoPatch /\ FallbackPatch(on[a]).by = Ralph
      BY <1>0, <1>16 DEF Serve, FallbackPatch, NoPatch
    <2>2. QED
      BY <1>0, <1>16, <2>1 DEF Serve
  <1>17. ASSUME NEW a \in Actors, SaveServed(a) PROVE Goal
    BY <1>0, <1>17 DEF SaveServed
  <1>18. ASSUME NEW a \in Actors, SaveFailed(a) PROVE Goal
    <2>1. /\ phase'[on[a]] # "PATCH_PREVIEW"
          /\ \A t \in Tasks : t # on[a] => (phase'[t] = phase[t] /\ source'[t] = source[t])
      BY <1>0, <1>18 DEF SaveFailed, NextPhase
    <2>2. /\ UNCHANGED <<host, job>> /\ at[a] = "save"
          /\ at' = [at EXCEPT ![a] = "idle"]
          /\ \A b \in Actors : b # a =>
                /\ on'[b] = on[b] /\ filed'[b] = filed[b] /\ said'[b] = said[b]
                /\ code'[b] = code[b] /\ trouble'[b] = trouble[b]
      BY <1>0, <1>18 DEF SaveFailed
    <2>3. PreviewBacked'
      <3> SUFFICES ASSUME NEW t \in Tasks, phase'[t] = "PATCH_PREVIEW"
                   PROVE  /\ host[t] # NoPatch
                          /\ IF host[t].by = Ralph THEN source'[t] = "deterministic_fallback"
                             ELSE job[t] \in {"completed", "aborted"}
        BY <2>2
      <3>1. phase[t] = "PATCH_PREVIEW" /\ source'[t] = source[t]
        BY <2>1
      <3>2. QED
        BY <1>0, <3>1
    <2>4. Landed'
      BY <1>0, <2>2
    <2>5. QED
      BY <2>3, <2>4
  <1>15. QED
    BY <1>1, <1>2, <1>3, <1>4, <1>5, <1>6, <1>7, <1>8, <1>9, <1>10, <1>11, <1>12,
       <1>13, <1>14, <1>16, <1>17, <1>18 DEF Next, Dispatching

\* A story at its preview has a patch, and whose patch it is agrees with its job
\* record or with its patch_source (nemoclaw-opencode-gateway.js:345-361,
\* autonomous-loop-wired.js:293-361).
THEOREM PreviewsBacked == Spec => []PreviewBacked
  <1>1. Init => BackedInv
    BY AgentAssumption DEF Init, BackedInv, Landed, Signed, PreviewBacked, NoPatch
  <1>2. Spec => []BackedInv
    BY <1>1, AgentHolds, BackedStep, PTL DEF Spec
  <1>3. QED
    BY <1>2, PTL DEF BackedInv
=============================================================================
