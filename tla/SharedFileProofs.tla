-------------------------- MODULE SharedFileProofs --------------------------
(* Two files that several processes check and then act on without a lock   *)
(* of their own: the daemon's pid lock, for any number of processes and    *)
(* for two that contend for it, and the approval records of a stopped      *)
(* story, whoever writes to them at the same time.                         *)
EXTENDS DaemonLock, ApprovalRecords, TLAPS

-----------------------------------------------------------------------------
(* The pid lock file.                                                      *)

LEMMA LockTypeInit == LockInit => LockTypeOK
<1> SUFFICES ASSUME LockInit PROVE LockTypeOK
  OBVIOUS
<1>1. crashes \in 0..MaxCrashes
  BY LockAssumption DEF LockInit
<1>2. QED
  BY <1>1 DEF LockInit, LockTypeOK

LEMMA LockTypeStep == LockTypeOK /\ [LockNext]_lockVars => LockTypeOK'
<1> SUFFICES ASSUME LockTypeOK, [LockNext]_lockVars PROVE LockTypeOK'
  OBVIOUS
<1> USE LockAssumption DEF LockTypeOK, Running, Goto, At
<1>1. CASE UNCHANGED lockVars
  BY <1>1 DEF lockVars
<1>2. ASSUME NEW p \in Pids, Open(p) PROVE LockTypeOK'
  <2>1. CASE lock = NoPid
    BY <1>2, <2>1 DEF Open
  <2>2. CASE lock # NoPid
    BY <1>2, <2>2 DEF Open
  <2>3. QED
    BY <2>1, <2>2
<1>3. ASSUME NEW p \in Pids, Write(p) PROVE LockTypeOK'
  BY <1>3 DEF Write
<1>4. ASSUME NEW p \in Pids, Read(p) PROVE LockTypeOK'
  BY <1>4 DEF Read
<1>5. ASSUME NEW p \in Pids, Probe(p) PROVE LockTypeOK'
  BY <1>5 DEF Probe
<1>6. ASSUME NEW p \in Pids, Unlink(p) PROVE LockTypeOK'
  BY <1>6 DEF Unlink
<1>7. ASSUME NEW p \in Pids, CycleHead(p) PROVE LockTypeOK'
  BY <1>7 DEF CycleHead
<1>8. ASSUME NEW p \in Pids, Pulled(p) PROVE LockTypeOK'
  BY <1>8 DEF Pulled
<1>9. ASSUME NEW p \in Pids, Ticked(p) PROVE LockTypeOK'
  BY <1>9 DEF Ticked
<1>10. ASSUME NEW p \in Pids, Wake(p) PROVE LockTypeOK'
  BY <1>10 DEF Wake
<1>11. ASSUME NEW p \in Pids, CheckOwn(p) PROVE LockTypeOK'
  BY <1>11 DEF CheckOwn, Released
<1>12. ASSUME NEW p \in Pids, UnlinkOwn(p) PROVE LockTypeOK'
  BY <1>12 DEF UnlinkOwn, Released
<1>13. ASSUME NEW p \in Pids, Signal(p) PROVE LockTypeOK'
  BY <1>13 DEF Signal, Awaits
<1>14. ASSUME NEW p \in Pids, Kill(p) PROVE LockTypeOK'
  BY <1>14 DEF Kill, Gone
<1>15. QED
  BY <1>1, <1>2, <1>3, <1>4, <1>5, <1>6, <1>7, <1>8, <1>9, <1>10, <1>11,
     <1>12, <1>13, <1>14 DEF LockNext, Step

\* Types, and the handlers' release runs at its places only (runDaemon's signal
\* handlers and its end).
THEOREM LockTypeCorrect == LockSpec => []LockTypeOK
  BY LockTypeInit, LockTypeStep, PTL DEF LockSpec

-----------------------------------------------------------------------------
(* A file is created once per process, and its creator finds its own pid.  *)

Creator ==
    \A p \in Pids : lock = p =>
        /\ pc[p] \notin {"open", "read", "probe", "unlink", "off"}
        /\ pc[p] \notin {"write", "dead"} => written

LEMMA CreatorStep == LockTypeOK /\ Creator /\ [LockNext]_lockVars => Creator'
<1> SUFFICES ASSUME LockTypeOK, Creator, [LockNext]_lockVars PROVE Creator'
  OBVIOUS
<1> USE LockAssumption DEF LockTypeOK, Creator, Running, Goto, At
<1>1. CASE UNCHANGED lockVars
  BY <1>1 DEF lockVars
<1>2. ASSUME NEW p \in Pids, Open(p) PROVE Creator'
  BY <1>2 DEF Open
<1>3. ASSUME NEW p \in Pids, Write(p) PROVE Creator'
  BY <1>3 DEF Write
<1>4. ASSUME NEW p \in Pids, Read(p) PROVE Creator'
  BY <1>4 DEF Read
<1>5. ASSUME NEW p \in Pids, Probe(p) PROVE Creator'
  BY <1>5 DEF Probe
<1>6. ASSUME NEW p \in Pids, Unlink(p) PROVE Creator'
  BY <1>6 DEF Unlink
<1>7. ASSUME NEW p \in Pids, CycleHead(p) PROVE Creator'
  BY <1>7 DEF CycleHead
<1>8. ASSUME NEW p \in Pids, Pulled(p) PROVE Creator'
  BY <1>8 DEF Pulled
<1>9. ASSUME NEW p \in Pids, Ticked(p) PROVE Creator'
  BY <1>9 DEF Ticked
<1>10. ASSUME NEW p \in Pids, Wake(p) PROVE Creator'
  BY <1>10 DEF Wake
<1>11. ASSUME NEW p \in Pids, CheckOwn(p) PROVE Creator'
  BY <1>11 DEF CheckOwn, Released, Own
<1>12. ASSUME NEW p \in Pids, UnlinkOwn(p) PROVE Creator'
  BY <1>12 DEF UnlinkOwn, Released
<1>13. ASSUME NEW p \in Pids, Signal(p) PROVE Creator'
  BY <1>13 DEF Signal, Awaits
<1>14. ASSUME NEW p \in Pids, Kill(p) PROVE Creator'
  BY <1>14 DEF Kill, Gone
<1>15. QED
  BY <1>1, <1>2, <1>3, <1>4, <1>5, <1>6, <1>7, <1>8, <1>9, <1>10, <1>11,
     <1>12, <1>13, <1>14 DEF LockNext, Step

LEMMA CreatorHolds == LockSpec => [](LockTypeOK /\ Creator)
<1>1. ASSUME LockInit PROVE Creator
  BY <1>1, LockAssumption, Zenon DEF LockInit, Creator
<1>2. QED
  BY <1>1, LockTypeInit, LockTypeStep, CreatorStep, PTL DEF LockSpec

\* However many processes contend and however many are killed: one that ends by
\* itself or by a signal leaves no lock file of its own (releaseDaemonLock).
THEOREM EndsUnlocked == LockSpec => []LeavesNoLock
<1>1. Creator => LeavesNoLock
  BY DEF Creator, LeavesNoLock
<1>2. QED
  BY <1>1, CreatorHolds, PTL

-----------------------------------------------------------------------------
(* Two processes only.                                                     *)

TwoPids == \A p, q, r \in Pids : p = q \/ q = r \/ p = r

Rivals ==
    \A p \in Pids :
        /\ pc[p] \in Running /\ ~stopped[p] => lock = p /\ written
        /\ pc[p] = "write" => lock = p
        /\ pc[p] \in {"probe", "unlink"} => seen[p] \in Pids \ {p}
        /\ pc[p] = "unlink" => Gone(seen[p])
        /\ hand[p] = "unlink" => lock = p
        /\ hand[p] # "none" => stopped[p] \/ pc[p] = "exit"

RivalInv == LockTypeOK /\ Creator /\ Rivals

LEMMA RivalStep ==
    ASSUME TwoPids
    PROVE  RivalInv /\ [LockNext]_lockVars => Rivals'
<1> SUFFICES ASSUME LockTypeOK, Creator, Rivals, [LockNext]_lockVars PROVE Rivals'
  BY DEF RivalInv
<1> USE TwoPids, LockAssumption
    DEF TwoPids, LockTypeOK, Creator, Rivals, Running, Goto, At, Gone
<1>1. CASE UNCHANGED lockVars
  BY <1>1 DEF lockVars
<1>2. ASSUME NEW p \in Pids, Open(p) PROVE Rivals'
  BY <1>2 DEF Open
<1>3. ASSUME NEW p \in Pids, Write(p) PROVE Rivals'
  <2>1. /\ lock = p /\ pc[p] = "write" /\ hand[p] = "none"
        /\ lock' = lock /\ seen' = seen /\ stopped' = stopped /\ hand' = hand
    BY <1>3 DEF Write
  <2>2. \/ written' /\ pc' = [pc EXCEPT ![p] = "head"]
        \/ written' = written /\ pc' = [pc EXCEPT ![p] = "dead"]
    BY <1>3, <2>1, Zenon DEF Write
  <2>3. \A q \in Pids \ {p} : pc'[q] = pc[q] /\ ~(pc[q] \in Running /\ ~stopped[q])
    BY <2>1, <2>2
  <2>4. CASE written' /\ pc' = [pc EXCEPT ![p] = "head"]
    BY <2>1, <2>3, <2>4
  <2>5. CASE pc' = [pc EXCEPT ![p] = "dead"]
    BY <2>1, <2>3, <2>5
  <2>6. QED
    BY <2>2, <2>4, <2>5
<1>4. ASSUME NEW p \in Pids, Read(p) PROVE Rivals'
  BY <1>4 DEF Read
<1>5. ASSUME NEW p \in Pids, Probe(p) PROVE Rivals'
  BY <1>5 DEF Probe, Stale
<1>6. ASSUME NEW p \in Pids, Unlink(p) PROVE Rivals'
  BY <1>6 DEF Unlink
<1>7. ASSUME NEW p \in Pids, CycleHead(p) PROVE Rivals'
  BY <1>7 DEF CycleHead
<1>8. ASSUME NEW p \in Pids, Pulled(p) PROVE Rivals'
  BY <1>8 DEF Pulled
<1>9. ASSUME NEW p \in Pids, Ticked(p) PROVE Rivals'
  BY <1>9 DEF Ticked
<1>10. ASSUME NEW p \in Pids, Wake(p) PROVE Rivals'
  BY <1>10 DEF Wake
<1>11. ASSUME NEW p \in Pids, CheckOwn(p) PROVE Rivals'
  BY <1>11 DEF CheckOwn, Released, Own
<1>12. ASSUME NEW p \in Pids, UnlinkOwn(p) PROVE Rivals'
  BY <1>12 DEF UnlinkOwn, Released
<1>13. ASSUME NEW p \in Pids, Signal(p) PROVE Rivals'
  BY <1>13 DEF Signal, Awaits
<1>14. ASSUME NEW p \in Pids, Kill(p) PROVE Rivals'
  BY <1>14 DEF Kill
<1>15. QED
  BY <1>1, <1>2, <1>3, <1>4, <1>5, <1>6, <1>7, <1>8, <1>9, <1>10, <1>11,
     <1>12, <1>13, <1>14 DEF LockNext, Step

\* With one rival a daemon that nobody told to stop keeps its lock, whichever of
\* the two is killed, and whenever (tryAcquireDaemonLock's stale-lock recovery).
THEOREM RivalKeepsOut ==
    ASSUME TwoPids
    PROVE  LockSpec => []RunsUnderLock
<1>1. LockInit => Rivals
  BY LockAssumption DEF LockInit, Rivals, Running
<1>2. RivalInv /\ [LockNext]_lockVars => Rivals'
  BY RivalStep
<1>3. Rivals => RunsUnderLock
  BY DEF Rivals, RunsUnderLock
<1>4. LockSpec => []Rivals
  BY <1>1, <1>2, CreatorHolds, PTL DEF LockSpec, RivalInv
<1>5. QED
  BY <1>3, <1>4, PTL

\* Without an issue pull a daemon that was told to stop begins no other tick: it was
\* asleep, and looks at the flag when it wakes.
Unpulled == TRUE \notin Pulls
StopsFirst ==
    \A p \in Pids : pc[p] # "pull" /\ (stopped[p] => pc[p] \notin {"tick", "skip"})

LEMMA StopsFirstStep ==
    ASSUME Unpulled, LockTypeOK, StopsFirst, [LockNext]_lockVars
    PROVE  StopsFirst'
<1> USE DEF Unpulled, LockTypeOK, StopsFirst, Goto, At
<1>1. CASE UNCHANGED lockVars
  BY <1>1 DEF lockVars
<1>2. ASSUME NEW p \in Pids, Open(p) \/ Write(p) \/ Read(p) \/ Probe(p) \/ Unlink(p)
      PROVE  StopsFirst'
  BY <1>2 DEF Open, Write, Read, Probe, Unlink
<1>3. ASSUME NEW p \in Pids, CycleHead(p) PROVE StopsFirst'
  <2>1. \A due \in Pulls : ~ due
    BY LockAssumption
  <2>2. /\ UNCHANGED stopped
        /\ \E label \in {"exit", "tick", "skip"} :
              /\ pc' = [pc EXCEPT ![p] = label]
              /\ stopped[p] => label = "exit"
    BY <1>3, <2>1 DEF CycleHead
  <2>3. QED
    BY <2>2
<1>4. ASSUME NEW p \in Pids, Pulled(p) \/ Ticked(p) \/ Wake(p) PROVE StopsFirst'
  BY <1>4 DEF Pulled, Ticked, Wake
<1>5. ASSUME NEW p \in Pids, CheckOwn(p) \/ UnlinkOwn(p) PROVE StopsFirst'
  BY <1>5 DEF CheckOwn, UnlinkOwn, Released
<1>6. ASSUME NEW p \in Pids, Signal(p) PROVE StopsFirst'
  BY <1>6 DEF Signal, Awaits
<1>7. ASSUME NEW p \in Pids, Kill(p) PROVE StopsFirst'
  BY <1>7 DEF Kill
<1>8. QED
  BY <1>1, <1>2, <1>3, <1>4, <1>5, <1>6, <1>7 DEF LockNext, Step

\* Two daemons that pull no issues never tick the stories both at once, whichever is
\* killed or told to stop: it takes a signal during an issue pull, or a third
\* daemon, to break what autonomous-daemon.js:14-18 promises.
THEOREM UnpulledTickAlone ==
    ASSUME TwoPids, Unpulled
    PROVE  LockSpec => []OneTicker
<1>1. LockInit => StopsFirst
  BY DEF LockInit, StopsFirst
<1>2. LockTypeOK /\ StopsFirst /\ [LockNext]_lockVars => StopsFirst'
  BY StopsFirstStep
<1>3. RunsUnderLock /\ StopsFirst => OneTicker
  BY DEF RunsUnderLock, StopsFirst, OneTicker, Running
<1>4. LockSpec => []RunsUnderLock
  BY RivalKeepsOut
<1>5. QED
  BY <1>1, <1>2, <1>3, <1>4, LockTypeCorrect, PTL DEF LockSpec

-----------------------------------------------------------------------------
(* The approval records.                                                   *)

\* Decisions and consumptions work on existing files, requests follow a stop.
Backed ==
    /\ \A a \in Actors :
         /\ rec[a] # NoRecord => file[rec[a]] # "none"
         /\ at[a] = "store" => verdict[a] # "none"
         /\ at[a] = "create" => stops # 0
    /\ halted => stops # 0

LEMMA TypeInit == Init => TypeOK /\ Backed
<1> SUFFICES ASSUME Init PROVE TypeOK /\ Backed
  OBVIOUS
<1>1. 0 \in 0..MaxStops
  BY RecordAssumption
<1>2. TypeOK
  BY <1>1 DEF Init, TypeOK, Statuses
<1>3. Backed
  BY DEF Init, Backed
<1>4. QED
  BY <1>2, <1>3

LEMMA TypeStep ==
    TypeOK /\ Backed /\ [Next]_approvalVars => TypeOK' /\ Backed'
<1> SUFFICES ASSUME TypeOK, Backed, [Next]_approvalVars PROVE TypeOK' /\ Backed'
  OBVIOUS
<1> USE RecordAssumption DEF TypeOK, Backed, Approvable, Goes,
        recordVars, storyVars, jobVars, counts, Statuses
<1>1. CASE UNCHANGED approvalVars
  BY <1>1 DEF approvalVars
<1>2. ASSUME NEW a \in Actors, NEW r \in Records, DryRun(a, r) PROVE TypeOK' /\ Backed'
  BY <1>2 DEF DryRun
<1>3. ASSUME NEW a \in Actors, NEW r \in Records, Load(a, r) PROVE TypeOK' /\ Backed'
  BY <1>3 DEF Load, Settles, Outcomes, Judged
<1>4. ASSUME NEW a \in Actors, NEW r \in Records, CliLoad(a, r) PROVE TypeOK' /\ Backed'
  BY <1>4 DEF CliLoad, Settles, Outcomes, HashedOutcomes, Judged
<1>5. ASSUME NEW a \in Actors, NEW r \in Records, SweepLoad(a, r) PROVE TypeOK' /\ Backed'
  BY <1>5 DEF SweepLoad
<1>6. ASSUME NEW a \in Actors, Store(a) PROVE TypeOK' /\ Backed'
  BY <1>6 DEF Store, Writes
<1>7. ASSUME Stop PROVE TypeOK' /\ Backed'
  BY <1>7 DEF Stop
<1>8. ASSUME NEW a \in Actors, RequestCheck(a) PROVE TypeOK' /\ Backed'
  BY <1>8 DEF RequestCheck, IsStopped
<1>9. ASSUME NEW a \in Actors, NEW r \in Records, Create(a, r) PROVE TypeOK' /\ Backed'
  BY <1>9 DEF Create, Writes
<1>10. ASSUME Tick PROVE TypeOK' /\ Backed'
  BY <1>10 DEF Tick
<1>11. ASSUME NEW r \in Records, Lapse(r) PROVE TypeOK' /\ Backed'
  BY <1>11 DEF Lapse
<1>12. ASSUME NEW a \in Actors, NEW r \in Records, Find(a, r) PROVE TypeOK' /\ Backed'
  BY <1>12 DEF Find, IsStopped, Usable
<1>13. ASSUME NEW a \in Actors, Mark(a) PROVE TypeOK' /\ Backed'
  BY <1>13 DEF Mark, Writes
<1>14. ASSUME NEW a \in Actors, Rearm(a) PROVE TypeOK' /\ Backed'
  <2>1. rec[a] \in Records /\ used[rec[a]] + 1 \in Nat
    BY <1>14 DEF Rearm
  <2>2. used' \in [Records -> Nat]
    BY <1>14, <2>1 DEF Rearm
  <2>3. TypeOK'
    BY <1>14, <2>2 DEF Rearm
  <2>4. Backed'
    BY <1>14 DEF Rearm
  <2>5. QED
    BY <2>3, <2>4
<1>15. ASSUME NEW a \in Actors, Crash(a) PROVE TypeOK' /\ Backed'
  BY <1>15 DEF Crash
<1>16. QED
  BY <1>1, <1>2, <1>3, <1>4, <1>5, <1>6, <1>7, <1>8, <1>9, <1>10, <1>11,
     <1>12, <1>13, <1>14, <1>15 DEF Next, Decision, Resumption

LEMMA Typed == Spec => [](TypeOK /\ Backed)
  BY TypeInit, TypeStep, PTL DEF Spec

\* Types; a record is requested in a stop (requestResumeApproval), and an actor
\* names one exactly while it works on it.
THEOREM RecordsTyped == Spec => []TypeOK
  BY Typed, PTL

-----------------------------------------------------------------------------
(* One resume per request: a record that was asked for and is not spent has *)
(* a resume to its credit, and only one process consumes.                  *)

OneConsumer == \A a, b \in Consumers : a = b

Unspent(r) == IF requested[r] = 0 \/ r \in spent THEN 0 ELSE 1

Credit ==
    /\ \A r \in Records :
         /\ used[r] + Unspent(r) <= requested[r] + late[r]
         /\ file[r] # "none" => requested[r] # 0
         /\ file[r] = "approved" => r \notin spent
    /\ \A a \in Actors :
         /\ at[a] \in {"mark", "rearm"} => a \in Consumers
         /\ at[a] = "mark" => rec[a] \notin spent
         /\ at[a] = "rearm" =>
              used[rec[a]] + 1 + Unspent(rec[a]) <= requested[rec[a]] + late[rec[a]]

LEMMA CreditStep ==
    ASSUME OneConsumer, TypeOK, TypeOK', Backed, Credit, [Next]_approvalVars
    PROVE Credit'
<1> USE RecordAssumption DEF TypeOK, Backed, Credit, Unspent, OneConsumer, Goes,
        recordVars, storyVars, jobVars, counts, Statuses
<1>1. CASE UNCHANGED approvalVars
  BY <1>1 DEF approvalVars
<1>2. ASSUME NEW a \in Actors, NEW r \in Records, DryRun(a, r) PROVE Credit'
  BY <1>2 DEF DryRun
<1>3. ASSUME NEW a \in Actors, NEW r \in Records, Load(a, r) \/ CliLoad(a, r)
      PROVE Credit'
  BY <1>3 DEF Load, CliLoad, Settles
<1>4. ASSUME NEW a \in Actors, NEW r \in Records, SweepLoad(a, r) PROVE Credit'
  BY <1>4 DEF SweepLoad
<1>5. ASSUME NEW a \in Actors, Store(a) PROVE Credit'
  <2>1. rec[a] \in Records /\ requested[rec[a]] # 0
    BY <1>5 DEF Store
  <2>2. CASE Late(a)
    BY <1>5, <2>1, <2>2 DEF Store, Late, Writes
  <2>3. CASE ~Late(a)
    BY <1>5, <2>1, <2>3 DEF Store, Late, Writes
  <2>4. QED
    BY <2>2, <2>3
<1>6. ASSUME Stop PROVE Credit'
  BY <1>6 DEF Stop
<1>7. ASSUME NEW a \in Actors, RequestCheck(a) PROVE Credit'
  BY <1>7 DEF RequestCheck, IsStopped
<1>8. ASSUME NEW a \in Actors, NEW r \in Records, Create(a, r) PROVE Credit'
  BY <1>8 DEF Create, Writes
<1>9. ASSUME Tick PROVE Credit'
  BY <1>9 DEF Tick
<1>10. ASSUME NEW r \in Records, Lapse(r) PROVE Credit'
  BY <1>10 DEF Lapse
<1>11. ASSUME NEW a \in Actors, NEW r \in Records, Find(a, r) PROVE Credit'
  BY <1>11 DEF Find, IsStopped, Usable
<1>12. ASSUME NEW a \in Actors, Mark(a) PROVE Credit'
  BY <1>12 DEF Mark, Writes
<1>13. ASSUME NEW a \in Actors, Rearm(a) PROVE Credit'
  BY <1>13 DEF Rearm
<1>14. ASSUME NEW a \in Actors, Crash(a) PROVE Credit'
  BY <1>14 DEF Crash
<1>15. QED
  BY <1>1, <1>2, <1>3, <1>4, <1>5, <1>6, <1>7, <1>8, <1>9, <1>10, <1>11,
     <1>12, <1>13, <1>14 DEF Next, Decision, Resumption

\* However many people decide, a request is worth one resume as long as one
\* process consumes, but for the approvals that are written late
\* (consumeApprovedResume; approval-manager.js:126-163).
THEOREM RequestsCount == ASSUME OneConsumer PROVE Spec => []OneResumePerRequest
<1>1. Init => Credit
  BY RecordAssumption DEF Init, Credit, Unspent
<1>2. TypeOK /\ TypeOK' /\ Backed /\ Credit /\ [Next]_approvalVars => Credit'
  BY OneConsumer, CreditStep
<1>3. TypeOK /\ Credit => OneResumePerRequest
  BY DEF TypeOK, Credit, Unspent, OneResumePerRequest
<1>4. QED
  BY <1>1, <1>2, <1>3, Typed, PTL DEF Spec

-----------------------------------------------------------------------------
(* Refusals: only a decider writes one, and a decider that has read the    *)
(* record as approvable has not refused it meanwhile.                      *)

OneDecider == \A a, b \in Deciders : a = b

Unrefused ==
    \A a \in Actors :
        /\ at[a] = "load" => a \in Deciders
        /\ at[a] = "store" /\ verdict[a] # "expired" => a \in Deciders
        /\ at[a] = "store" /\ verdict[a] = "approved" =>
             file[rec[a]] \notin {"denied", "superseded"}

LEMMA UnrefusedStep ==
    ASSUME OneDecider, TypeOK, TypeOK', Unrefused, [Next]_approvalVars
    PROVE Unrefused'
<1> USE RecordAssumption DEF TypeOK, Unrefused, OneDecider, Approvable, Goes,
        recordVars, storyVars, jobVars, counts, Statuses
<1>1. CASE UNCHANGED approvalVars
  BY <1>1 DEF approvalVars
<1>2. ASSUME NEW a \in Actors, NEW r \in Records, DryRun(a, r) PROVE Unrefused'
  BY <1>2 DEF DryRun
<1>3. ASSUME NEW a \in Actors, NEW r \in Records, Load(a, r) PROVE Unrefused'
  BY <1>3 DEF Load, Settles, Outcomes, Judged
<1>4. ASSUME NEW a \in Actors, NEW r \in Records, CliLoad(a, r) PROVE Unrefused'
  BY <1>4 DEF CliLoad, Settles, Outcomes, HashedOutcomes, Judged
<1>5. ASSUME NEW a \in Actors, NEW r \in Records, SweepLoad(a, r) PROVE Unrefused'
  BY <1>5 DEF SweepLoad
<1>6. ASSUME NEW a \in Actors, Store(a) PROVE Unrefused'
  BY <1>6 DEF Store, Writes
<1>7. ASSUME Stop PROVE Unrefused'
  BY <1>7 DEF Stop
<1>8. ASSUME NEW a \in Actors, RequestCheck(a) PROVE Unrefused'
  BY <1>8 DEF RequestCheck, IsStopped
<1>9. ASSUME NEW a \in Actors, NEW r \in Records, Create(a, r) PROVE Unrefused'
  BY <1>9 DEF Create, Writes
<1>10. ASSUME Tick PROVE Unrefused'
  BY <1>10 DEF Tick
<1>11. ASSUME NEW r \in Records, Lapse(r) PROVE Unrefused'
  BY <1>11 DEF Lapse
<1>12. ASSUME NEW a \in Actors, NEW r \in Records, Find(a, r) PROVE Unrefused'
  BY <1>12 DEF Find, IsStopped, Usable
<1>13. ASSUME NEW a \in Actors, Mark(a) PROVE Unrefused'
  BY <1>13 DEF Mark, Writes
<1>14. ASSUME NEW a \in Actors, Rearm(a) PROVE Unrefused'
  BY <1>14 DEF Rearm
<1>15. ASSUME NEW a \in Actors, Crash(a) PROVE Unrefused'
  BY <1>15 DEF Crash
<1>16. QED
  BY <1>1, <1>2, <1>3, <1>4, <1>5, <1>6, <1>7, <1>8, <1>9, <1>10, <1>11,
     <1>12, <1>13, <1>14, <1>15 DEF Next, Decision, Resumption

LEMMA RefusalStep ==
    ASSUME TypeOK, Unrefused, [Next]_approvalVars, NEW q \in Records,
           file[q] \in {"denied", "superseded"}
    PROVE file'[q] # "approved"
<1> USE RecordAssumption DEF TypeOK, Unrefused, Goes,
        recordVars, storyVars, jobVars, counts, Statuses
<1>1. CASE UNCHANGED approvalVars
  BY <1>1 DEF approvalVars
<1>2. ASSUME NEW a \in Actors, NEW r \in Records, DryRun(a, r) PROVE file'[q] # "approved"
  BY <1>2 DEF DryRun
<1>3. ASSUME NEW a \in Actors, NEW r \in Records, Load(a, r) PROVE file'[q] # "approved"
  BY <1>3 DEF Load, Settles, Outcomes, Judged
<1>4. ASSUME NEW a \in Actors, NEW r \in Records, CliLoad(a, r) PROVE file'[q] # "approved"
  BY <1>4 DEF CliLoad, Settles, Outcomes, HashedOutcomes, Judged
<1>5. ASSUME NEW a \in Actors, NEW r \in Records, SweepLoad(a, r) PROVE file'[q] # "approved"
  BY <1>5 DEF SweepLoad
<1>6. ASSUME NEW a \in Actors, Store(a) PROVE file'[q] # "approved"
  BY <1>6 DEF Store, Writes
<1>7. ASSUME Stop PROVE file'[q] # "approved"
  BY <1>7 DEF Stop
<1>8. ASSUME NEW a \in Actors, RequestCheck(a) PROVE file'[q] # "approved"
  BY <1>8 DEF RequestCheck, IsStopped
<1>9. ASSUME NEW a \in Actors, NEW r \in Records, Create(a, r) PROVE file'[q] # "approved"
  BY <1>9 DEF Create, Writes
<1>10. ASSUME Tick PROVE file'[q] # "approved"
  BY <1>10 DEF Tick
<1>11. ASSUME NEW r \in Records, Lapse(r) PROVE file'[q] # "approved"
  BY <1>11 DEF Lapse
<1>12. ASSUME NEW a \in Actors, NEW r \in Records, Find(a, r) PROVE file'[q] # "approved"
  BY <1>12 DEF Find, IsStopped, Usable
<1>13. ASSUME NEW a \in Actors, Mark(a) PROVE file'[q] # "approved"
  BY <1>13 DEF Mark, Writes
<1>14. ASSUME NEW a \in Actors, Rearm(a) PROVE file'[q] # "approved"
  BY <1>14 DEF Rearm
<1>15. ASSUME NEW a \in Actors, Crash(a) PROVE file'[q] # "approved"
  BY <1>15 DEF Crash
<1>16. QED
  BY <1>1, <1>2, <1>3, <1>4, <1>5, <1>6, <1>7, <1>8, <1>9, <1>10, <1>11,
     <1>12, <1>13, <1>14, <1>15 DEF Next, Decision, Resumption

\* With one decider a refused record stays refused, whatever sweeps and
\* consumers write, until it is requested again (denyApproval, verifyApproval).
THEOREM RefusalsStand == ASSUME OneDecider PROVE Spec => RefusalStands
<1>1. Init => Unrefused
  BY DEF Init, Unrefused, Actors
<1>2. TypeOK /\ TypeOK' /\ Unrefused /\ [Next]_approvalVars => Unrefused'
  BY OneDecider, UnrefusedStep
<1>3. TypeOK /\ Unrefused /\ [Next]_approvalVars =>
        [\A r \in Records :
           file[r] \in {"denied", "superseded"} => file'[r] # "approved"]_approvalVars
  BY RefusalStep
<1>4. QED
  BY <1>1, <1>2, <1>3, RecordsTyped, PTL DEF Spec, RefusalStands
=============================================================================
