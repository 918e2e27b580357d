-------------------------- MODULE AiderResolverProofs --------------------------
(***************************************************************************)
(* What the CI resolver keeps for any number of runs, issues and rungs,    *)
(* however the runs of one issue overwrite each other's branch.            *)
(***************************************************************************)
EXTENDS AiderResolver, TLAPS

-----------------------------------------------------------------------------
(* What reaches the default branch.                                        *)

Trying == {"aider", "gate", "record"}
Delivering == {"push", "create", "review", "merge"}
Places == {"idle", "preflight", "select", "ended", "killed"} \cup Trying \cup Delivering

\* A run that is past its tests holds a work whose tests passed, a branch holds one
\* too, and what GitHub is asked to merge, or will be, is such a branch.
Green == passed \cup mixed
GreenInv ==
    /\ at \in [Runs -> Places]
    /\ issue \in [Runs -> Issues]
    /\ failure \in [Runs -> {"", "no_diff", "gate_failure"}]
    /\ DOMAIN work = Runs /\ DOMAIN tip = Issues /\ DOMAIN pr = Issues
    /\ \A r \in Runs :
          at[r] \in Delivering \/ (at[r] = "record" /\ failure[r] = "")
          => work[r] \in Green
    /\ \A i \in Issues :
          /\ tip[i] \in Green \cup {NoWork}
          /\ pr[i] \/ i \in auto => tip[i] \in Green
    /\ merged \subseteq Green

LEMMA GreenStarts == Init => GreenInv
  <1>1. (CHOOSE i \in Issues : TRUE) \in Issues
    BY ResolverAssumption
  <1> SUFFICES ASSUME Init PROVE GreenInv
    OBVIOUS
  <1>2. issue \in [Runs -> Issues]
    BY <1>1, Zenon DEF Init
  <1>3. \A i \in Issues : tip[i] = NoWork /\ ~ pr[i]
    BY DEF Init
  <1>4. /\ at = [r \in Runs |-> "idle"] /\ failure = [r \in Runs |-> ""]
        /\ DOMAIN work = Runs /\ DOMAIN tip = Issues /\ DOMAIN pr = Issues
        /\ auto = {} /\ merged = {}
    BY DEF Init
  <1>5. QED
    BY <1>2, <1>3, <1>4 DEF GreenInv, Places, Trying, Delivering

\* A run moves on, and neither its work nor what others see of it changes.
LEMMA GreenMove ==
    ASSUME GreenInv, NEW r \in Runs,
           NEW label \in Places,
           Goto(r, label), issue' = issue, failure' \in [Runs -> {"", "no_diff", "gate_failure"}],
           \A q \in Runs \ {r} : work'[q] = work[q] /\ failure'[q] = failure[q],
           DOMAIN work' = Runs, Green \subseteq Green',
           label \in Delivering \/ (label = "record" /\ failure'[r] = "") => work'[r] \in Green',
           UNCHANGED hubVars
    PROVE  GreenInv'
  <1>1. /\ at' = [at EXCEPT ![r] = label]
        /\ UNCHANGED <<tip, pr, auto, merged>>
    BY DEF Goto, hubVars
  <1>2. at' \in [Runs -> Places]
    BY <1>1 DEF GreenInv
  <1>3. ASSUME NEW q \in Runs,
               at'[q] \in Delivering \/ (at'[q] = "record" /\ failure'[q] = "")
        PROVE  work'[q] \in Green'
    <2>1. CASE q = r
      BY <1>1, <1>3, <2>1 DEF GreenInv
    <2>2. CASE q # r
      BY <1>1, <1>3, <2>2 DEF GreenInv
    <2>3. QED
      BY <2>1, <2>2
  <1>4. ASSUME NEW i \in Issues
        PROVE  /\ tip'[i] \in Green' \cup {NoWork}
               /\ pr'[i] \/ i \in auto' => tip'[i] \in Green'
    BY <1>1 DEF GreenInv
  <1>5. /\ merged' \subseteq Green' /\ issue' \in [Runs -> Issues]
        /\ DOMAIN tip' = Issues /\ DOMAIN pr' = Issues
    BY <1>1 DEF GreenInv
  <1>6. QED
    BY <1>2, <1>3, <1>4, <1>5 DEF GreenInv

\* The steps of a run before its outcome is recorded.
LEMMA GreenTries ==
    ASSUME GreenInv, NEW r \in Runs,
           Start(r) \/ CostCheck(r) \/ Select(r) \/ Aider(r) \/ Gate(r)
    PROVE  GreenInv'
  <1> USE DEF GreenInv, Goto, End, hubVars, Places, Trying, Delivering
  <1>1. CASE Start(r)
    BY <1>1 DEF Start, runVars, seenVars, Green
  <1>2. CASE CostCheck(r)
    BY <1>2 DEF CostCheck, runVars, seenVars, Green
  <1>3. CASE Select(r)
    <2>1. /\ UNCHANGED <<issue, failure, hubVars>> /\ Green' = Green
          /\ at' = [at EXCEPT ![r] = "aider"]
          /\ work' = work \/ work' = [work EXCEPT ![r] = NoWork]
      BY <1>3 DEF Select, Checkout, seenVars, Green
    <2>2. QED
      BY <2>1
  <1>4. CASE Aider(r)
    <2>1. /\ UNCHANGED <<issue, hubVars, Green>>
          /\ \/ Goto(r, "gate") /\ failure' = failure
             \/ Goto(r, "record") /\ failure' = [failure EXCEPT ![r] = "no_diff"]
          /\ work' = work \/ work' = [work EXCEPT ![r] = <<r, attempt[r]>>]
      BY <1>4 DEF Aider, Green
    <2>2. /\ \A q \in Runs \ {r} : work'[q] = work[q] /\ failure'[q] = failure[q]
          /\ DOMAIN work' = Runs /\ failure' \in [Runs -> {"", "no_diff", "gate_failure"}]
      BY <2>1
    <2>3. "gate" \in Places /\ "record" \in Places
      OBVIOUS
    <2>4. Goto(r, "gate") \/ (Goto(r, "record") /\ failure'[r] # "")
      BY <2>1
    <2> HIDE DEF GreenInv, Goto, Places, hubVars
    <2>5. QED
      BY <2>1, <2>2, <2>3, <2>4, GreenMove
  <1>5. CASE Gate(r)
    <2>1. PICK ok \in BOOLEAN :
             /\ failure' = [failure EXCEPT ![r] = AfterGate(ok)]
             /\ ok => work[r] \in Green'
             /\ Green \subseteq Green'
      BY <1>5 DEF Gate, Green
    <2>2. /\ UNCHANGED <<issue, hubVars, work>> /\ Goto(r, "record") /\ at[r] = "gate"
      BY <1>5 DEF Gate
    <2>3. /\ AfterGate(ok) \in {"", "gate_failure"} /\ (AfterGate(ok) = "" => ok)
      BY DEF AfterGate
    <2>4. /\ \A q \in Runs \ {r} : work'[q] = work[q] /\ failure'[q] = failure[q]
          /\ DOMAIN work' = Runs /\ failure' \in [Runs -> {"", "no_diff", "gate_failure"}]
          /\ failure'[r] = "" => work'[r] \in Green'
      BY <2>1, <2>2, <2>3
    <2>5. "record" \in Places /\ "record" \notin Delivering
      OBVIOUS
    <2> HIDE DEF GreenInv, Goto, Places, hubVars, Delivering
    <2>6. QED
      BY <2>1, <2>2, <2>4, <2>5, GreenMove
  <1>6. QED
    BY <1>1, <1>2, <1>3, <1>4, <1>5

\* The steps from the record of an outcome on.
LEMMA GreenDelivers ==
    ASSUME GreenInv, NEW r \in Runs,
           Recorded(r) \/ Push(r) \/ CreatePr(r) \/ Review(r) \/ Merge(r) \/ Killed(r)
    PROVE  GreenInv'
  <1> USE DEF GreenInv, Goto, End, Places, Trying, Delivering
  <1>1. CASE Recorded(r)
    <2>1. /\ at[r] = "record" /\ UNCHANGED <<issue, hubVars, Green>>
          /\ \/ /\ failure[r] = "" /\ Goto(r, "push") /\ failure' = [failure EXCEPT ![r] = ""]
                /\ UNCHANGED work
             \/ Goto(r, "select") /\ UNCHANGED <<failure, work>>
             \/ /\ Goto(r, "ended") /\ failure' = [failure EXCEPT ![r] = ""]
                /\ work' = [work EXCEPT ![r] = NoWork]
      BY <1>1 DEF Recorded, Forget, seenVars, Green
    <2>2. work[r] \in Green \/ failure[r] # ""
      BY <2>1
    <2>3. /\ \A q \in Runs \ {r} : work'[q] = work[q] /\ failure'[q] = failure[q]
          /\ DOMAIN work' = Runs /\ failure' \in [Runs -> {"", "no_diff", "gate_failure"}]
      BY <2>1
    <2>4. /\ {"push", "select", "ended"} \subseteq Places
          /\ \/ Goto(r, "push") /\ work'[r] \in Green'
             \/ Goto(r, "select") \/ Goto(r, "ended")
      BY <2>1, <2>2
    <2> HIDE DEF GreenInv, Goto, Places
    <2>5. QED
      BY <2>1, <2>3, <2>4, GreenMove
  <1>2. CASE Push(r)
    BY <1>2 DEF Push, runVars, seenVars, Green
  <1>3. CASE CreatePr(r)
    BY <1>3 DEF CreatePr, runVars, seenVars, Green
  <1>4. CASE Review(r)
    BY <1>4 DEF Review, runVars, hubVars, seenVars, Green
  <1>5. CASE Merge(r)
    <2>1. at' = [at EXCEPT ![r] = "ended"] /\ UNCHANGED <<issue, failure, work, Green>>
      BY <1>5 DEF Merge, runVars, seenVars, Green
    <2>2. tip[issue[r]] \in Green \/ ~ pr[issue[r]]
      OBVIOUS
    <2>3. CASE pr[issue[r]] /\ MergeBranch(issue[r])
      BY <2>1, <2>2, <2>3 DEF MergeBranch
    <2>4. CASE ~ (pr[issue[r]] /\ MergeBranch(issue[r]))
      <3>1. /\ UNCHANGED <<tip, pr, merged>>
            /\ auto' = auto \/ (pr[issue[r]] /\ auto' = auto \cup {issue[r]})
        BY <1>5, <2>4 DEF Merge, hubVars
      <3>2. QED
        BY <2>1, <2>2, <3>1
    <2>5. QED
      BY <2>3, <2>4
  <1>6. CASE Killed(r)
    BY <1>6 DEF Killed, Forget, hubVars, seenVars, Green
  <1>7. QED
    BY <1>1, <1>2, <1>3, <1>4, <1>5, <1>6

LEMMA GreenStep == GreenInv /\ [Next]_vars => GreenInv'
  <1> SUFFICES ASSUME GreenInv, [Next]_vars PROVE GreenInv'
    OBVIOUS
  <1>1. ASSUME NEW i \in Issues, AutoMerge(i) PROVE GreenInv'
    BY <1>1 DEF AutoMerge, MergeBranch, GreenInv, Green, Trying, Delivering, runVars, seenVars
  <1>2. CASE UNCHANGED vars
    BY <1>2 DEF vars, runVars, hubVars, seenVars, GreenInv, Green
  <1>3. QED
    BY <1>1, <1>2, GreenTries, GreenDelivers DEF Next, RunStep

\* What reaches the default branch is an attempt whose own tests passed in its
\* checkout, for any number of runs that share an issue's branch and pull request,
\* killed at any step (aider-resolver.yml).
THEOREM OnlyGreenMerges == Spec => []MergedGreen
  <1>1. GreenInv => MergedGreen
    BY DEF GreenInv, MergedGreen, Green
  <1>2. QED
    BY <1>1, GreenStarts, GreenStep, PTL DEF Spec

-----------------------------------------------------------------------------
(* When a run asks for a person.                                           *)

\* An attempt that may be a run's last is on the last rung, or has no rung at its
\* last turn, and a run that is past such an attempt's start is known for it.
Exhausts(r) == last[r] \/ attempt[r] + 1 >= MaxAttempts
Settled(r) == tier[r] = Top \/ (tier[r] = Unrouted /\ attempt[r] + 1 >= MaxAttempts)
Judged == topTried \cup unrouted

ClimbInv ==
    /\ at \in [Runs -> {"idle", "preflight", "select", "ended", "killed"}
                          \cup Trying \cup Delivering]
    /\ \A r \in Runs : failure[r] \notin TransientFailures
    /\ DOMAIN failure = Runs
    /\ attempt \in [Runs -> Nat] /\ tier \in [Runs -> Int] /\ last \in [Runs -> BOOLEAN]
    /\ DOMAIN reply = Runs
    /\ \A r \in Runs :
          /\ at[r] \in Trying /\ Exhausts(r) => Settled(r)
          /\ at[r] \in {"gate", "record"} /\ Settled(r) => r \in Judged
    /\ TopTried

\* The rung of an attempt: the ladder's, on which no failure of a run waits, or the
\* one the store recommends to the first attempt.
LEMMA RungOf ==
    ASSUME NEW x \in Signals, NEW n \in Nat, NEW f, f \notin TransientFailures,
           NEW s \in Selections(BaseTier(x), n, f)
    PROVE  /\ s.tier \in Tiers /\ s.last \in BOOLEAN
           /\ s.last \/ n >= Top => s.tier = Top
  <1> DEFINE from == BaseTier(x)
             wanted == WantedTier(from, n, f)
  <1> HIDE DEF from, wanted
  <1>1. from \in Tiers /\ Top \in Nat
    <2>1. CASE x = NoSignal
      <3>1. from = 0
        BY <2>1 DEF from, BaseTier
      <3>2. QED
        BY <3>1, RoutingAssumption DEF Tiers
    <2>2. CASE x # NoSignal
      <3>1. x \in 0..Top
        BY <2>2, RoutingAssumption
      <3>2. QED
        BY <2>2, <3>1, RoutingAssumption DEF from, BaseTier, Tiers
    <2>3. QED
      BY <2>1, <2>2
  <1>2. wanted = from + n
    BY <1>1 DEF wanted, WantedTier, Steps
  <1>3. CASE s = [tier |-> IF wanted > Top THEN Top ELSE wanted, last |-> wanted > Top]
    <2>1. s.tier = (IF wanted > Top THEN Top ELSE wanted) /\ s.last = (wanted > Top)
      BY <1>3
    <2>2. s.tier \in Tiers /\ s.last \in BOOLEAN
      BY <1>1, <1>2, <2>1 DEF Tiers
    <2>3. wanted > Top \/ n >= Top => s.tier = Top
      BY <1>1, <1>2, <2>1 DEF Tiers
    <2>4. QED
      BY <2>1, <2>2, <2>3
  <1>4. CASE n = 0 /\ \E m \in Learned(from) : s = [tier |-> m, last |-> FALSE]
    <2>1. PICK m \in Learned(from) : s = [tier |-> m, last |-> FALSE]
      BY <1>4
    <2>2. Learned(from) \subseteq Tiers
      BY DEF Learned
    <2>3. s.tier \in Tiers /\ s.last = FALSE
      BY <2>1, <2>2
    <2>4. n >= Top => Top = 0
      BY <1>1, <1>4
    <2>5. Top = 0 => s.tier = Top
      BY <2>3 DEF Tiers
    <2>6. QED
      BY <2>3, <2>4, <2>5
  <1>5. QED
    BY <1>3, <1>4 DEF from, wanted, Selections

\* A run has an attempt for every rung (aider-resolver.yml:144).
LongEnough == MaxAttempts > Top

LEMMA ClimbStarts == Init => ClimbInv
  <1> SUFFICES ASSUME Init PROVE ClimbInv
    OBVIOUS
  <1>1. /\ at = [r \in Runs |-> "idle"] /\ last = [r \in Runs |-> FALSE]
        /\ attempt = [r \in Runs |-> 0] /\ tier = [r \in Runs |-> 0]
        /\ DOMAIN failure = Runs /\ DOMAIN reply = Runs
    BY DEF Init
  <1>2. \A r \in Runs : failure[r] \notin TransientFailures /\ reply[r] # "asked"
    BY DEF Init, TransientFailures
  <1>3. QED
    BY <1>1, <1>2 DEF ClimbInv, TopTried, Trying, Delivering

\* The steps on the ladder.
LEMMA ClimbTries ==
    ASSUME ClimbInv, NEW r \in Runs, LongEnough,
           Select(r) \/ Aider(r) \/ Gate(r)
    PROVE  ClimbInv'
  <1>1. CASE Select(r)
    <2>1. /\ at' = [at EXCEPT ![r] = "aider"]
          /\ UNCHANGED <<attempt, failure, reply, topTried, unrouted>>
      BY <1>1 DEF Select, Goto, seenVars
    <2>2. attempt[r] \in Nat /\ failure[r] \notin TransientFailures
      BY DEF ClimbInv
    <2>3. CASE \E x \in Signals : \E s \in Selections(BaseTier(x), attempt[r], failure[r]) :
                  tier' = [tier EXCEPT ![r] = s.tier] /\ last' = [last EXCEPT ![r] = s.last]
      <3>1. PICK x \in Signals : \E s \in Selections(BaseTier(x), attempt[r], failure[r]) :
               tier' = [tier EXCEPT ![r] = s.tier] /\ last' = [last EXCEPT ![r] = s.last]
        BY <2>3
      <3>2. PICK s \in Selections(BaseTier(x), attempt[r], failure[r]) :
               tier' = [tier EXCEPT ![r] = s.tier] /\ last' = [last EXCEPT ![r] = s.last]
        BY <3>1
      <3>3. /\ s.tier \in Tiers /\ s.last \in BOOLEAN
            /\ s.last \/ attempt[r] >= Top => s.tier = Top
        BY <2>2, RungOf
      <3> DEFINE t == s.tier
                 l == s.last
      <3>4. /\ t \in Int /\ l \in BOOLEAN /\ (l \/ attempt[r] >= Top => t = Top)
            /\ tier' = [tier EXCEPT ![r] = t] /\ last' = [last EXCEPT ![r] = l]
        BY <3>2, <3>3, RoutingAssumption DEF Tiers
      <3> HIDE DEF t, l
      <3>5. attempt[r] + 1 >= MaxAttempts => attempt[r] >= Top
        BY <2>2, ResolverAssumption, RoutingAssumption DEF LongEnough
      <3>6. QED
        BY <2>1, <3>4, <3>5
        DEF ClimbInv, Exhausts, Settled, Judged, TopTried, Trying, Delivering
    <2>4. CASE tier' = [tier EXCEPT ![r] = Unrouted] /\ last' = [last EXCEPT ![r] = FALSE]
      BY <2>1, <2>4
      DEF ClimbInv, Exhausts, Settled, Judged, TopTried, Trying, Delivering, Unrouted
    <2>5. QED
      BY <1>1, <2>3, <2>4 DEF Select
  <1>2. CASE Aider(r)
    <2>1. /\ UNCHANGED <<attempt, tier, last, reply>> /\ at[r] = "aider"
          /\ \/ at' = [at EXCEPT ![r] = "gate"] /\ failure' = failure
             \/ at' = [at EXCEPT ![r] = "record"] /\ failure' = [failure EXCEPT ![r] = "no_diff"]
      BY <1>2 DEF Aider, Goto
    <2>2. Judged \subseteq Judged' /\ (Settled(r) => r \in Judged')
      BY <1>2 DEF Aider, Judged, Settled
    <2> HIDE DEF Judged
    <2>3. \A q \in Runs : Exhausts(q)' = Exhausts(q) /\ Settled(q)' = Settled(q)
      BY <2>1 DEF Exhausts, Settled
    <2>4. TopTried'
      BY <2>1, <2>2 DEF ClimbInv, TopTried, Judged
    <2>5. DOMAIN failure' = Runs /\ \A q \in Runs : failure'[q] \notin TransientFailures
      BY <2>1 DEF ClimbInv, TransientFailures
    <2>6. QED
      BY <2>1, <2>2, <2>3, <2>4, <2>5 DEF ClimbInv, Trying, Delivering
  <1>3. CASE Gate(r)
    BY <1>3 DEF Gate, AfterGate, Goto, ClimbInv, Exhausts, Settled, Judged, TopTried, Trying,
                Delivering, TransientFailures
  <1>4. QED
    BY <1>1, <1>2, <1>3

\* A run that leaves the ladder, having tried the top if it asks for a person.
LEMMA ClimbLeaves ==
    ASSUME ClimbInv, NEW r \in Runs, Forget(r), UNCHANGED <<topTried, unrouted>>,
           NEW step \in {"push", "ended", "killed"}, at' = [at EXCEPT ![r] = step],
           \/ UNCHANGED reply
           \/ r \in Judged /\ reply' = [reply EXCEPT ![r] = "asked"]
    PROVE  ClimbInv'
  <1>1. /\ attempt' = [attempt EXCEPT ![r] = 0] /\ tier' = [tier EXCEPT ![r] = 0]
        /\ last' = [last EXCEPT ![r] = FALSE]
    BY DEF Forget
  <1>2. DOMAIN failure' = Runs /\ \A q \in Runs : failure'[q] \notin TransientFailures
    BY DEF Forget, ClimbInv, TransientFailures
  <1>3. /\ attempt' \in [Runs -> Nat] /\ tier' \in [Runs -> Int] /\ last' \in [Runs -> BOOLEAN]
    BY <1>1 DEF ClimbInv
  <1>4. /\ at' \in [Runs -> {"idle", "preflight", "select", "ended", "killed"}
                               \cup Trying \cup Delivering]
        /\ DOMAIN reply' = Runs
    BY DEF ClimbInv, Trying, Delivering
  <1>5. ASSUME NEW q \in Runs
        PROVE  /\ at'[q] \in Trying /\ Exhausts(q)' => Settled(q)'
               /\ at'[q] \in {"gate", "record"} /\ Settled(q)' => q \in Judged'
    <2>1. CASE q = r
      BY <2>1, <1>4 DEF ClimbInv, Trying
    <2>2. CASE q # r
      BY <2>2, <1>1 DEF ClimbInv, Exhausts, Settled, Judged, Trying
    <2>3. QED
      BY <2>1, <2>2
  <1>6. TopTried'
    BY DEF ClimbInv, TopTried, Judged
  <1>7. QED
    BY <1>2, <1>3, <1>4, <1>5, <1>6 DEF ClimbInv

\* The outcome of an attempt: the next one, the push, or a person.
LEMMA ClimbRecords ==
    ASSUME ClimbInv, NEW r \in Runs, Recorded(r) PROVE ClimbInv'
  <1>1. at[r] = "record" /\ UNCHANGED <<topTried, unrouted>>
    BY DEF Recorded, seenVars
  <1>2. CASE at' = [at EXCEPT ![r] = "push"] /\ Forget(r) /\ UNCHANGED reply
    BY <1>1, <1>2, ClimbLeaves
  <1>3. CASE /\ ~ Exhausts(r) /\ at' = [at EXCEPT ![r] = "select"]
             /\ attempt' = [attempt EXCEPT ![r] = attempt[r] + 1]
             /\ UNCHANGED <<reply, tier, last, failure>>
    BY <1>1, <1>3 DEF ClimbInv, Exhausts, Settled, Judged, TopTried, Trying, Delivering
  <1>4. CASE /\ Exhausts(r) /\ at' = [at EXCEPT ![r] = "ended"]
             /\ reply' = [reply EXCEPT ![r] = "asked"] /\ Forget(r)
    <2>1. r \in Judged
      BY <1>1, <1>4 DEF ClimbInv, Trying
    <2>2. QED
      BY <1>1, <1>4, <2>1, ClimbLeaves
  <1>5. QED
    BY <1>2, <1>3, <1>4 DEF Recorded, Goto, End, Exhausts

\* The steps off the ladder.
LEMMA ClimbElsewhere ==
    ASSUME ClimbInv, NEW r \in Runs,
           Start(r) \/ CostCheck(r) \/ Push(r) \/ CreatePr(r) \/ Review(r) \/ Merge(r)
               \/ Killed(r)
    PROVE  ClimbInv'
  <1> USE DEF ClimbInv, Exhausts, Settled, Judged, TopTried, Trying, Delivering, Goto, End, runVars, seenVars
  <1>1. CASE Start(r)
    BY <1>1 DEF Start
  <1>2. CASE CostCheck(r)
    BY <1>2 DEF CostCheck
  <1>3. CASE Push(r)
    BY <1>3 DEF Push
  <1>4. CASE CreatePr(r)
    BY <1>4 DEF CreatePr
  <1>5. CASE Review(r)
    BY <1>5 DEF Review
  <1>6. CASE Merge(r)
    BY <1>6 DEF Merge
  <1>7. CASE Killed(r)
    BY <1>7, ClimbLeaves DEF Killed
  <1>8. QED
    BY <1>1, <1>2, <1>3, <1>4, <1>5, <1>6, <1>7

LEMMA ClimbStep == LongEnough /\ ClimbInv /\ [Next]_vars => ClimbInv'
  <1> SUFFICES ASSUME LongEnough, ClimbInv, [Next]_vars PROVE ClimbInv'
    OBVIOUS
  <1>1. ASSUME NEW i \in Issues, AutoMerge(i) PROVE ClimbInv'
    BY <1>1 DEF AutoMerge, ClimbInv, Exhausts, Settled, Judged, TopTried, runVars, seenVars
  <1>2. CASE UNCHANGED vars
    BY <1>2 DEF vars, runVars, seenVars, ClimbInv, Exhausts, Settled, Judged, TopTried
  <1>3. QED
    BY <1>1, <1>2, ClimbTries, ClimbRecords, ClimbElsewhere DEF Next, RunStep

\* A run asks for a person only after it ran the last rung, or had no model for its
\* last attempt, on a ladder of any length, whatever the classifier and the store
\* said at each attempt and however many runs record outcomes meanwhile
\* (aider-resolver.yml, ci-select-model.js).
THEOREM PersonAfterTop == ASSUME LongEnough PROVE Spec => []TopTried
  <1>1. ClimbInv => TopTried
    BY DEF ClimbInv
  <1>2. ClimbInv /\ [Next]_vars => ClimbInv'
    BY ClimbStep
  <1>3. QED
    BY <1>1, <1>2, ClimbStarts, PTL DEF Spec
-----------------------------------------------------------------------------
(* What a blocking review stops.                                           *)

\* No two runs are ever started for one issue.
Apart ==
    \A q, r \in Runs :
        at[q] # "idle" /\ at[r] # "idle" /\ issue[q] = issue[r] => q = r

WorksOf(r) == {r} \X Attempts

LEMMA WorksDiffer ==
    /\ \A r \in Runs : NoWork \notin WorksOf(r)
    /\ \A q, r \in Runs : WorksOf(q) \cap WorksOf(r) # {} => q = r
  BY DEF WorksOf, NoWork

\* A run that is past its agent holds a work of its own.
RunFits(r) ==
    /\ work[r] \in WorksOf(r) \cup {NoWork}
    /\ at[r] \in {"gate"} \cup Delivering \/ (at[r] = "record" /\ failure[r] = "")
       => work[r] # NoWork
    /\ reply[r] # "none" => at[r] = "ended"
    /\ reply[r] = "blocked" => work[r] # NoWork

\* A branch holds a work of the run that was started for its issue.
IssueFits(i) ==
    /\ tip[i] # NoWork =>
         \E r \in Runs : issue[r] = i /\ at[r] # "idle" /\ tip[i] \in WorksOf(r)
    /\ pr[i] => tip[i] # NoWork

\* GitHub waits with a merge for a run that said so, and a merged work is of a run
\* that said that.
AwaitedFits(i) ==
    i \in auto => pr[i] /\ \E r \in Runs : issue[r] = i /\ reply[r] = "pending"
MergedFits(w) ==
    w \in merged => \E r \in Runs : w \in WorksOf(r) /\ reply[r] \in {"pending", "merged"}

OwnWorkInv ==
    /\ DOMAIN reply = Runs /\ attempt \in [Runs -> Attempts]
    /\ auto \subseteq Issues
    /\ \A r \in Runs : RunFits(r)
    /\ \A i \in Issues : IssueFits(i) /\ AwaitedFits(i)
    /\ \A w : MergedFits(w)

\* The steps that leave branches, pull requests and what is merged alone.
LEMMA OwnWorkMove ==
    ASSUME GreenInv, OwnWorkInv, NEW r \in Runs,
           UNCHANGED hubVars,
           NEW label, label # "idle", at' = [at EXCEPT ![r] = label],
           issue' = issue \/ (at[r] = "idle" /\ \E i \in Issues : issue' = [issue EXCEPT ![r] = i]),
           attempt' \in [Runs -> Attempts],
           DOMAIN work' = Runs /\ DOMAIN failure' = Runs,
           \A q \in Runs \ {r} : work'[q] = work[q] /\ failure'[q] = failure[q],
           work'[r] \in WorksOf(r) \cup {NoWork},
           label \in {"gate"} \cup Delivering \/ (label = "record" /\ failure'[r] = "")
              => work'[r] # NoWork,
           at[r] # "ended",
           \/ reply' = reply
           \/ /\ label = "ended"
              /\ \E words : /\ reply' = [reply EXCEPT ![r] = words]
                            /\ words = "blocked" => work'[r] # NoWork
    PROVE  OwnWorkInv'
  <1>1. reply[r] = "none" /\ UNCHANGED <<tip, pr, auto, merged>>
    BY DEF OwnWorkInv, RunFits, hubVars
  <1>2. at'[r] = label /\ \A q \in Runs \ {r} : at'[q] = at[q]
    BY DEF GreenInv
  <1>3. /\ DOMAIN reply' = Runs
        /\ \A q \in Runs \ {r} : reply'[q] = reply[q]
        /\ reply' = reply \/ (label = "ended" /\ (reply'[r] = "blocked" => work'[r] # NoWork))
    <2>1. DOMAIN reply = Runs
      BY DEF OwnWorkInv
    <2>2. CASE reply' = reply
      BY <2>1, <2>2
    <2>3. CASE label = "ended" /\ \E words : /\ reply' = [reply EXCEPT ![r] = words]
                                             /\ words = "blocked" => work'[r] # NoWork
      <3>1. PICK words : /\ reply' = [reply EXCEPT ![r] = words]
                         /\ words = "blocked" => work'[r] # NoWork
        BY <2>3
      <3>2. DOMAIN reply' = Runs /\ reply'[r] = words /\ \A q \in Runs \ {r} : reply'[q] = reply[q]
        BY <2>1, <3>1
      <3>3. QED
        BY <2>3, <3>1, <3>2
    <2>4. QED
      BY <2>2, <2>3
  <1>4. \A q \in Runs : at[q] # "idle" => issue'[q] = issue[q]
    BY DEF GreenInv
  <1>5. ASSUME NEW q \in Runs PROVE RunFits(q)'
    <2>1. CASE q = r
      BY <1>1, <1>2, <1>3, <2>1 DEF RunFits
    <2>2. CASE q # r
      <3>1. /\ at'[q] = at[q] /\ reply'[q] = reply[q] /\ work'[q] = work[q]
            /\ failure'[q] = failure[q]
        BY <1>2, <1>3, <2>2
      <3>2. RunFits(q)
        BY DEF OwnWorkInv
      <3>3. QED
        BY <3>1, <3>2 DEF RunFits
    <2>3. QED
      BY <2>1, <2>2
  <1>6. ASSUME NEW i \in Issues PROVE IssueFits(i)'
    <2>1. IssueFits(i)
      BY DEF OwnWorkInv
    <2>2. \A q \in Runs : at[q] # "idle" => issue'[q] = issue[q] /\ at'[q] # "idle"
      BY <1>2, <1>4
    <2>3. QED
      BY <1>1, <2>1, <2>2 DEF IssueFits
  <1>7. ASSUME NEW i \in Issues, i \in auto
        PROVE  pr[i] /\ \E q \in Runs : issue'[q] = i /\ reply'[q] = "pending"
    <2>1. AwaitedFits(i)
      BY DEF OwnWorkInv
    <2>2. PICK q \in Runs : issue[q] = i /\ reply[q] = "pending"
      BY <1>7, <2>1 DEF AwaitedFits
    <2>3. RunFits(q) /\ q # r
      BY <1>1, <2>2 DEF OwnWorkInv
    <2>4. at[q] # "idle" /\ reply'[q] = "pending"
      BY <1>3, <2>2, <2>3 DEF RunFits
    <2>5. issue'[q] = i
      BY <1>4, <2>2, <2>4
    <2>6. QED
      BY <1>7, <2>1, <2>4, <2>5 DEF AwaitedFits
  <1>8. ASSUME NEW w PROVE MergedFits(w)'
    <2>1. MergedFits(w)
      BY DEF OwnWorkInv
    <2>2. \A q \in Runs : reply[q] \in {"pending", "merged"} => reply'[q] = reply[q]
      BY <1>1, <1>3
    <2>3. QED
      BY <1>1, <2>1, <2>2 DEF MergedFits
  <1>9. QED
    <2>1. /\ attempt' \in [Runs -> Attempts] /\ DOMAIN reply' = Runs
          /\ auto' \subseteq Issues
      BY <1>1, <1>3 DEF OwnWorkInv
    <2>2. \A i \in Issues : AwaitedFits(i)'
      BY <1>1, <1>7 DEF AwaitedFits
    <2>3. QED
      BY <1>5, <1>6, <1>8, <2>1, <2>2 DEF OwnWorkInv

LEMMA OwnWorkTries ==
    ASSUME GreenInv, OwnWorkInv, NEW r \in Runs,
           \/ Start(r) \/ CostCheck(r) \/ Select(r) \/ Aider(r) \/ Gate(r)
           \/ Recorded(r) \/ Review(r) \/ Killed(r)
    PROVE  OwnWorkInv'
  <1>1. at[r] # "ended"
    BY DEF Start, CostCheck, Select, Aider, Gate, Recorded, Review, Killed
  <1>2. 0 \in Attempts /\ \A n \in Attempts : n + 1 < MaxAttempts => n + 1 \in Attempts
    BY ResolverAssumption DEF Attempts
  <1>3. /\ attempt \in [Runs -> Attempts] /\ DOMAIN work = Runs /\ DOMAIN failure = Runs
        /\ work[r] \in WorksOf(r) \cup {NoWork}
        /\ at[r] \in {"gate"} \cup Delivering \/ (at[r] = "record" /\ failure[r] = "")
           => work[r] # NoWork
    BY DEF OwnWorkInv, RunFits, GreenInv
  <1>4. CASE Start(r)
    <2>1. /\ UNCHANGED <<hubVars, attempt, work, failure, reply>>
          /\ at' = [at EXCEPT ![r] = "preflight"]
          /\ at[r] = "idle" /\ \E i \in Issues : issue' = [issue EXCEPT ![r] = i]
      BY <1>4 DEF Start, Goto, End, runVars, seenVars
    <2>2. QED
      BY <1>1, <1>3, <2>1, OwnWorkMove DEF Delivering
  <1>5. CASE CostCheck(r)
    <2>1. /\ UNCHANGED <<hubVars, issue, attempt, work, failure>>
          /\ \/ at' = [at EXCEPT ![r] = "ended"] /\ reply' = [reply EXCEPT ![r] = "halted"]
             \/ at' = [at EXCEPT ![r] = "select"] /\ reply' = reply
      BY <1>5 DEF CostCheck, Goto, End, runVars, seenVars
    <2>2. CASE at' = [at EXCEPT ![r] = "ended"] /\ reply' = [reply EXCEPT ![r] = "halted"]
      <3>1. \E words : reply' = [reply EXCEPT ![r] = words] /\ words # "blocked"
        <4>1. reply' = [reply EXCEPT ![r] = "halted"] /\ "halted" # "blocked"
          BY <2>2
        <4>2. QED
          <5> WITNESS "halted"
          <5>1. QED
            BY <4>1
      <3>2. QED
        BY <1>1, <1>3, <2>1, <2>2, <3>1, OwnWorkMove DEF Delivering
    <2>3. CASE at' = [at EXCEPT ![r] = "select"] /\ reply' = reply
      BY <1>1, <1>3, <2>1, <2>3, OwnWorkMove DEF Delivering
    <2>4. QED
      BY <2>1, <2>2, <2>3
  <1>6. CASE Select(r)
    <2>1. /\ UNCHANGED <<hubVars, issue, attempt, failure, reply>>
          /\ at' = [at EXCEPT ![r] = "aider"]
          /\ work' = work \/ work' = [work EXCEPT ![r] = NoWork]
      BY <1>6 DEF Select, Checkout, Goto, End, runVars, seenVars
    <2>2. CASE work' = work
      BY <1>1, <1>3, <2>1, <2>2, OwnWorkMove DEF Delivering
    <2>3. CASE work' = [work EXCEPT ![r] = NoWork]
      BY <1>1, <1>3, <2>1, <2>3, OwnWorkMove DEF Delivering
    <2>4. QED
      BY <2>1, <2>2, <2>3
  <1>7. CASE Aider(r)
    <2>1. /\ UNCHANGED <<hubVars, issue, attempt, reply>>
          /\ work' \in {work, [work EXCEPT ![r] = <<r, attempt[r]>>]}
          /\ \/ /\ at' = [at EXCEPT ![r] = "gate"] /\ failure' = failure
                /\ work'[r] # NoWork
             \/ /\ at' = [at EXCEPT ![r] = "record"]
                /\ failure' = [failure EXCEPT ![r] = "no_diff"]
      BY <1>7 DEF Aider, Goto, End, runVars, seenVars
    <2>2. <<r, attempt[r]>> \in WorksOf(r)
      BY <1>3 DEF WorksOf
    <2>3. /\ DOMAIN work' = Runs /\ \A q \in Runs \ {r} : work'[q] = work[q]
          /\ work'[r] \in WorksOf(r) \cup {NoWork}
      BY <1>3, <2>1, <2>2
    <2>4. CASE /\ at' = [at EXCEPT ![r] = "gate"] /\ failure' = failure
               /\ work'[r] # NoWork
      <3>1. DOMAIN failure' = Runs /\ \A q \in Runs \ {r} : failure'[q] = failure[q]
        BY <1>3, <2>4
      <3>2. QED
        BY <1>1, <1>3, <2>1, <2>3, <2>4, <3>1, OwnWorkMove
    <2>5. CASE /\ at' = [at EXCEPT ![r] = "record"]
               /\ failure' = [failure EXCEPT ![r] = "no_diff"]
      <3>1. /\ DOMAIN failure' = Runs /\ \A q \in Runs \ {r} : failure'[q] = failure[q]
            /\ failure'[r] # ""
        BY <1>3, <2>5
      <3>2. QED
        BY <1>1, <1>3, <2>1, <2>3, <2>5, <3>1, OwnWorkMove DEF Delivering
    <2>6. QED
      BY <2>1, <2>4, <2>5
  <1>8. CASE Gate(r)
    <2>1. /\ UNCHANGED <<hubVars, issue, attempt, work, reply>> /\ at[r] = "gate"
          /\ at' = [at EXCEPT ![r] = "record"]
          /\ \E f : failure' = [failure EXCEPT ![r] = f]
      BY <1>8 DEF Gate, Goto, End, runVars, seenVars
    <2>2. QED
      BY <1>1, <1>3, <2>1, OwnWorkMove DEF Delivering
  <1>9. CASE Recorded(r)
    <2>1. /\ UNCHANGED <<hubVars, issue>> /\ at[r] = "record"
          /\ \/ /\ failure[r] = "" /\ at' = [at EXCEPT ![r] = "push"]
                /\ UNCHANGED <<reply, work>> /\ Forget(r)
             \/ /\ attempt[r] + 1 < MaxAttempts /\ at' = [at EXCEPT ![r] = "select"]
                /\ attempt' = [attempt EXCEPT ![r] = attempt[r] + 1]
                /\ UNCHANGED <<reply, failure, work>>
             \/ /\ at' = [at EXCEPT ![r] = "ended"] /\ Forget(r)
                /\ reply' = [reply EXCEPT ![r] = "asked"]
                /\ work' = [work EXCEPT ![r] = NoWork]
      <3>1. ~ (attempt[r] + 1 >= MaxAttempts) => attempt[r] + 1 < MaxAttempts
        <4>1. attempt[r] \in Attempts /\ MaxAttempts \in Nat
          BY <1>3, ResolverAssumption
        <4>2. QED
          BY <4>1 DEF Attempts
      <3>2. QED
        BY <1>9, <3>1 DEF Recorded, Goto, End
    <2>2. Forget(r) => /\ attempt' \in [Runs -> Attempts]
                       /\ failure' = [failure EXCEPT ![r] = ""]
      <3>1. [attempt EXCEPT ![r] = 0] \in [Runs -> Attempts]
        BY <1>2, <1>3
      <3>2. QED
        BY <3>1 DEF Forget
    <2>3. CASE /\ attempt[r] + 1 < MaxAttempts /\ at' = [at EXCEPT ![r] = "select"]
               /\ attempt' = [attempt EXCEPT ![r] = attempt[r] + 1]
               /\ UNCHANGED <<reply, failure, work>>
      <3>1. attempt' \in [Runs -> Attempts]
        BY <1>2, <1>3, <2>3
      <3>2. QED
        BY <1>1, <1>3, <2>1, <2>3, <3>1, OwnWorkMove DEF Delivering
    <2>4. CASE /\ failure[r] = "" /\ at' = [at EXCEPT ![r] = "push"]
               /\ UNCHANGED <<reply, work>> /\ Forget(r)
      BY <1>1, <1>3, <2>1, <2>2, <2>4, OwnWorkMove
    <2>5. CASE /\ at' = [at EXCEPT ![r] = "ended"] /\ Forget(r)
               /\ reply' = [reply EXCEPT ![r] = "asked"]
               /\ work' = [work EXCEPT ![r] = NoWork]
      <3>1. \E words : reply' = [reply EXCEPT ![r] = words] /\ words # "blocked"
        <4>1. reply' = [reply EXCEPT ![r] = "asked"] /\ "asked" # "blocked"
          BY <2>5
        <4>2. QED
          <5> WITNESS "asked"
          <5>1. QED
            BY <4>1
      <3>2. QED
        BY <1>1, <1>3, <2>1, <2>2, <2>5, <3>1, OwnWorkMove DEF Delivering
    <2>6. QED
      BY <2>1, <2>3, <2>4, <2>5
  <1>10. CASE Review(r)
    <2>1. /\ UNCHANGED <<hubVars, issue, attempt, work, failure>> /\ at[r] = "review"
          /\ \/ at' = [at EXCEPT ![r] = "merge"] /\ reply' = reply
             \/ at' = [at EXCEPT ![r] = "ended"] /\ reply' = [reply EXCEPT ![r] = "blocked"]
      BY <1>10 DEF Review, Goto, End, runVars, seenVars
    <2>2. QED
      BY <1>1, <1>3, <2>1, OwnWorkMove DEF Delivering
  <1>11. CASE Killed(r)
    <2>1. /\ UNCHANGED <<hubVars, issue, reply>> /\ at' = [at EXCEPT ![r] = "killed"]
          /\ work' = [work EXCEPT ![r] = NoWork]
          /\ attempt' = [attempt EXCEPT ![r] = 0] /\ failure' = [failure EXCEPT ![r] = ""]
      BY <1>11 DEF Killed, Forget, Goto
    <2>2. attempt' \in [Runs -> Attempts]
      BY <1>2, <1>3, <2>1
    <2>3. QED
      BY <1>1, <1>3, <2>1, <2>2, OwnWorkMove DEF Delivering
  <1>12. QED
    BY <1>4, <1>5, <1>6, <1>7, <1>8, <1>9, <1>10, <1>11

\* The merge of an issue's branch, by its run or for it.
LEMMA OwnWorkMerges ==
    ASSUME GreenInv, OwnWorkInv, NEW i \in Issues, NEW r \in Runs,
           MergeBranch(i), tip[i] \in WorksOf(r),
           UNCHANGED <<issue, attempt, work, failure>>,
           \A q \in Runs \ {r} : at'[q] = at[q] /\ reply'[q] = reply[q],
           at'[r] = "ended", reply'[r] \in {"pending", "merged"}, DOMAIN reply' = Runs,
           \A j \in auto \ {i} : ~ (issue[r] = j /\ reply[r] = "pending")
    PROVE  OwnWorkInv'
  <1>1. /\ tip' = [tip EXCEPT ![i] = NoWork] /\ pr' = [pr EXCEPT ![i] = FALSE]
        /\ auto' = auto \ {i} /\ merged' = merged \cup {tip[i]}
    BY DEF MergeBranch
  <1>2. \A j \in Issues : (j = i => tip'[j] = NoWork /\ ~ pr'[j])
                          /\ (j # i => tip'[j] = tip[j] /\ pr'[j] = pr[j])
    BY <1>1 DEF GreenInv
  <1>3. \A q \in Runs : at[q] # "idle" => at'[q] # "idle"
    OBVIOUS
  <1>4. ASSUME NEW q \in Runs PROVE RunFits(q)'
    <2>1. RunFits(q)
      BY DEF OwnWorkInv
    <2>2. CASE q = r
      <3>1. at'[q] = "ended" /\ reply'[q] \in {"pending", "merged"} /\ work'[q] = work[q]
        BY <2>2
      <3>2. QED
        BY <2>1, <3>1 DEF RunFits, Delivering
    <2>3. CASE q # r
      <3>1. at'[q] = at[q] /\ reply'[q] = reply[q] /\ work'[q] = work[q] /\ failure'[q] = failure[q]
        BY <2>3
      <3>2. QED
        BY <2>1, <3>1 DEF RunFits
    <2>4. QED
      BY <2>2, <2>3
  <1>5. ASSUME NEW j \in Issues PROVE IssueFits(j)'
    <2>1. IssueFits(j)
      BY DEF OwnWorkInv
    <2>2. CASE j = i
      BY <1>2, <2>2 DEF IssueFits
    <2>3. CASE j # i
      <3>1. tip'[j] = tip[j] /\ pr'[j] = pr[j]
        BY <1>2, <2>3
      <3>2. QED
        BY <1>3, <2>1, <3>1 DEF IssueFits
    <2>4. QED
      BY <2>2, <2>3
  <1>6. ASSUME NEW j \in Issues PROVE AwaitedFits(j)'
    <2>1. AwaitedFits(j)
      BY DEF OwnWorkInv
    <2>2. SUFFICES ASSUME j \in auto, j # i PROVE AwaitedFits(j)'
      BY <1>1 DEF AwaitedFits
    <2>3. PICK q \in Runs : issue[q] = j /\ reply[q] = "pending"
      BY <2>1, <2>2 DEF AwaitedFits
    <2>4. q # r
      BY <2>2, <2>3
    <2>5. pr'[j]
      BY <1>2, <2>1, <2>2 DEF AwaitedFits
    <2>6. issue'[q] = j /\ reply'[q] = "pending"
      BY <2>3, <2>4
    <2>7. QED
      BY <2>5, <2>6 DEF AwaitedFits
  <1>7. ASSUME NEW w PROVE MergedFits(w)'
    <2>1. MergedFits(w)
      BY DEF OwnWorkInv
    <2>2. \A q \in Runs : reply[q] \in {"pending", "merged"} => reply'[q] \in {"pending", "merged"}
      OBVIOUS
    <2>3. QED
      BY <1>1, <2>1, <2>2 DEF MergedFits
  <1>8. attempt' \in [Runs -> Attempts] /\ auto' \subseteq Issues
    BY <1>1 DEF OwnWorkInv
  <1>9. QED
    BY <1>4, <1>5, <1>6, <1>7, <1>8 DEF OwnWorkInv

LEMMA OwnWorkDelivers ==
    ASSUME GreenInv, OwnWorkInv, Apart, NEW r \in Runs,
           Push(r) \/ CreatePr(r) \/ Merge(r)
    PROVE  OwnWorkInv'
  <1> DEFINE i == issue[r]
  <1>1. i \in Issues /\ RunFits(r) /\ IssueFits(i)
    BY DEF GreenInv, OwnWorkInv
  \* Neither a push nor a new pull request ends the run.
  <1>2. ASSUME NEW label \in Delivering, at' = [at EXCEPT ![r] = label],
               at[r] \in Delivering,
               UNCHANGED <<issue, attempt, work, failure, reply, auto, merged>>,
               \A j \in Issues : IssueFits(j)',
               \A j \in Issues : pr[j] => pr'[j]
        PROVE  OwnWorkInv'
    <2>1. \A q \in Runs : at'[q] = IF q = r THEN label ELSE at[q]
      BY <1>2 DEF GreenInv
    <2>2. ASSUME NEW q \in Runs PROVE RunFits(q)'
      <3>1. RunFits(q)
        BY DEF OwnWorkInv
      <3>2. CASE q = r
        BY <1>2, <2>1, <3>1, <3>2 DEF RunFits, Delivering
      <3>3. CASE q # r
        BY <1>2, <2>1, <3>1, <3>3 DEF RunFits
      <3>4. QED
        BY <3>2, <3>3
    <2>3. \A j \in Issues : AwaitedFits(j)'
      BY <1>2 DEF OwnWorkInv, AwaitedFits
    <2>4. \A w : MergedFits(w)'
      BY <1>2 DEF OwnWorkInv, MergedFits
    <2>5. QED
      BY <1>2, <2>2, <2>3, <2>4 DEF OwnWorkInv
  <1>3. CASE Push(r)
    <2>1. /\ at[r] = "push" /\ at' = [at EXCEPT ![r] = "create"]
          /\ UNCHANGED <<issue, attempt, work, failure, reply, pr, auto, merged>>
          /\ tip' \in {tip, [tip EXCEPT ![i] = work[r]]}
      BY <1>3 DEF Push, Goto, runVars, seenVars
    <2>2. work[r] # NoWork /\ work[r] \in WorksOf(r)
      BY <1>1, <2>1 DEF RunFits, Delivering
    <2>3. \A q \in Runs : at[q] # "idle" \/ q = r => at'[q] # "idle"
      BY <2>1 DEF GreenInv
    <2>4. \A j \in Issues : tip'[j] = tip[j] \/ (j = i /\ tip'[j] = work[r])
      BY <2>1 DEF GreenInv
    <2>5. ASSUME NEW j \in Issues PROVE IssueFits(j)'
      <3>1. IssueFits(j) /\ UNCHANGED <<issue, pr>>
        BY <2>1 DEF OwnWorkInv
      <3>2. CASE tip'[j] = tip[j]
        BY <2>3, <3>1, <3>2 DEF IssueFits
      <3>3. CASE j = i /\ tip'[j] = work[r]
        BY <2>2, <2>3, <3>1, <3>3 DEF IssueFits
      <3>4. QED
        BY <2>4, <3>2, <3>3
    <2>6. QED
      BY <1>2, <2>1, <2>5 DEF Delivering
  <1>4. CASE CreatePr(r)
    <2>1. /\ at[r] = "create" /\ at' = [at EXCEPT ![r] = "review"]
          /\ UNCHANGED <<issue, attempt, work, failure, reply, tip, auto, merged>>
          /\ pr' = pr \/ (tip[i] # NoWork /\ pr' = [pr EXCEPT ![i] = TRUE])
      BY <1>4 DEF CreatePr, Goto, runVars, seenVars
    <2>2. \A q \in Runs : at[q] # "idle" => at'[q] # "idle"
      BY <2>1 DEF GreenInv
    <2>3. \A j \in Issues : pr'[j] = pr[j] \/ (j = i /\ pr'[j] /\ tip[j] # NoWork)
      BY <2>1 DEF GreenInv
    <2>4. ASSUME NEW j \in Issues PROVE IssueFits(j)'
      <3>1. IssueFits(j) /\ UNCHANGED <<issue, tip>>
        BY <2>1 DEF OwnWorkInv
      <3>2. QED
        BY <2>2, <2>3, <3>1 DEF IssueFits
    <2>5. QED
      BY <1>2, <2>1, <2>3, <2>4 DEF Delivering
  <1>5. CASE Merge(r)
    <2>1. /\ at[r] = "merge" /\ at' = [at EXCEPT ![r] = "ended"]
          /\ UNCHANGED <<issue, attempt, work, failure>>
          /\ \/ /\ pr[i] /\ auto' = auto \cup {i} /\ reply' = [reply EXCEPT ![r] = "pending"]
                /\ UNCHANGED <<tip, pr, merged>>
             \/ pr[i] /\ MergeBranch(i) /\ reply' = [reply EXCEPT ![r] = "merged"]
             \/ reply' = [reply EXCEPT ![r] = "unmerged"] /\ UNCHANGED hubVars
      BY <1>5 DEF Merge, Goto, End, runVars, seenVars
    <2>2. reply[r] = "none" /\ DOMAIN reply = Runs
      BY <1>1, <2>1 DEF RunFits, OwnWorkInv
    <2>3. \A q \in Runs : (at'[q] = IF q = r THEN "ended" ELSE at[q])
      BY <2>1 DEF GreenInv
    <2>4. CASE /\ pr[i] /\ auto' = auto \cup {i} /\ reply' = [reply EXCEPT ![r] = "pending"]
               /\ UNCHANGED <<tip, pr, merged>>
      <3>1. /\ DOMAIN reply' = Runs
            /\ \A q \in Runs : reply'[q] = IF q = r THEN "pending" ELSE reply[q]
        BY <2>2, <2>4
      <3>2. ASSUME NEW q \in Runs PROVE RunFits(q)'
        <4>1. RunFits(q) /\ work'[q] = work[q] /\ failure'[q] = failure[q]
          BY <2>1 DEF OwnWorkInv
        <4>2. CASE q = r
          <5>1. at'[q] = "ended" /\ reply'[q] = "pending"
            BY <2>3, <3>1, <4>2
          <5>2. QED
            BY <4>1, <5>1 DEF RunFits, Delivering
        <4>3. CASE q # r
          <5>1. at'[q] = at[q] /\ reply'[q] = reply[q]
            BY <2>3, <3>1, <4>3
          <5>2. QED
            BY <4>1, <5>1 DEF RunFits
        <4>4. QED
          BY <4>2, <4>3
      <3>3. ASSUME NEW j \in Issues PROVE IssueFits(j)' /\ AwaitedFits(j)'
        <4>1. /\ IssueFits(j) /\ AwaitedFits(j) /\ UNCHANGED <<issue, tip, pr>>
              /\ \A q \in Runs : at[q] # "idle" => at'[q] # "idle"
          BY <2>1, <2>3, <2>4 DEF OwnWorkInv
        <4>2. IssueFits(j)'
          BY <4>1 DEF IssueFits
        <4>3. CASE j = i
          BY <2>4, <3>1, <4>1, <4>2, <4>3 DEF AwaitedFits
        <4>4. CASE j # i
          <5>1. \A q \in Runs : reply[q] = "pending" => reply'[q] = "pending"
            BY <3>1
          <5>2. QED
            BY <2>4, <4>1, <4>2, <4>4, <5>1 DEF AwaitedFits
        <4>5. QED
          BY <4>2, <4>3, <4>4
      <3>4. ASSUME NEW w PROVE MergedFits(w)'
        <4>1. MergedFits(w) /\ merged' = merged
          BY <2>4 DEF OwnWorkInv
        <4>2. \A q \in Runs : reply[q] \in {"pending", "merged"} =>
                 reply'[q] \in {"pending", "merged"}
          BY <3>1
        <4>3. QED
          BY <4>1, <4>2 DEF MergedFits
      <3>5. attempt' \in [Runs -> Attempts] /\ auto' \subseteq Issues
        BY <1>1, <2>1, <2>4 DEF OwnWorkInv
      <3>6. QED
        BY <3>1, <3>2, <3>3, <3>4, <3>5 DEF OwnWorkInv
    <2>5. CASE pr[i] /\ MergeBranch(i) /\ reply' = [reply EXCEPT ![r] = "merged"]
      <3>1. tip[i] \in WorksOf(r)
        BY <1>1, <2>1, <2>5 DEF IssueFits, Apart
      <3>2. /\ DOMAIN reply' = Runs
            /\ \A q \in Runs : reply'[q] = IF q = r THEN "merged" ELSE reply[q]
        BY <2>2, <2>5
      <3>3. /\ \A q \in Runs \ {r} : at'[q] = at[q] /\ reply'[q] = reply[q]
            /\ at'[r] = "ended" /\ reply'[r] \in {"pending", "merged"}
        BY <2>3, <3>2
      <3>4. QED
        BY <1>1, <2>1, <2>2, <2>5, <3>1, <3>2, <3>3, OwnWorkMerges
    <2>6. CASE reply' = [reply EXCEPT ![r] = "unmerged"] /\ UNCHANGED hubVars
      <3>1. /\ attempt' \in [Runs -> Attempts] /\ DOMAIN work' = Runs /\ DOMAIN failure' = Runs
            /\ work'[r] \in WorksOf(r) \cup {NoWork}
        BY <1>1, <2>1 DEF OwnWorkInv, RunFits, GreenInv
      <3>2. QED
        BY <2>1, <2>6, <3>1, OwnWorkMove DEF Delivering
    <2>7. QED
      BY <2>1, <2>4, <2>5, <2>6
  <1>6. QED
    BY <1>3, <1>4, <1>5

LEMMA OwnWorkStep == GreenInv /\ OwnWorkInv /\ Apart /\ [Next]_vars => OwnWorkInv'
  <1> SUFFICES ASSUME GreenInv, OwnWorkInv, Apart, [Next]_vars PROVE OwnWorkInv'
    OBVIOUS
  <1>1. ASSUME NEW i \in Issues, AutoMerge(i) PROVE OwnWorkInv'
    <2>1. /\ i \in auto /\ MergeBranch(i)
          /\ UNCHANGED <<at, issue, attempt, work, failure, reply>>
      BY <1>1 DEF AutoMerge, runVars
    <2>2. PICK r \in Runs : issue[r] = i /\ reply[r] = "pending"
      BY <2>1 DEF OwnWorkInv, AwaitedFits
    <2>3. RunFits(r) /\ IssueFits(i) /\ AwaitedFits(i)
      BY DEF OwnWorkInv
    <2>4. at[r] = "ended" /\ tip[i] # NoWork
      BY <2>1, <2>2, <2>3 DEF RunFits, IssueFits, AwaitedFits
    <2>5. tip[i] \in WorksOf(r)
      BY <2>2, <2>3, <2>4 DEF IssueFits, Apart
    <2>6. DOMAIN reply' = Runs
      BY <2>1 DEF OwnWorkInv
    <2>7. QED
      BY <2>1, <2>2, <2>4, <2>5, <2>6, OwnWorkMerges
  <1>2. CASE UNCHANGED vars
    <2>1. /\ UNCHANGED <<at, issue, attempt, failure, work, reply>>
          /\ UNCHANGED <<tip, pr, auto, merged>>
      BY <1>2 DEF vars, runVars, hubVars
    <2>2. \A r \in Runs : RunFits(r)'
      BY <2>1 DEF OwnWorkInv, RunFits
    <2>3. \A i \in Issues : IssueFits(i)' /\ AwaitedFits(i)'
      BY <2>1 DEF OwnWorkInv, IssueFits, AwaitedFits
    <2>4. \A w : MergedFits(w)'
      BY <2>1 DEF OwnWorkInv, MergedFits
    <2>5. QED
      BY <2>1, <2>2, <2>3, <2>4 DEF OwnWorkInv
  <1>3. QED
    BY <1>1, <1>2, OwnWorkTries, OwnWorkDelivers DEF Next, RunStep

\* A block of the review keeps a work off the default branch for good, as the
\* workflow says ("never merges", aider-resolver.yml), as long as no second run is
\* ever started for the issue: with one, also when the first has long ended, the
\* property is false.
THEOREM BlockedStaysOut == Spec /\ []Apart => []NeverMergeBlocked
  <1>1. Init => OwnWorkInv
    <2>1. 0 \in Attempts
      BY ResolverAssumption DEF Attempts
    <2>2. SUFFICES ASSUME Init PROVE OwnWorkInv
      OBVIOUS
    <2>3. /\ at = [r \in Runs |-> "idle"] /\ reply = [r \in Runs |-> "none"]
          /\ attempt = [r \in Runs |-> 0] /\ work = [r \in Runs |-> NoWork]
          /\ tip = [i \in Issues |-> NoWork] /\ pr = [i \in Issues |-> FALSE]
          /\ auto = {} /\ merged = {}
      BY <2>2 DEF Init
    <2>4. QED
      BY <2>1, <2>3
      DEF OwnWorkInv, RunFits, IssueFits, AwaitedFits, MergedFits, Delivering
  <1>2. OwnWorkInv => NeverMergeBlocked
    BY WorksDiffer DEF OwnWorkInv, RunFits, MergedFits, NeverMergeBlocked
  <1>3. QED
    BY <1>1, <1>2, GreenStarts, GreenStep, OwnWorkStep, PTL DEF Spec
=============================================================================
