---------------------------- MODULE DispatchProofs ----------------------------
(***************************************************************************)
(* What one dispatch after another leaves behind: the candidate and the    *)
(* worktree of a story with the daemon as the only dispatcher, and what a  *)
(* day can cost with any number of /ralph tick processes beside it.        *)
(***************************************************************************)
EXTENDS Dispatch, FoldLemmas

Steps == {"idle", "clear", "add", "checkout", "agent", "capture", "write",
          "destroy", "record", "settle", "fallback"}

-----------------------------------------------------------------------------
(* The invariants.                                                         *)

MoneyTyped ==
    /\ at \in [Tickers -> Steps]
    /\ cost \in [Tickers -> 0..Dear]
    /\ calls \in 0..CallsPerCycle
    /\ since \in [Tickers -> 1..Days]
    /\ spent \in [1..Days -> Nat]
    /\ day \in 1..Days

\* A dispatch that is admitted and has not been charged yet.
Owing == {t \in Tickers : at[t] \notin {"idle", "settle", "fallback"}}
OwingGuests == [d \in 1..Days |-> {g \in Guests : g \in Owing /\ since[g] = d}]

\* The calls that may still be entered for day d.
DaemonCalls == calls + (IF Daemon \in Owing THEN 1 ELSE 0)
Open == [d \in 1..Days |-> (IF since[Daemon] = d THEN DaemonCalls ELSE 0)
                           + Cardinality(OwingGuests[d])]

SpendInv ==
    /\ DaemonCalls <= CallsPerCycle
    /\ \A d \in 1..Days :
         spent[d] + Dear * Open[d]
           <= Cap + Dear * (CallsPerCycle + Cardinality(Guests))

\* A review, and what it enters in the ledger.
Reviews == \E n \in 0..ReviewCalls, c \in 1..Dear, entered \in BOOLEAN : Review(n, c, entered)

\* The worktree of a story is gone, or its removal failed.
Gone(s) == (~dir[s] /\ reg[s] = "none") \/ s \in left

\* Reasons that come of a dispatch which had its worktree.
Ran == {"none", "opencode_kimi_runtime_timeout", "opencode_kimi_runtime_failed",
        "candidate_patch_unrequested_path"} \cup Eligible

\* The daemon's dispatch of story s, step by step: the worktree is its own from
\* the add to the destroy, and so is what was taken from it.
DispatchFits(s) ==
    /\ phase[s] = "OPENCODE_RUNNING"
    /\ at[Daemon] \in {"checkout", "agent"} => dir[s] /\ edits[s] = {}
    /\ at[Daemon] = "capture" => edits[s] \subseteq {id[Daemon]}
    /\ at[Daemon] \in {"agent", "capture", "write", "destroy"} =>
         dir[s] /\ reg[s] = "registered"
    /\ at[Daemon] \in {"record", "settle"} /\ reason[Daemon] \in Ran => Gone(s)
    /\ at[Daemon] = "write" /\ reason[Daemon] = "none" => got[Daemon] = {id[Daemon]}
    /\ at[Daemon] \in {"destroy", "record", "settle"} /\ reason[Daemon] = "none" =>
         patch[s] = {id[Daemon]}
    /\ at[Daemon] = "fallback" =>
         patch[s] = {FALLBACK} /\ Gone(s)

DispatchInv ==
    /\ at[Daemon] # "idle" => DispatchFits(on[Daemon])
    /\ got[Daemon] \subseteq {id[Daemon]}
    /\ \A s \in Stories : ~dir[s] => edits[s] = {}
    /\ PreviewOwn
    /\ NoStrayWorktree

\* A call is unrecorded from the agent's run to the ledger's entry.
Unrecorded == {t \in Tickers : at[t] \in {"capture", "write", "destroy", "record"}}

LedgerInv ==
    /\ paid \in Nat /\ crashes \in Nat /\ lost \in Nat
    /\ \A t \in Tickers : cost[t] # 0 => t \in Unrecorded
    /\ LedgerComplete

\* A run of the agent is counted as an attempt when the dispatch has failed.
Counting(s) ==
    IF phase[s] = "OPENCODE_RUNNING"
    THEN tries[s] + (IF on[Daemon] = s /\ at[Daemon] \in {"capture", "write", "destroy",
                                        "record", "settle", "fallback"} THEN 1 ELSE 0)
    ELSE Attempts

RunsInv == \A s \in Stories : ran[s] <= Counting(s) + crashes

-----------------------------------------------------------------------------
(* Money.                                                                  *)

LEMMA ReviewEnters ==
    ASSUME MoneyTyped, Reviews
    PROVE  \E e \in 0..Dear, n \in 0..ReviewCalls, c \in 1..Dear :
             /\ calls > 0 /\ calls' = calls - 1
             /\ since[Daemon] \in 1..Days /\ e \in Nat
             /\ spent' = [spent EXCEPT ![since[Daemon]] = @ + e]
             /\ paid' = paid + n * c
             /\ \/ e = 0 /\ lost' = lost + n
                \/ e = c /\ n > 0 /\ lost' = lost + n - 1
             /\ lost' <= MaxLost
             /\ UNCHANGED <<storyVars, patch, treeVars, at, jobVars, since, ran, clockVars>>
  <1>1. PICK n \in 0..ReviewCalls, c \in 1..Dear, entered \in BOOLEAN : Review(n, c, entered)
    BY DEF Reviews
  <1>2. since[Daemon] \in 1..Days /\ c \in 0..Dear /\ c \in Nat /\ 0 \in 0..Dear
    BY DispatchAssumption DEF MoneyTyped, Tickers
  <1>3. spent = [spent EXCEPT ![since[Daemon]] = @ + 0]
    BY <1>2 DEF MoneyTyped
  <1>4. CASE entered
    BY <1>1, <1>2, <1>4 DEF Review
  <1>5. CASE ~entered
    <2>1. /\ calls > 0 /\ calls' = calls - 1 /\ paid' = paid + n * c
          /\ lost' = lost + n /\ lost' <= MaxLost /\ spent' = spent
          /\ UNCHANGED <<storyVars, patch, treeVars, at, jobVars, since, ran, clockVars>>
      BY <1>1, <1>5 DEF Review
    <2>2. QED
      BY <1>2, <1>3, <2>1
  <1>6. QED
    BY <1>4, <1>5

\* A ticker's step changes its own place only.
LEMMA StepMoney ==
    ASSUME MoneyTyped, NEW t \in Tickers, Works(t) \/ Crash(t)
    PROVE  MoneyTyped'
  <1>1. CASE \E s \in Stories : Begin(t, s)
    <2>1. PICK s \in Stories : Begin(t, s)
      BY <1>1
    <2>2. /\ \E label \in {"settle", "clear"} : at' = [at EXCEPT ![t] = label]
          /\ UNCHANGED <<cost, spent, day>>
      BY <2>1 DEF Begin, Refused, Admitted, Goes, moneyVars, clockVars
    <2>3. calls' \in 0..CallsPerCycle
      BY <2>1, DispatchAssumption DEF Begin, MoneyTyped
    <2>4. since' \in [Tickers -> 1..Days]
      BY <2>1 DEF Begin, MoneyTyped
    <2>5. at' \in [Tickers -> Steps]
      BY <2>2 DEF MoneyTyped, Steps
    <2>6. QED
      BY <2>2, <2>3, <2>4, <2>5 DEF MoneyTyped
  <1>2. CASE Clear(t) \/ Add(t) \/ Checkout(t) \/ Capture(t) \/ WritePatch(t) \/ Destroy(t)
    BY <1>2
    DEF Clear, Add, Checkout, Capture, WritePatch, Destroy, Goes, MoneyTyped,
        Steps, jobVars, cycleVars, moneyVars, clockVars
  <1>3. CASE \E c \in 1..Dear : Agent(t, c)
    BY <1>3, DispatchAssumption DEF Agent, Goes, MoneyTyped, Steps, cycleVars, clockVars
  <1>4. CASE Record(t)
    BY <1>4, DispatchAssumption
    DEF Record, Charge, Goes, MoneyTyped, Steps, cycleVars, clockVars
  <1>5. CASE Succeed(t) \/ TakeFallback(t) \/ Fail(t) \/ Crash(t)
    <2>1. /\ at' = [at EXCEPT ![t] = "idle"] /\ cost' = [cost EXCEPT ![t] = 0]
          /\ calls' \in {calls, 0} /\ UNCHANGED <<since, spent, day>>
      BY <1>5
      DEF Succeed, TakeFallback, Fail, Crash, Done, Goes, cycleVars, moneyVars,
          clockVars
    <2>2. QED
      BY <2>1, DispatchAssumption DEF MoneyTyped, Steps
  <1>6. CASE WriteFallback(t)
    BY <1>6
    DEF WriteFallback, Goes, MoneyTyped, Steps, jobVars, cycleVars, moneyVars, clockVars
  <1>7. QED
    BY <1>1, <1>2, <1>3, <1>4, <1>5, <1>6 DEF Works

LEMMA NextMoney == MoneyTyped /\ [Next]_dispatchVars => MoneyTyped'
  <1> SUFFICES ASSUME MoneyTyped, [Next]_dispatchVars PROVE MoneyTyped'
    OBVIOUS
  <1>1. CASE StartCycle \/ EndCycle \/ Midnight
    <2>1. CASE StartCycle
      <3>1. /\ calls' = CallsPerCycle /\ since' = [since EXCEPT ![Daemon] = day]
            /\ UNCHANGED <<at, cost, spent, day>>
        BY <2>1 DEF StartCycle, jobVars, moneyVars, clockVars
      <3>2. calls' \in 0..CallsPerCycle
        BY <3>1, DispatchAssumption
      <3>3. QED
        BY <3>1, <3>2 DEF MoneyTyped
    <2>2. CASE EndCycle
      BY <2>2, DispatchAssumption DEF EndCycle, MoneyTyped, jobVars, moneyVars, clockVars
    <2>3. CASE Midnight
      BY <2>3, DispatchAssumption
      DEF Midnight, MoneyTyped, jobVars, cycleVars, moneyVars
    <2>4. QED
      BY <1>1, <2>1, <2>2, <2>3
  <1>2. CASE Reviews
    <2>2. PICK e \in 0..Dear :
            /\ calls > 0 /\ calls' = calls - 1
            /\ since[Daemon] \in 1..Days /\ e \in Nat
            /\ spent' = [spent EXCEPT ![since[Daemon]] = @ + e]
            /\ UNCHANGED <<at, jobVars, since, clockVars>>
      BY <1>2, ReviewEnters
    <2>4. spent' \in [1..Days -> Nat]
      BY <2>2 DEF MoneyTyped
    <2>5. calls' \in 0..CallsPerCycle
      BY <2>2, DispatchAssumption DEF MoneyTyped
    <2>6. QED
      BY <2>2, <2>4, <2>5 DEF MoneyTyped, jobVars, clockVars
  <1>3. CASE UNCHANGED dispatchVars
    BY <1>3 DEF dispatchVars, jobVars, cycleVars, moneyVars, clockVars, MoneyTyped
  <1>4. QED
    BY <1>1, <1>2, <1>3, StepMoney DEF Next, Reviews

LEMMA Calls ==
    ASSUME NEW a \in Nat, NEW b \in Nat
    PROVE  /\ a <= b => Dear * a <= Dear * b
           /\ a + 1 <= b => Dear * a + Dear <= Dear * b
           /\ Dear * a \in Nat
  <1>1. Dear \in Nat
    BY DispatchAssumption
  <1>2. a + 1 <= b => Dear * (a + 1) <= Dear * b /\ Dear * (a + 1) = Dear * a + Dear
    BY <1>1
  <1>3. QED
    BY <1>1, <1>2

LEMMA DaemonCallsType == MoneyTyped => DaemonCalls \in Nat
  <1>1. MoneyTyped => calls \in Nat
    BY DispatchAssumption DEF MoneyTyped
  <1>2. QED
    BY <1>1 DEF DaemonCalls

OpenFits ==
    /\ DaemonCalls \in Nat /\ Cardinality(Guests) \in Nat
    /\ \A d \in 1..Days :
         /\ IsFiniteSet(OwingGuests[d])
         /\ Open[d] \in Nat
         /\ DaemonCalls <= CallsPerCycle
              => Open[d] <= CallsPerCycle + Cardinality(Guests)

LEMMA OpenBound == MoneyTyped => OpenFits
  <1> SUFFICES ASSUME MoneyTyped
               PROVE  OpenFits
    OBVIOUS
  <1>2. DaemonCalls \in Nat /\ CallsPerCycle \in Nat
    BY DispatchAssumption, DaemonCallsType
  <1>4. Cardinality(Guests) \in Nat
    BY DispatchAssumption, FS_CardinalityType
  <1>5. ASSUME NEW d \in 1..Days
        PROVE  /\ IsFiniteSet(OwingGuests[d])
               /\ Open[d] \in Nat
               /\ DaemonCalls <= CallsPerCycle
                    => Open[d] <= CallsPerCycle + Cardinality(Guests)
    <2>1. /\ IsFiniteSet(OwingGuests[d]) /\ Cardinality(OwingGuests[d]) \in Nat
          /\ Cardinality(OwingGuests[d]) <= Cardinality(Guests)
      BY DispatchAssumption, FS_Subset, FS_CardinalityType DEF OwingGuests
    <2>2. QED
      BY <1>2, <1>4, <2>1 DEF Open
  <1>6. QED
    BY <1>2, <1>4, <1>5 DEF OpenFits

LEMMA OpenBoundNext == MoneyTyped' => OpenFits'
  BY OpenBound, PTL

\* What both sides of a step may use.
LEMMA OpenParts ==
    ASSUME MoneyTyped, MoneyTyped'
    PROVE  /\ DaemonCalls \in Nat /\ DaemonCalls' \in Nat /\ calls \in Nat
           /\ CallsPerCycle \in Nat /\ Cap \in Nat /\ Dear \in Nat
           /\ \A d \in 1..Days :
                /\ IsFiniteSet(OwingGuests[d])
                /\ Cardinality(OwingGuests[d]) \in Nat
                /\ Cardinality(OwingGuests'[d]) \in Nat
                /\ Open[d] = (IF since[Daemon] = d THEN DaemonCalls ELSE 0)
                             + Cardinality(OwingGuests[d])
                /\ Open'[d] = (IF since'[Daemon] = d THEN DaemonCalls' ELSE 0)
                              + Cardinality(OwingGuests'[d])
  <1>1. OpenFits /\ OpenFits'
    BY OpenBound, OpenBoundNext
  <1>2. /\ CallsPerCycle \in Nat /\ Cap \in Nat /\ Dear \in Nat
    BY DispatchAssumption
  <1>3. calls \in Nat
    BY <1>2 DEF MoneyTyped
  <1>4. \A d \in 1..Days : IsFiniteSet(OwingGuests[d]) /\ IsFiniteSet(OwingGuests'[d])
    BY <1>1 DEF OpenFits
  <1>5. \A d \in 1..Days : /\ Cardinality(OwingGuests[d]) \in Nat
                           /\ Cardinality(OwingGuests'[d]) \in Nat
    BY <1>4, FS_CardinalityType
  <1>6. DaemonCalls \in Nat /\ DaemonCalls' \in Nat
    BY <1>1 DEF OpenFits
  <1>7. /\ \A d \in 1..Days :
             Open[d] = (IF since[Daemon] = d THEN DaemonCalls ELSE 0)
                         + Cardinality(OwingGuests[d])
        /\ \A d \in 1..Days :
             Open'[d] = (IF since'[Daemon] = d THEN DaemonCalls' ELSE 0)
                          + Cardinality(OwingGuests'[d])
    BY DEF Open
  <1>8. QED
    BY <1>2, <1>3, <1>4, <1>5, <1>6, <1>7

\* Fewer owe: the calls that may still be entered do not grow.
LEMMA OpenFalls ==
    ASSUME MoneyTyped, MoneyTyped', NEW d \in 1..Days,
           \/ since'[Daemon] # d
           \/ since'[Daemon] = since[Daemon] /\ DaemonCalls' <= DaemonCalls,
           OwingGuests'[d] \subseteq OwingGuests[d]
    PROVE  Open'[d] <= Open[d]
  <1>1. IsFiniteSet(OwingGuests[d])
    BY OpenBound DEF OpenFits
  <1>4. DaemonCalls \in Nat /\ DaemonCalls' \in Nat
    BY OpenBound, OpenBoundNext DEF OpenFits
  <1>2. /\ Cardinality(OwingGuests[d]) \in Nat /\ Cardinality(OwingGuests'[d]) \in Nat
        /\ Cardinality(OwingGuests'[d]) <= Cardinality(OwingGuests[d])
    BY <1>1, FS_Subset, FS_CardinalityType
  <1>3. /\ Open'[d] = (IF since'[Daemon] = d THEN DaemonCalls' ELSE 0)
                        + Cardinality(OwingGuests'[d])
        /\ Open[d] = (IF since[Daemon] = d THEN DaemonCalls ELSE 0)
                       + Cardinality(OwingGuests[d])
    BY DEF Open
  <1>5. QED
    BY <1>2, <1>3, <1>4

LEMMA SpendStep ==
    ASSUME MoneyTyped, MoneyTyped', SpendInv, DaemonCalls' <= CallsPerCycle,
           \A d \in 1..Days :
              \/ spent'[d] = spent[d] /\ Open'[d] <= Open[d]
              \/ spent'[d] <= spent[d] + Dear /\ Open'[d] + 1 <= Open[d]
              \/ spent'[d] <= Cap
    PROVE  SpendInv'
  <1> SUFFICES ASSUME NEW d \in 1..Days
               PROVE  spent'[d] + Dear * Open'[d]
                        <= Cap + Dear * (CallsPerCycle + Cardinality(Guests))
    BY DEF SpendInv
  <1> DEFINE K == CallsPerCycle + Cardinality(Guests)
             n == Open[d]
             m == Open'[d]
  <1>1. /\ n \in Nat /\ m \in Nat /\ K \in Nat /\ m <= K
        /\ spent[d] \in Nat /\ spent'[d] \in Nat
        /\ Cap \in Nat /\ Dear \in Nat
    <2>1. Open[d] \in Nat /\ Cardinality(Guests) \in Nat
      BY OpenBound DEF OpenFits
    <2>2. /\ Open'[d] \in Nat
          /\ Open'[d] <= CallsPerCycle + Cardinality(Guests)
      BY OpenBoundNext DEF OpenFits
    <2>3. spent[d] \in Nat /\ spent'[d] \in Nat
      BY DEF MoneyTyped
    <2>4. CallsPerCycle \in Nat /\ Cap \in Nat /\ Dear \in Nat
      BY DispatchAssumption
    <2>5. QED
      BY <2>1, <2>2, <2>3, <2>4
  <1>2. /\ m <= K => Dear * m <= Dear * K
        /\ m <= n => Dear * m <= Dear * n
        /\ m + 1 <= n => Dear * m + Dear <= Dear * n
        /\ Dear * m \in Nat /\ Dear * n \in Nat /\ Dear * K \in Nat
    <2> HIDE DEF K, n, m
    <2> QED
      BY <1>1, Calls
  <1>3. spent[d] + Dear * n <= Cap + Dear * K
    BY DEF SpendInv
  <1>4. \/ spent'[d] = spent[d] /\ m <= n
        \/ spent'[d] <= spent[d] + Dear /\ m + 1 <= n
        \/ spent'[d] <= Cap
    OBVIOUS
  <1> HIDE DEF K, n, m
  <1>5. spent'[d] + Dear * m <= Cap + Dear * K
    BY <1>1, <1>2, <1>3, <1>4
  <1>6. QED
    BY <1>5 DEF K, m

\* A ticker whose place alone changes, and not to one where it owes more.
LEMMA OtherGuests ==
    ASSUME MoneyTyped, NEW t \in Tickers, NEW label,
           at' = [at EXCEPT ![t] = label],
           label \in {"idle", "settle", "fallback"} \/ t \in Owing,
           UNCHANGED since, NEW d \in 1..Days
    PROVE  /\ OwingGuests'[d] \subseteq OwingGuests[d]
           /\ calls' <= calls /\ calls \in Nat /\ calls' \in Nat
                => DaemonCalls' <= DaemonCalls
  <1>1. \A g \in Tickers : g \in Owing' => g \in Owing
    BY DEF Owing, MoneyTyped
  <1>2. Daemon \in Tickers /\ Guests \subseteq Tickers
    BY DEF Tickers
  <1>3. OwingGuests'[d] \subseteq OwingGuests[d]
    BY <1>1, <1>2 DEF OwingGuests
  <1>4. QED
    BY <1>1, <1>2, <1>3 DEF DaemonCalls

LEMMA QuietStepSpend ==
    ASSUME MoneyTyped, MoneyTyped', SpendInv, NEW t \in Tickers,
           \/ Clear(t) \/ Add(t) \/ Checkout(t) \/ \E c \in 1..Dear : Agent(t, c)
           \/ Capture(t) \/ WritePatch(t) \/ Destroy(t)
           \/ Succeed(t) \/ WriteFallback(t) \/ TakeFallback(t) \/ Fail(t)
           \/ Crash(t)
    PROVE  SpendInv'
  <1>1. /\ \E label : /\ at' = [at EXCEPT ![t] = label]
                      /\ label \in {"idle", "settle", "fallback"} \/ t \in Owing
        /\ calls' \in {calls, 0} /\ UNCHANGED <<since, spent>>
    BY DEF Clear, Add, Checkout, Agent, Capture, WritePatch, Destroy, Succeed,
       WriteFallback, TakeFallback, Fail, Crash, Done, Goes, Owing, jobVars,
       cycleVars, moneyVars, clockVars
  <1>2. calls \in Nat /\ calls' \in Nat /\ calls' <= calls
    BY <1>1, DispatchAssumption DEF MoneyTyped
  <1>3. DaemonCalls' <= DaemonCalls
        /\ \A d \in 1..Days : OwingGuests'[d] \subseteq OwingGuests[d]
    <2>1. day \in 1..Days
      BY DEF MoneyTyped
    <2>2. QED
      BY <1>1, <1>2, <2>1, OtherGuests
  <1>4. \A d \in 1..Days : Open'[d] <= Open[d]
    BY <1>1, <1>3, OpenFalls
  <1>5. DaemonCalls' <= CallsPerCycle
    <2>1. DaemonCalls \in Nat /\ DaemonCalls' \in Nat
      BY OpenBound, OpenBoundNext DEF OpenFits
    <2>2. QED
      BY <1>3, <2>1, DispatchAssumption DEF SpendInv
  <1>6. QED
    BY <1>1, <1>4, <1>5, SpendStep

LEMMA BeginSpend ==
    ASSUME MoneyTyped, MoneyTyped', SpendInv,
           NEW t \in Tickers, NEW s \in Stories, Begin(t, s)
    PROVE  SpendInv'
  <1>1. /\ at[t] = "idle" /\ UNCHANGED spent
        /\ \/ at' = [at EXCEPT ![t] = "settle"]
           \/ at' = [at EXCEPT ![t] = "clear"] /\ spent[day] <= Cap
    <2>1. /\ at[t] = "idle" /\ UNCHANGED spent
          /\ \/ at' = [at EXCEPT ![t] = "settle"]
             \/ at' = [at EXCEPT ![t] = "clear"] /\ ~Over(day)
      BY DEF Begin, Refused, Admitted, Goes, moneyVars
    <2>2. ~Over(day) => spent[day] <= Cap
      <3>1. spent[day] \in Nat /\ Cap \in Nat
        BY DispatchAssumption DEF MoneyTyped
      <3>2. QED
        BY <3>1 DEF Over
    <2>3. QED
      BY <2>1, <2>2
  <1>2. \A g \in Tickers \ {t} : g \in Owing' <=> g \in Owing
    BY <1>1 DEF Owing, MoneyTyped
  <1>3. t \notin Owing
    BY <1>1 DEF Owing
  <1>4. Daemon \in Tickers /\ Guests \subseteq Tickers \ {Daemon}
    BY DispatchAssumption DEF Tickers
  <1>5. CASE t = Daemon
    <2>1. calls > 0 /\ calls' = calls - 1 /\ UNCHANGED since
      BY <1>5 DEF Begin
    <2>2. DaemonCalls' <= DaemonCalls /\ DaemonCalls' <= CallsPerCycle
      BY <1>3, <1>5, <2>1, DispatchAssumption DEF DaemonCalls, MoneyTyped
    <2>3. \A d \in 1..Days : OwingGuests'[d] = OwingGuests[d]
      BY <1>2, <1>4, <1>5, <2>1 DEF OwingGuests
    <2>4. \A d \in 1..Days : Open'[d] <= Open[d]
      BY <2>1, <2>2, <2>3, OpenFalls
    <2>5. QED
      BY <1>1, <2>2, <2>4, SpendStep
  <1>6. CASE t # Daemon
    <2>1. since' = [since EXCEPT ![t] = day] /\ UNCHANGED calls
      BY <1>6 DEF Begin
    <2>2. /\ DaemonCalls' = DaemonCalls /\ since'[Daemon] = since[Daemon]
          /\ DaemonCalls \in Nat
      <3>1. since'[Daemon] = since[Daemon]
        BY <1>4, <1>6, <2>1 DEF MoneyTyped
      <3>2. Daemon \in Owing' <=> Daemon \in Owing
        BY <1>2, <1>4, <1>6
      <3>3. QED
        BY <2>1, <3>1, <3>2, OpenBound DEF DaemonCalls, OpenFits
    <2>3. ASSUME NEW d \in 1..Days
          PROVE  (spent'[d] = spent[d] /\ Open'[d] <= Open[d]) \/ spent'[d] <= Cap
      <3>1. CASE d = day /\ at' = [at EXCEPT ![t] = "clear"]
        BY <1>1, <1>3, <3>1 DEF MoneyTyped, Owing
      <3>2. CASE d # day \/ at' = [at EXCEPT ![t] = "settle"]
        <4>1. t \notin OwingGuests'[d]
          BY <2>1, <3>2 DEF OwingGuests, Owing, MoneyTyped
        <4>2. OwingGuests'[d] \subseteq OwingGuests[d]
          BY <1>2, <1>4, <2>1, <4>1 DEF OwingGuests, MoneyTyped
        <4>3. QED
          BY <1>1, <2>2, <4>2, OpenFalls
      <3>3. QED
        BY <1>1, <3>1, <3>2
    <2>4. DaemonCalls' <= CallsPerCycle
      BY <2>2 DEF SpendInv
    <2>5. QED
      BY <2>3, <2>4, SpendStep
  <1>7. QED
    BY <1>5, <1>6

\* A call that is charged is no longer owed.
LEMMA RecordSpend ==
    ASSUME MoneyTyped, MoneyTyped', SpendInv, NEW t \in Tickers, Record(t)
    PROVE  SpendInv'
  <1> DEFINE paidOn == since[t]
  <1>1. /\ at[t] = "record" /\ at' = [at EXCEPT ![t] = "settle"]
        /\ spent' = [spent EXCEPT ![paidOn] = @ + cost[t]]
        /\ UNCHANGED <<calls, since>>
    BY DEF Record, Charge, Goes, cycleVars
  <1>2. /\ paidOn \in 1..Days /\ cost[t] \in 0..Dear /\ Dear \in Nat
        /\ spent'[paidOn] <= spent[paidOn] + Dear
        /\ \A d \in 1..Days \ {paidOn} : spent'[d] = spent[d]
    BY <1>1, DispatchAssumption DEF MoneyTyped
  <1>3. Owing' = Owing \ {t} /\ t \in Owing
    BY <1>1 DEF Owing, MoneyTyped
  <1>4. Daemon \in Tickers /\ Guests \subseteq Tickers /\ Daemon \notin Guests
    BY DispatchAssumption DEF Tickers
  <1>6. CASE t = Daemon
    <2>1. DaemonCalls' + 1 = DaemonCalls
      BY <1>1, <1>3, <1>6, OpenParts DEF DaemonCalls
    <2>2. OwingGuests' = OwingGuests
      BY <1>1, <1>3, <1>4, <1>6 DEF OwingGuests
    <2>4. /\ Open'[paidOn] + 1 <= Open[paidOn]
          /\ \A d \in 1..Days \ {paidOn} : Open'[d] <= Open[d]
      BY <1>1, <1>2, <1>6, <2>1, <2>2, OpenParts
    <2>5. DaemonCalls' <= CallsPerCycle
      BY <2>1, OpenParts DEF SpendInv
    <2>6. QED
      BY <1>2, <2>4, <2>5, SpendStep
  <1>7. CASE t # Daemon
    <2>1. DaemonCalls' = DaemonCalls /\ t \in Guests
      BY <1>1, <1>3, <1>7 DEF DaemonCalls, Tickers
    <2>2. /\ OwingGuests'[paidOn] = OwingGuests[paidOn] \ {t}
          /\ t \in OwingGuests[paidOn]
          /\ \A d \in 1..Days \ {paidOn} : OwingGuests'[d] = OwingGuests[d]
      BY <1>1, <1>2, <1>3, <1>4, <2>1 DEF OwingGuests
    <2>3. /\ Cardinality(OwingGuests[paidOn]) \in Nat
          /\ Cardinality(OwingGuests'[paidOn]) = Cardinality(OwingGuests[paidOn]) - 1
      <3>1. IsFiniteSet(OwingGuests[paidOn])
        BY <1>2, OpenParts
      <3>2. QED
        BY <2>2, <3>1, FS_CardinalityType, FS_RemoveElement
    <2>4. /\ Open'[paidOn] + 1 <= Open[paidOn]
          /\ \A d \in 1..Days \ {paidOn} : Open'[d] <= Open[d]
      <3>1. /\ Open[paidOn] = (IF since[Daemon] = paidOn THEN DaemonCalls ELSE 0)
                                + Cardinality(OwingGuests[paidOn])
            /\ Open'[paidOn] = (IF since[Daemon] = paidOn THEN DaemonCalls ELSE 0)
                                 + Cardinality(OwingGuests'[paidOn])
            /\ DaemonCalls \in Nat
        BY <1>1, <1>2, <2>1, OpenParts
      <3>2. Open'[paidOn] + 1 <= Open[paidOn]
        BY <2>3, <3>1
      <3>3. ASSUME NEW d \in 1..Days \ {paidOn} PROVE Open'[d] <= Open[d]
        BY <1>1, <2>1, <2>2, <3>1, OpenFalls
      <3>4. QED
        BY <3>2, <3>3
    <2>5. QED
      BY <1>2, <2>1, <2>4, SpendStep DEF SpendInv
  <1>8. QED
    BY <1>6, <1>7

LEMMA CycleSpend ==
    ASSUME MoneyTyped, MoneyTyped', SpendInv,
           \/ StartCycle \/ EndCycle \/ Midnight
           \/ Reviews
           \/ UNCHANGED dispatchVars
    PROVE  SpendInv'
  <1>2. Daemon \in Tickers /\ Daemon \notin Guests /\ Guests \subseteq Tickers
    BY DispatchAssumption DEF Tickers
  <1>3. CASE EndCycle \/ Midnight \/ UNCHANGED dispatchVars
    <2>1. UNCHANGED <<at, since, spent>> /\ calls' \in {calls, 0}
      BY <1>3
      DEF EndCycle, Midnight, dispatchVars, jobVars, cycleVars, moneyVars
    <2>2. Owing' = Owing /\ OwingGuests' = OwingGuests
      BY <2>1 DEF Owing, OwingGuests
    <2>3. DaemonCalls' <= DaemonCalls
      BY <2>1, <2>2, OpenParts DEF DaemonCalls
    <2>4. \A d \in 1..Days : Open'[d] <= Open[d]
      BY <2>1, <2>2, <2>3, OpenFalls
    <2>5. DaemonCalls' <= CallsPerCycle
      BY <2>3, OpenParts DEF SpendInv
    <2>6. QED
      BY <2>1, <2>4, <2>5, SpendStep
  <1>4. CASE StartCycle
    <2>1. /\ at[Daemon] = "idle" /\ calls' = CallsPerCycle
          /\ since' = [since EXCEPT ![Daemon] = day] /\ UNCHANGED <<at, spent>>
          /\ ~(spent[day] > Cap)
      BY <1>4 DEF StartCycle, Over, moneyVars
    <2>2. Owing' = Owing /\ Daemon \notin Owing
      BY <2>1 DEF Owing
    <2>3. OwingGuests' = OwingGuests
      BY <1>2, <2>1, <2>2 DEF OwingGuests, MoneyTyped
    <2>4. \A d \in 1..Days : since'[Daemon] # d => Open'[d] <= Open[d]
      BY <2>3, OpenFalls
    <2>5. DaemonCalls' <= CallsPerCycle
      BY <2>1, <2>2, OpenParts DEF DaemonCalls
    <2>6. since'[Daemon] = day
      BY <1>2, <2>1 DEF MoneyTyped
    <2>7. \A d \in 1..Days :
            (spent'[d] = spent[d] /\ Open'[d] <= Open[d]) \/ spent'[d] <= Cap
      <3>1. spent[day] \in Nat
        BY DEF MoneyTyped
      <3>2. Cap \in Nat
        BY OpenParts
      <3>3. spent'[day] <= Cap
        BY <2>1, <3>1, <3>2
      <3>4. QED
        BY <2>1, <2>4, <2>6, <3>3
    <2>8. QED
      BY <2>5, <2>7, SpendStep
  <1>5. CASE Reviews
    <2> DEFINE paidOn == since[Daemon]
    <2>1. PICK e \in 0..Dear :
            /\ calls > 0 /\ calls' = calls - 1 /\ UNCHANGED <<at, since>>
            /\ spent' = [spent EXCEPT ![paidOn] = @ + e]
      BY <1>5, ReviewEnters
    <2>2. /\ paidOn \in 1..Days /\ spent'[paidOn] <= spent[paidOn] + Dear
          /\ \A d \in 1..Days \ {paidOn} : spent'[d] = spent[d]
      BY <1>2, <2>1, DispatchAssumption DEF MoneyTyped
    <2>3. Owing' = Owing /\ OwingGuests' = OwingGuests
      BY <2>1 DEF Owing, OwingGuests
    <2>4. DaemonCalls' + 1 = DaemonCalls
      BY <2>1, <2>3, OpenParts DEF DaemonCalls
    <2>6. /\ Open'[paidOn] + 1 <= Open[paidOn]
          /\ \A d \in 1..Days \ {paidOn} : Open'[d] <= Open[d]
      BY <2>1, <2>2, <2>3, <2>4, OpenParts
    <2>7. DaemonCalls' <= CallsPerCycle
      BY <2>4, OpenParts DEF SpendInv
    <2>8. QED
      BY <2>2, <2>6, <2>7, SpendStep
  <1>6. QED
    BY <1>3, <1>4, <1>5

LEMMA NextSpend == MoneyTyped /\ SpendInv /\ [Next]_dispatchVars => SpendInv'
  <1> SUFFICES ASSUME MoneyTyped, SpendInv, [Next]_dispatchVars
               PROVE  SpendInv'
    OBVIOUS
  <1>1. MoneyTyped'
    BY NextMoney
  <1>2. ASSUME NEW t \in Tickers, Works(t) \/ Crash(t)
        PROVE  SpendInv'
    BY <1>1, <1>2, QuietStepSpend, BeginSpend, RecordSpend DEF Works
  <1>3. QED
    BY <1>1, <1>2, CycleSpend DEF Next, Reviews

\* No day of the ledger exceeds the cap by more than one cycle of the daemon and
\* one tick of each /ralph tick process can spend, however many such processes
\* there are, whatever dies and whenever midnight falls.
THEOREM DaysAreBounded == Spec => []SpendBounded
  <1>1. Init => MoneyTyped /\ SpendInv
    <2> SUFFICES ASSUME Init PROVE MoneyTyped /\ SpendInv
      OBVIOUS
    <2>1. MoneyTyped
      BY DispatchAssumption DEF Init, MoneyTyped, Steps
    <2>2. DaemonCalls = 0
      BY DEF Init, DaemonCalls, Owing, Tickers
    <2>3. OpenFits /\ Cap \in Nat /\ CallsPerCycle \in Nat
      BY <2>1, OpenBound, DispatchAssumption
    <2>4. ASSUME NEW d \in 1..Days
          PROVE  spent[d] + Dear * Open[d]
                   <= Cap + Dear * (CallsPerCycle + Cardinality(Guests))
      <3> DEFINE n == Open[d]
                 K == CallsPerCycle + Cardinality(Guests)
      <3>1. n \in Nat /\ K \in Nat /\ n <= K /\ spent[d] = 0
        BY <2>2, <2>3 DEF OpenFits, Init
      <3> HIDE DEF n, K
      <3>2. Dear * n <= Dear * K /\ Dear * n \in Nat /\ Dear * K \in Nat
        BY <3>1, Calls
      <3>3. spent[d] + Dear * n <= Cap + Dear * K
        BY <2>3, <3>1, <3>2
      <3>4. QED
        BY <3>3 DEF n, K
    <2>5. QED
      BY <2>1, <2>2, <2>3, <2>4 DEF SpendInv
  <1>2. MoneyTyped /\ SpendInv /\ [Next]_dispatchVars => (MoneyTyped /\ SpendInv)'
    BY NextMoney, NextSpend
  <1>3. MoneyTyped /\ SpendInv => SpendBounded
    <2> SUFFICES ASSUME MoneyTyped, SpendInv, NEW d \in 1..Days
                 PROVE  spent[d] <= Cap + Dear * (CallsPerCycle + Cardinality(Guests))
      BY DEF SpendBounded
    <2> DEFINE n == Open[d]
               K == CallsPerCycle + Cardinality(Guests)
    <2>1. n \in Nat /\ K \in Nat /\ spent[d] \in Nat /\ Cap \in Nat
      BY OpenBound, DispatchAssumption DEF OpenFits, MoneyTyped
    <2>2. spent[d] + Dear * n <= Cap + Dear * K
      BY DEF SpendInv
    <2> HIDE DEF n, K
    <2>3. Dear * n \in Nat /\ Dear * K \in Nat
      BY <2>1, Calls
    <2>4. spent[d] <= Cap + Dear * K
      BY <2>1, <2>2, <2>3
    <2>5. QED
      BY <2>4 DEF K
  <1>4. QED
    BY <1>1, <1>2, <1>3, PTL DEF Spec

-----------------------------------------------------------------------------
(* The ledger.                                                             *)

\* What the entries and the unrecorded calls sum to, and the sums after one of
\* their summands has changed.
LEMMA LedgerSums ==
    ASSUME MoneyTyped
    PROVE  Summable(spent) /\ Summable(cost)
  <1>1. IsFiniteSet(1..Days) /\ IsFiniteSet(Tickers)
    <2>1. IsFiniteSet(1..Days)
      BY DispatchAssumption, FS_Interval
    <2>2. IsFiniteSet(Guests \cup {Daemon})
      BY DispatchAssumption, FS_AddElement
    <2>3. Tickers = Guests \cup {Daemon}
      BY DEF Tickers
    <2>4. QED
      BY <2>1, <2>2, <2>3
  <1>2. cost \in [Tickers -> Nat] /\ spent \in [1..Days -> Nat]
    BY DispatchAssumption DEF MoneyTyped
  <1>3. QED
    BY <1>1, <1>2 DEF Summable

LEMMA LedgerTotals ==
    ASSUME MoneyTyped
    PROVE  /\ SumFunction(spent) \in Nat /\ SumFunction(cost) \in Nat
           /\ Dear \in Nat
  BY LedgerSums, SumType, DispatchAssumption

LEMMA CostChanges ==
    ASSUME MoneyTyped, NEW t \in Tickers, NEW c \in Nat, cost' = [cost EXCEPT ![t] = c]
    PROVE  /\ SumFunction(cost') \in Nat
           /\ SumFunction(cost') + cost[t] = SumFunction(cost) + c
  <1>1. Summable(cost) /\ t \in DOMAIN cost
    BY LedgerSums DEF MoneyTyped
  <1>2. QED
    BY <1>1, SumUpdated, SumType

LEMMA SpentChanges ==
    ASSUME MoneyTyped, NEW d \in 1..Days, NEW n \in Nat, spent' = [spent EXCEPT ![d] = n]
    PROVE  /\ SumFunction(spent') \in Nat
           /\ SumFunction(spent') + spent[d] = SumFunction(spent) + n
  <1>1. Summable(spent) /\ d \in DOMAIN spent
    BY LedgerSums DEF MoneyTyped
  <1>2. QED
    BY <1>1, SumUpdated, SumType

\* A step that neither pays nor records.
LEMMA LedgerQuiet ==
    ASSUME LedgerInv, MoneyTyped, NEW t \in Tickers,
           UNCHANGED <<spent, paid, crashes, lost>>,
           UNCHANGED cost \/ (cost[t] = 0 /\ cost' = [cost EXCEPT ![t] = 0]),
           \A u \in Tickers : u \in Unrecorded => u \in Unrecorded' \/ cost[u] = 0
    PROVE  LedgerInv'
  <1>1. UNCHANGED cost
    BY DEF MoneyTyped
  <1>2. QED
    BY <1>1 DEF LedgerInv, LedgerComplete

LEMMA LedgerWorks ==
    ASSUME LedgerInv, MoneyTyped, NEW t \in Tickers, Works(t)
    PROVE  LedgerInv'
  <1>1. /\ cost[t] # 0 => at[t] \in {"capture", "write", "destroy", "record"}
        /\ cost[t] \in Nat
    BY DispatchAssumption DEF LedgerInv, MoneyTyped, Unrecorded
  <1>2. CASE \/ \E s \in Stories : Begin(t, s)
             \/ Clear(t) \/ Add(t) \/ Checkout(t) \/ WriteFallback(t)
             \/ Succeed(t) \/ TakeFallback(t) \/ Fail(t)
    <2>1. /\ at[t] \notin {"capture", "write", "destroy", "record"}
          /\ UNCHANGED <<spent, paid, crashes, lost>>
          /\ UNCHANGED cost \/ cost' = [cost EXCEPT ![t] = 0]
          /\ \E label : at' = [at EXCEPT ![t] = label]
      BY <1>2
      DEF Begin, Refused, Admitted, Clear, Add, Checkout, WriteFallback, Succeed,
          TakeFallback, Fail, Done, Goes, jobVars, moneyVars, clockVars
    <2>2. \A u \in Tickers : u \in Unrecorded => u \in Unrecorded'
      BY <2>1 DEF Unrecorded, MoneyTyped
    <2>3. QED
      BY <1>1, <2>1, <2>2, LedgerQuiet
  <1>3. CASE Capture(t) \/ WritePatch(t) \/ Destroy(t)
    <2>1. /\ UNCHANGED <<spent, paid, crashes, lost, cost>>
          /\ \E label \in {"write", "destroy", "record"} : at' = [at EXCEPT ![t] = label]
      BY <1>3 DEF Capture, WritePatch, Destroy, Goes, jobVars, moneyVars, clockVars
    <2>2. \A u \in Tickers : u \in Unrecorded => u \in Unrecorded'
      BY <2>1 DEF Unrecorded, MoneyTyped
    <2>3. QED
      BY <2>1, <2>2, LedgerQuiet
  <1>4. CASE \E c \in 1..Dear : Agent(t, c)
    <2>1. PICK c \in 1..Dear : Agent(t, c)
      BY <1>4
    <2>2. /\ at[t] = "agent" /\ cost' = [cost EXCEPT ![t] = c] /\ paid' = paid + c
          /\ at' = [at EXCEPT ![t] = "capture"] /\ UNCHANGED <<spent, crashes, lost>>
          /\ c \in Nat
      BY <2>1, DispatchAssumption DEF Agent, Goes, clockVars
    <2>3. /\ SumFunction(cost') \in Nat
          /\ SumFunction(cost') + cost[t] = SumFunction(cost) + c
      BY <2>2, CostChanges
    <2>4. cost[t] = 0
      BY <1>1, <2>2
    <2>6. LedgerComplete'
      BY <2>2, <2>3, <2>4, LedgerTotals DEF LedgerInv, LedgerComplete
    <2>7. \A u \in Tickers : cost'[u] # 0 => u \in Unrecorded'
      BY <2>2 DEF LedgerInv, Unrecorded, MoneyTyped
    <2>8. QED
      BY <2>2, <2>6, <2>7 DEF LedgerInv
  <1>5. CASE Record(t)
    <2>1. /\ spent' = [spent EXCEPT ![since[t]] = spent[since[t]] + cost[t]]
          /\ cost' = [cost EXCEPT ![t] = 0]
          /\ at' = [at EXCEPT ![t] = "settle"] /\ UNCHANGED <<paid, crashes, lost>>
      BY <1>5 DEF Record, Charge, Goes, clockVars
    <2>2. since[t] \in 1..Days /\ spent[since[t]] \in Nat
      BY DEF MoneyTyped
    <2>3. /\ SumFunction(cost') \in Nat
          /\ SumFunction(cost') + cost[t] = SumFunction(cost) + 0
      BY <2>1, CostChanges
    <2>4. spent[since[t]] + cost[t] \in Nat
      BY <1>1, <2>2
    <2>5. /\ SumFunction(spent') \in Nat
          /\ SumFunction(spent') + spent[since[t]]
               = SumFunction(spent) + (spent[since[t]] + cost[t])
      BY <2>1, <2>2, <2>4, SpentChanges
    <2>6. LedgerComplete'
      BY <1>1, <2>1, <2>2, <2>3, <2>5, LedgerTotals DEF LedgerInv, LedgerComplete
    <2>7. \A u \in Tickers : cost'[u] # 0 => u \in Unrecorded'
      BY <2>1 DEF LedgerInv, Unrecorded, MoneyTyped
    <2>8. QED
      BY <2>1, <2>6, <2>7 DEF LedgerInv
  <1>6. QED
    BY <1>2, <1>3, <1>4, <1>5 DEF Works

\* A crash loses the one call its process had not recorded.
LEMMA LedgerCrash ==
    ASSUME LedgerInv, MoneyTyped, NEW t \in Tickers, Crash(t)
    PROVE  LedgerInv'
  <1>1. /\ cost' = [cost EXCEPT ![t] = 0] /\ at' = [at EXCEPT ![t] = "idle"]
        /\ crashes' = crashes + 1 /\ UNCHANGED <<spent, paid, lost>>
    BY DEF Crash, Done, Goes, moneyVars
  <1>2. cost[t] \in Nat /\ cost[t] <= Dear
    BY DispatchAssumption DEF MoneyTyped
  <1>3. /\ SumFunction(cost') \in Nat
        /\ SumFunction(cost') + cost[t] = SumFunction(cost) + 0
    BY <1>1, CostChanges
  <1>4. /\ Dear * (crashes + 1 + lost) = Dear * (crashes + lost) + Dear
        /\ Dear * (crashes + lost) \in Nat
    BY LedgerTotals DEF LedgerInv
  <1>6. LedgerComplete'
    BY <1>1, <1>2, <1>3, <1>4, LedgerTotals DEF LedgerInv, LedgerComplete
  <1>7. \A u \in Tickers : cost'[u] # 0 => u \in Unrecorded'
    BY <1>1 DEF LedgerInv, Unrecorded, MoneyTyped
  <1>8. QED
    BY <1>1, <1>6, <1>7 DEF LedgerInv

\* Of n calls at c each, one is entered, or none, and the others are lost.
LEMMA LostCalls ==
    ASSUME NEW a \in Nat, NEW n \in Nat, NEW c \in 0..Dear
    PROVE  /\ n * c <= Dear * n /\ n * c \in Nat
           /\ Dear * (a + n) = Dear * a + Dear * n
           /\ n > 0 => n * c <= c + Dear * (n - 1)
           /\ n > 0 => Dear * (a + n - 1) = Dear * a + Dear * (n - 1)
  <1>1. Dear \in Nat /\ c \in Nat /\ c <= Dear
    BY DispatchAssumption
  <1>2. ASSUME NEW m \in Nat PROVE m * c <= Dear * m
    BY <1>1
  <1>3. n > 0 => n - 1 \in Nat /\ n * c = c + (n - 1) * c
    BY <1>1
  <1>4. n > 0 => (n - 1) * c <= Dear * (n - 1) /\ (n - 1) * c \in Nat /\ Dear * (n - 1) \in Nat
    BY <1>1, <1>2, <1>3
  <1>5. n > 0 => n * c <= c + Dear * (n - 1)
    BY <1>1, <1>3, <1>4
  <1>6. n * c <= Dear * n /\ n * c \in Nat
    BY <1>1, <1>2
  <1>7. /\ Dear * (a + n) = Dear * a + Dear * n
        /\ n > 0 => Dear * (a + n - 1) = Dear * a + Dear * (n - 1)
    BY <1>1
  <1>8. QED
    BY <1>5, <1>6, <1>7

LEMMA ReviewSum ==
    ASSUME NEW bill \in Nat, NEW total \in Nat, NEW owed \in Nat, NEW was \in Nat,
           NEW is \in Nat, NEW e \in Nat, NEW price \in Nat,
           bill <= total + owed + Dear * was, price <= e + Dear * (is - was)
    PROVE  bill + price <= (total + e) + owed + Dear * is
  <1>1. Dear * was + Dear * (is - was) = Dear * is /\ Dear \in Nat
    BY DispatchAssumption
  <1>2. Dear * was \in Int /\ Dear * (is - was) \in Int /\ Dear * is \in Int
    BY <1>1
  <1>3. QED
    BY <1>1, <1>2

\* A review is recorded, if at all, in the step that pays for it.
LEMMA LedgerReview ==
    ASSUME LedgerInv, MoneyTyped, Reviews
    PROVE  LedgerInv'
  <1> DEFINE d == since[Daemon]
             gap == crashes + lost
  <1>1. PICK e \in 0..Dear, n \in 0..ReviewCalls, c \in 1..Dear :
          /\ d \in 1..Days /\ e \in Nat
          /\ spent' = [spent EXCEPT ![d] = spent[d] + e]
          /\ paid' = paid + n * c
          /\ \/ e = 0 /\ lost' = lost + n
             \/ e = c /\ n > 0 /\ lost' = lost + n - 1
          /\ UNCHANGED <<at, cost, crashes>>
    BY ReviewEnters DEF jobVars, clockVars
  <1>2. /\ spent[d] \in Nat /\ spent[d] + e \in Nat /\ n \in Nat /\ c \in 0..Dear /\ c \in Nat
        /\ gap \in Nat /\ lost \in Nat /\ crashes \in Nat /\ Dear \in Nat /\ lost' \in Nat
    BY <1>1, DispatchAssumption DEF MoneyTyped, LedgerInv
  <1>3. /\ SumFunction(spent') \in Nat
        /\ SumFunction(spent') + spent[d] = SumFunction(spent) + (spent[d] + e)
    <2> HIDE DEF d
    <2>1. QED
      BY <1>1, <1>2, SpentChanges
  <1>4. SumFunction(spent') = SumFunction(spent) + e /\ SumFunction(spent) \in Nat
    BY <1>2, <1>3, LedgerTotals
  <1>5. n * c <= e + Dear * (gap' - gap) /\ n * c \in Nat
        /\ Dear * gap' = Dear * gap + Dear * (gap' - gap)
    <2>1. CASE e = 0 /\ lost' = lost + n
      <3>1. gap' = gap + n /\ gap' - gap = n
        BY <1>1, <1>2, <2>1
      <3>2. n * c <= Dear * n /\ n * c \in Nat /\ Dear * (gap + n) = Dear * gap + Dear * n
        BY <1>2, LostCalls
      <3>3. Dear * n \in Nat
        BY <1>2
      <3>4. QED
        BY <2>1, <3>1, <3>2, <3>3
    <2>2. CASE e = c /\ n > 0 /\ lost' = lost + n - 1
      <3>1. gap' = gap + n - 1 /\ gap' - gap = n - 1
        BY <1>1, <1>2, <2>2
      <3>2. /\ n * c <= c + Dear * (n - 1) /\ n * c \in Nat
            /\ Dear * (gap + n - 1) = Dear * gap + Dear * (n - 1)
        BY <1>2, <2>2, LostCalls
      <3>3. QED
        BY <2>2, <3>1, <3>2
    <2>3. QED
      BY <1>1, <2>1, <2>2
  <1>6. LedgerComplete'
    <2>1. paid <= SumFunction(spent) + SumFunction(cost) + Dear * gap
      BY DEF LedgerInv, LedgerComplete
    <2>2. crashes' = crashes /\ gap \in Nat /\ gap' \in Nat
      <3>1. crashes' = crashes /\ crashes \in Nat /\ gap \in Nat /\ lost' \in Nat
        BY <1>1, <1>2
      <3>2. gap' = crashes' + lost'
        OBVIOUS
      <3> HIDE DEF gap
      <3> DEFINE missed == lost'
      <3>m. missed \in Nat /\ gap' = crashes' + missed
        BY <3>1, <3>2
      <3> HIDE DEF missed
      <3>3. gap' = crashes + missed /\ crashes + missed \in Nat
        BY <3>1, <3>m
      <3>4. QED
        BY <3>1, <3>3
    <2>3. /\ paid \in Nat /\ SumFunction(cost) \in Nat /\ SumFunction(spent) \in Nat
          /\ cost' = cost /\ paid' = paid + n * c
          /\ n * c \in Nat /\ n * c <= e + Dear * (gap' - gap)
          /\ SumFunction(spent') = SumFunction(spent) + e
      BY <1>1, <1>4, <1>5, LedgerTotals DEF LedgerInv
    <2> HIDE DEF gap
    <2> DEFINE is == gap'
               price == n * c
               total == SumFunction(spent)
               owed == SumFunction(cost)
    <2>t. /\ paid \in Nat /\ total \in Nat /\ owed \in Nat /\ gap \in Nat /\ is \in Nat
          /\ e \in Nat /\ price \in Nat
          /\ paid <= total + owed + Dear * gap /\ price <= e + Dear * (is - gap)
      BY <1>1, <2>1, <2>2, <2>3
    <2> HIDE DEF is, price, total, owed
    <2>s. paid + price <= (total + e) + owed + Dear * is
      BY <2>t, ReviewSum
    <2>4. paid + n * c <= (SumFunction(spent) + e) + SumFunction(cost) + Dear * gap'
      BY <2>s DEF is, price, total, owed
    <2>5. QED
      BY <2>3, <2>4 DEF gap, LedgerComplete
  <1>7. paid' \in Nat /\ crashes' \in Nat
    BY <1>1, <1>2, <1>5 DEF LedgerInv
  <1>8. QED
    BY <1>1, <1>2, <1>6, <1>7 DEF LedgerInv, Unrecorded

LEMMA NextLedger ==
    ASSUME LedgerInv, MoneyTyped, [Next]_dispatchVars
    PROVE  LedgerInv'
  <1>1. CASE StartCycle \/ EndCycle \/ Midnight \/ UNCHANGED dispatchVars
    <2>1. UNCHANGED <<at, cost, spent, paid, crashes, lost>>
      BY <1>1
      DEF StartCycle, EndCycle, Midnight, dispatchVars, jobVars, moneyVars, clockVars
    <2>2. QED
      BY <2>1 DEF LedgerInv, LedgerComplete, Unrecorded
  <1>2. QED
    BY <1>1, LedgerWorks, LedgerCrash, LedgerReview DEF Next, Reviews

\* What the ledger misses of what was paid is at most the calls that are running,
\* one per crash, and the calls of reviews it has no entry of: for any number of
\* /ralph tick processes beside the daemon, any prices, crashes and days.
THEOREM LedgersAreComplete == Spec => []LedgerComplete
  <1>1. Init => MoneyTyped /\ LedgerInv
    <2> SUFFICES ASSUME Init PROVE MoneyTyped /\ LedgerInv
      OBVIOUS
    <2>1. MoneyTyped
      BY DispatchAssumption DEF Init, MoneyTyped, Steps
    <2>2. LedgerInv
      BY <2>1, LedgerTotals DEF Init, LedgerInv, LedgerComplete
    <2>3. QED
      BY <2>1, <2>2
  <1>2. MoneyTyped /\ LedgerInv /\ [Next]_dispatchVars => (MoneyTyped /\ LedgerInv)'
    BY NextMoney, NextLedger
  <1>3. LedgerInv => LedgerComplete
    BY DEF LedgerInv
  <1>4. QED
    BY <1>1, <1>2, <1>3, PTL DEF Spec

-----------------------------------------------------------------------------
(* The daemon as the only dispatcher: its types.                           *)

\* What a dispatch of the daemon knows of itself.
LEMMA Alone ==
    ASSUME Guests = {}, TypeOK
    PROVE  /\ Tickers = {Daemon}
           /\ at[Daemon] # "idle" => on[Daemon] \in Stories
           /\ at[Daemon] = "idle" => on[Daemon] = NoStory
           /\ NoStory \notin Stories
           /\ Attempts \in Nat \ {0} /\ MaxCrashes \in Nat /\ Dear \in Nat
  BY DispatchAssumption DEF Tickers, TypeOK

LEMMA DispatchStepType ==
    ASSUME Guests = {}, TypeOK, DispatchInv, Works(Daemon) \/ Crash(Daemon)
    PROVE  TypeOK'
  <1> DEFINE d == Daemon
             s == on[Daemon]
  <1>1. /\ Tickers = {d} /\ Attempts \in Nat \ {0} /\ MaxCrashes \in Nat
        /\ at[d] # "idle" => s \in Stories /\ s # NoStory
    BY Alone
  <1>t. /\ dir \in [Stories -> BOOLEAN] /\ edits \in [Stories -> SUBSET Dispatches]
        /\ reg \in [Stories -> {"none", "registered", "locked"}]
        /\ patch \in [Stories -> SUBSET Dispatches]
        /\ id \in [Tickers -> Dispatches] /\ got \in [Tickers -> SUBSET Dispatches]
        /\ reason \in [Tickers -> Reasons]
    BY DEF TypeOK
  <1>l. left \subseteq Stories /\ ran \in [Stories -> Nat]
    BY DEF TypeOK
  <1>2. CASE \E q \in Stories : Begin(d, q)
    <2>1. PICK q \in Stories : Begin(d, q)
      BY <1>2
    <2>2. /\ on' = [on EXCEPT ![d] = q] /\ q # NoStory
          /\ id' = [id EXCEPT ![d] = [by |-> d, nr |-> tries[q] + crashes]]
          /\ got' = [got EXCEPT ![d] = {}]
          /\ calls > 0 /\ calls' = calls - 1
          /\ \E label \in {"settle", "clear"} : at' = [at EXCEPT ![d] = label]
          /\ \E why \in Refusals \cup {"kimi_daily_budget_exceeded", "none"} :
               reason' = [reason EXCEPT ![d] = why]
          /\ UNCHANGED <<storyVars, patch, treeVars, cost, since, moneyVars, clockVars>>
      BY <2>1, Alone DEF Begin, Refused, Admitted, Goes
    <2>3. [by |-> d, nr |-> tries[q] + crashes] \in Dispatches
      BY <1>1 DEF TypeOK, Dispatches
    <2>4. /\ id' \in [Tickers -> Dispatches] /\ got' \in [Tickers -> SUBSET Dispatches]
          /\ reason' \in [Tickers -> Reasons]
      <3>1. Refusals \cup {"kimi_daily_budget_exceeded", "none"} \subseteq Reasons
        BY DEF Reasons
      <3>2. /\ id' \in [Tickers -> Dispatches]
            /\ got' \in [Tickers -> SUBSET Dispatches]
        BY <1>t, <2>2, <2>3
      <3>3. reason' \in [Tickers -> Reasons]
        BY <1>t, <2>2, <3>1
      <3>4. QED
        BY <3>2, <3>3
    <2>5. /\ on' \in [Tickers -> Stories \cup {NoStory}]
          /\ at' \in [Tickers -> Steps]
          /\ \A t \in Tickers : on'[t] = NoStory <=> at'[t] = "idle"
      BY <1>1, <2>2 DEF TypeOK, Steps
    <2>6. calls' \in 0..CallsPerCycle
      BY <2>2, DispatchAssumption DEF TypeOK
    <2>7. QED
      BY <2>2, <2>4, <2>5, <2>6
      DEF TypeOK, Steps, storyVars, treeVars, moneyVars, clockVars
  <1>3. CASE Clear(d) \/ Add(d) \/ Checkout(d)
    <2>1. /\ at[d] # "idle"
          /\ \E label \in Steps \ {"idle"} : at' = [at EXCEPT ![d] = label]
          /\ reason' \in {reason, [reason EXCEPT ![d] = "worktree_create_failed"]}
          /\ \E b \in BOOLEAN : dir' \in {dir, [dir EXCEPT ![s] = b]}
          /\ edits' \in {edits, [edits EXCEPT ![s] = {}]}
          /\ \E r \in {"none", "locked", "registered"} : reg' \in {reg, [reg EXCEPT ![s] = r]}
          /\ UNCHANGED <<storyVars, patch, left, on, id, got, cost, cycleVars, moneyVars,
                         clockVars>>
      BY <1>3
      DEF Clear, ClearDir, NoDir, Add, Checkout, Goes, Steps, jobVars
    <2>2. /\ dir' \in [Stories -> BOOLEAN] /\ edits' \in [Stories -> SUBSET Dispatches]
          /\ reg' \in [Stories -> {"none", "registered", "locked"}]
          /\ reason' \in [Tickers -> Reasons]
      <3>1. s \in Stories /\ "worktree_create_failed" \in Reasons
        BY <1>1, <2>1 DEF Reasons
      <3>2. dir' \in [Stories -> BOOLEAN]
        BY <1>t, <2>1, <3>1
      <3>3. edits' \in [Stories -> SUBSET Dispatches]
        BY <1>t, <2>1, <3>1
      <3>4. reg' \in [Stories -> {"none", "registered", "locked"}]
        BY <1>t, <2>1, <3>1
      <3>5. reason' \in [Tickers -> Reasons]
        BY <1>t, <2>1, <3>1
      <3>6. QED
        BY <3>2, <3>3, <3>4, <3>5
    <2>3. /\ at' \in [Tickers -> Steps]
          /\ \A t \in Tickers : on'[t] = NoStory <=> at'[t] = "idle"
      BY <1>1, <2>1 DEF TypeOK, Steps
    <2>4. QED
      BY <2>1, <2>2, <2>3
      DEF TypeOK, Steps, storyVars, cycleVars, moneyVars, clockVars
  <1>4. CASE \E c \in 1..Dear : Agent(d, c)
    <2>1. PICK c \in 1..Dear : Agent(d, c)
      BY <1>4
    <2>2. /\ at[d] = "agent" /\ at' = [at EXCEPT ![d] = "capture"]
          /\ cost' = [cost EXCEPT ![d] = c] /\ paid' = paid + c
          /\ edits' \in {edits, [edits EXCEPT ![s] = @ \cup {id[d]}]}
          /\ ran' = [ran EXCEPT ![s] = @ + 1]
          /\ UNCHANGED <<storyVars, patch, dir, reg, left, on, id, got, reason, cycleVars,
                         spent, lost, clockVars>>
      BY <2>1 DEF Agent, Goes
    <2>3. /\ cost' \in [Tickers -> 0..Dear] /\ paid' \in Nat /\ ran' \in [Stories -> Nat]
      BY <1>1, <1>l, <2>2, DispatchAssumption DEF TypeOK
    <2>4. edits' \in [Stories -> SUBSET Dispatches]
      <3>1. s \in Stories /\ id[d] \in Dispatches
        BY <1>1, <1>t, <2>2
      <3>2. edits[s] \cup {id[d]} \in SUBSET Dispatches
        BY <1>t, <3>1
      <3>3. QED
        BY <1>t, <2>2, <3>1, <3>2
    <2>5. /\ at' \in [Tickers -> Steps]
          /\ \A t \in Tickers : on'[t] = NoStory <=> at'[t] = "idle"
      BY <1>1, <2>2 DEF TypeOK, Steps
    <2>6. QED
      BY <2>2, <2>3, <2>4, <2>5
      DEF TypeOK, Steps, storyVars, cycleVars, clockVars
  <1>5. CASE Capture(d)
    <2>1. /\ at[d] = "capture" /\ at' = [at EXCEPT ![d] = "write"]
          /\ \E diff \in SUBSET Dispatches : got' = [got EXCEPT ![d] = diff]
          /\ \E why \in Reasons : reason' = [reason EXCEPT ![d] = why]
          /\ UNCHANGED <<storyVars, patch, treeVars, on, id, cost, cycleVars,
                         moneyVars, clockVars>>
      <3> SUFFICES /\ \E diff \in SUBSET Dispatches : got' = [got EXCEPT ![d] = diff]
                   /\ \E why \in Reasons : reason' = [reason EXCEPT ![d] = why]
        BY <1>5 DEF Capture, Goes
      <3>1. at[d] = "capture"
        BY <1>5 DEF Capture
      <3>2. PICK diff \in Diffs(d), fits \in BOOLEAN :
              \E verdict \in Verdicts(diff, fits) :
                /\ got' = [got EXCEPT ![d] = IF fits THEN diff ELSE {}]
                /\ reason' = [reason EXCEPT ![d] = verdict]
        BY <1>5 DEF Capture
      <3>3. diff \in SUBSET Dispatches
        BY <1>1, <3>1 DEF Diffs, TypeOK
      <3>4. Verdicts(diff, fits) \subseteq Reasons
        BY DEF Verdicts, Reasons, Eligible
      <3>5. QED
        BY <3>2, <3>3, <3>4
    <2>2. /\ got' \in [Tickers -> SUBSET Dispatches] /\ reason' \in [Tickers -> Reasons]
      BY <2>1 DEF TypeOK
    <2>3. /\ at' \in [Tickers -> Steps]
          /\ \A t \in Tickers : on'[t] = NoStory <=> at'[t] = "idle"
      BY <1>1, <2>1 DEF TypeOK, Steps
    <2>4. QED
      BY <2>1, <2>2, <2>3
      DEF TypeOK, Steps, storyVars, treeVars, cycleVars, moneyVars, clockVars
  <1>6. CASE WritePatch(d) \/ Destroy(d) \/ WriteFallback(d)
    <2>1. /\ at[d] # "idle"
          /\ \E label \in Steps \ {"idle"} : at' = [at EXCEPT ![d] = label]
          /\ \E p \in {got[d], {FALLBACK}} : patch' \in {patch, [patch EXCEPT ![s] = p]}
          /\ dir' \in {dir, [dir EXCEPT ![s] = FALSE]}
          /\ edits' \in {edits, [edits EXCEPT ![s] = {}]}
          /\ \E gone \in SUBSET Stories :
               reg' \in {reg, [reg EXCEPT ![s] = "none"], Pruned(gone)}
          /\ left' \in {left, left \cup {s}, left \ {s}}
          /\ UNCHANGED <<storyVars, jobVars, cycleVars, moneyVars, clockVars>>
      <3>1. Absent \in SUBSET Stories
        BY DEF Absent
      <3>2. at[d] # "idle" => Absent \cup {s} \in SUBSET Stories
        BY <1>1, <3>1
      <3>3. CASE WritePatch(d) \/ WriteFallback(d)
        BY <3>1, <3>3 DEF WritePatch, WriteFallback, Goes, Steps, treeVars
      <3>4. CASE Destroy(d)
        BY <3>1, <3>2, <3>4
        DEF Destroy, Removes, LeavesBehind, NoDir, Goes, Steps, treeVars
      <3>5. QED
        BY <1>6, <3>3, <3>4
    <2>2. FALLBACK \in Dispatches
      BY DEF Dispatches
    <2>3. patch' \in [Stories -> SUBSET Dispatches]
      <3>1. PICK p \in {got[d], {FALLBACK}} : patch' \in {patch, [patch EXCEPT ![s] = p]}
        BY <2>1
      <3>2. p \in SUBSET Dispatches /\ s \in Stories
        BY <1>1, <1>t, <2>1, <2>2
      <3>3. QED
        BY <1>t, <3>1, <3>2
    <2>4. /\ dir' \in [Stories -> BOOLEAN] /\ edits' \in [Stories -> SUBSET Dispatches]
          /\ reg' \in [Stories -> {"none", "registered", "locked"}]
      <3>1. s \in Stories
        BY <1>1, <2>1
      <3>2. dir' \in [Stories -> BOOLEAN]
        BY <1>t, <2>1, <3>1
      <3>3. edits' \in [Stories -> SUBSET Dispatches]
        BY <1>t, <2>1, <3>1
      <3>4. \A gone : Pruned(gone) \in [Stories -> {"none", "registered", "locked"}]
        BY <1>t DEF Pruned
      <3>5. reg' \in [Stories -> {"none", "registered", "locked"}]
        BY <1>t, <2>1, <3>1, <3>4
      <3>6. QED
        BY <3>2, <3>3, <3>5
    <2>l. left' \subseteq Stories
      BY <1>1, <1>l, <2>1
    <2>5. /\ at' \in [Tickers -> Steps]
          /\ \A t \in Tickers : on'[t] = NoStory <=> at'[t] = "idle"
      BY <1>1, <2>1 DEF TypeOK, Steps, jobVars
    <2>6. QED
      BY <2>1, <2>3, <2>4, <2>5, <2>l
      DEF TypeOK, Steps, storyVars, jobVars, cycleVars, moneyVars, clockVars
  <1>7. CASE Record(d)
    <2>1. /\ at[d] = "record" /\ at' = [at EXCEPT ![d] = "settle"]
          /\ spent' = [spent EXCEPT ![since[d]] = @ + cost[d]]
          /\ cost' = [cost EXCEPT ![d] = 0]
          /\ UNCHANGED <<storyVars, patch, treeVars, on, id, got, reason, cycleVars,
                         paid, lost, ran, clockVars>>
      BY <1>7 DEF Record, Charge, Goes
    <2>2. spent' \in [1..Days -> Nat] /\ cost' \in [Tickers -> 0..Dear]
      BY <1>1, <2>1, DispatchAssumption DEF TypeOK
    <2>3. /\ at' \in [Tickers -> Steps]
          /\ \A t \in Tickers : on'[t] = NoStory <=> at'[t] = "idle"
      BY <1>1, <2>1 DEF TypeOK, Steps
    <2>4. QED
      BY <2>1, <2>2, <2>3
      DEF TypeOK, Steps, storyVars, treeVars, cycleVars, clockVars
  <1>8. ASSUME Done(d)
        PROVE  /\ at' \in [Tickers -> Steps]
               /\ on' \in [Tickers -> Stories \cup {NoStory}]
               /\ \A t \in Tickers : on'[t] = NoStory <=> at'[t] = "idle"
               /\ id' \in [Tickers -> Dispatches]
               /\ got' \in [Tickers -> SUBSET Dispatches]
               /\ reason' \in [Tickers -> Reasons] /\ cost' \in [Tickers -> 0..Dear]
    BY <1>1, <1>8, DispatchAssumption DEF Done, Goes, TypeOK, Steps, Dispatches, Reasons
  <1>9. CASE Succeed(d) \/ TakeFallback(d)
    <2>1. /\ at[d] # "idle" /\ Done(d)
          /\ phase' = [phase EXCEPT ![s] = "PATCH_PREVIEW"]
          /\ \E who \in {id[d], FALLBACK} : author' = [author EXCEPT ![s] = who]
          /\ UNCHANGED <<tries, patch, treeVars, cycleVars, moneyVars, clockVars>>
      BY <1>9 DEF Succeed, TakeFallback, Preview
    <2>2. author' \in [Stories -> Dispatches]
      BY <1>1, <2>1 DEF TypeOK, Dispatches
    <2>3. phase[s] = "OPENCODE_RUNNING"
      BY <2>1 DEF DispatchInv, DispatchFits
    <2>4. /\ phase' \in [Stories -> {"OPENCODE_RUNNING", "PATCH_PREVIEW", "ESCALATED"}]
          /\ \A q \in Stories : tries'[q] = Attempts =>
                                  Guests # {} \/ phase'[q] = "ESCALATED"
      BY <1>1, <2>1, <2>3 DEF TypeOK
    <2>5. QED
      BY <1>8, <2>1, <2>2, <2>4
      DEF TypeOK, Steps, treeVars, cycleVars, moneyVars, clockVars
  <1>10. CASE Fail(d)
    <2>1. /\ at[d] # "idle" /\ Done(d)
          /\ tries' = [tries EXCEPT ![s] = tries[s] + 1]
          /\ phase' = [phase EXCEPT ![s] = IF tries[s] + 1 < Attempts
                                           THEN "OPENCODE_RUNNING" ELSE "ESCALATED"]
          /\ UNCHANGED <<author, patch, treeVars, cycleVars, moneyVars, clockVars>>
      BY <1>10 DEF Fail, Counted, Tries
    <2>2. phase[s] = "OPENCODE_RUNNING" /\ tries[s] \in 0..Attempts
      BY <1>1, <2>1 DEF DispatchInv, DispatchFits, TypeOK
    <2>3. tries[s] # Attempts
      BY <1>1, <2>1, <2>2 DEF TypeOK
    <2>4. /\ phase' \in [Stories -> {"OPENCODE_RUNNING", "PATCH_PREVIEW", "ESCALATED"}]
          /\ tries' \in [Stories -> 0..Attempts]
          /\ \A q \in Stories : tries'[q] = Attempts =>
                                  Guests # {} \/ phase'[q] = "ESCALATED"
      BY <1>1, <2>1, <2>2, <2>3 DEF TypeOK
    <2>5. QED
      BY <1>8, <2>1, <2>4
      DEF TypeOK, Steps, treeVars, cycleVars, moneyVars, clockVars
  <1>11. CASE Crash(d)
    <2>1. /\ Done(d) /\ calls' = 0 /\ crashes < MaxCrashes /\ crashes' = crashes + 1
          /\ UNCHANGED <<storyVars, patch, treeVars, since, moneyVars, day>>
      BY <1>11 DEF Crash
    <2>2. calls' \in 0..CallsPerCycle /\ crashes' \in 0..MaxCrashes
      BY <1>1, <2>1, DispatchAssumption DEF TypeOK
    <2>3. QED
      BY <1>8, <2>1, <2>2 DEF TypeOK, Steps, storyVars, treeVars, moneyVars
  <1>12. QED
    BY <1>2, <1>3, <1>4, <1>5, <1>6, <1>7, <1>9, <1>10, <1>11 DEF Works

LEMMA DispatchNextType ==
    ASSUME Guests = {}, TypeOK, DispatchInv, [Next]_dispatchVars
    PROVE  TypeOK'
  <1>1. Daemon \in Tickers /\ \A t \in Tickers : t = Daemon
    BY DEF Tickers
  <1>2. CASE StartCycle \/ EndCycle
    <2>1. /\ calls' \in {0, CallsPerCycle}
          /\ since' = since \/ since' = [since EXCEPT ![Daemon] = day]
          /\ UNCHANGED <<storyVars, patch, treeVars, at, jobVars, moneyVars, clockVars>>
      BY <1>2 DEF StartCycle, EndCycle
    <2>2. calls' \in 0..CallsPerCycle
      BY <2>1, DispatchAssumption
    <2>3. since' \in [Tickers -> 1..Days]
      BY <2>1 DEF TypeOK
    <2>4. QED
      BY <2>1, <2>2, <2>3
      DEF TypeOK, storyVars, treeVars, jobVars, moneyVars, clockVars
  <1>3. CASE Midnight
    BY <1>3, DispatchAssumption
    DEF Midnight, TypeOK, storyVars, treeVars, jobVars, cycleVars, moneyVars
  <1>4. CASE Reviews
    <2>1. MoneyTyped
      BY DEF TypeOK, MoneyTyped, Steps
    <2>2. PICK e \in 0..Dear, n \in 0..ReviewCalls, c \in 1..Dear :
            /\ calls > 0 /\ calls' = calls - 1 /\ paid' = paid + n * c
            /\ since[Daemon] \in 1..Days /\ e \in Nat
            /\ spent' = [spent EXCEPT ![since[Daemon]] = @ + e]
            /\ lost' = lost + n \/ (n > 0 /\ lost' = lost + n - 1)
            /\ lost' <= MaxLost
            /\ UNCHANGED <<storyVars, patch, treeVars, at, jobVars, since, ran, clockVars>>
      BY <1>4, <2>1, ReviewEnters
    <2>3. n \in Nat /\ c \in Nat /\ n * c \in Nat
      BY DispatchAssumption
    <2>6. paid' \in Nat
      <3> DEFINE more == n * c
      <3>1. paid' = paid + more /\ paid \in Nat /\ more \in Nat
        BY <2>2, <2>3 DEF TypeOK
      <3> HIDE DEF more
      <3>2. QED
        BY <3>1
    <2>7. calls' \in 0..CallsPerCycle /\ lost' \in 0..MaxLost
      BY <2>2, <2>3, DispatchAssumption DEF TypeOK
    <2>8. spent' \in [1..Days -> Nat]
      BY <2>2 DEF TypeOK
    <2>4. /\ calls' \in 0..CallsPerCycle /\ paid' \in Nat /\ lost' \in 0..MaxLost
          /\ spent' \in [1..Days -> Nat]
      BY <2>6, <2>7, <2>8
    <2>5. QED
      BY <2>2, <2>4 DEF TypeOK, storyVars, treeVars, jobVars, clockVars
  <1>5. CASE UNCHANGED dispatchVars
    BY <1>5
    DEF dispatchVars, TypeOK, storyVars, treeVars, jobVars, cycleVars, moneyVars,
        clockVars
  <1>6. QED
    BY <1>1, <1>2, <1>3, <1>4, <1>5, DispatchStepType DEF Next, Reviews

-----------------------------------------------------------------------------
(* The daemon as the only dispatcher: candidates and worktrees.            *)

\* A step on the files of a story that is not at its preview.
LEMMA PreviewsKept ==
    ASSUME TypeOK, PreviewOwn, NoStrayWorktree,
           NEW s \in Stories, phase[s] # "PATCH_PREVIEW", UNCHANGED <<phase, author>>,
           \A q \in Stories \ {s} : /\ patch'[q] = patch[q] /\ dir'[q] = dir[q]
                                    /\ reg'[q] \in {reg[q], "none"}
                                    /\ (q \in left => q \in left')
    PROVE  PreviewOwn' /\ NoStrayWorktree'
  <1>1. ASSUME NEW q \in Stories, phase'[q] = "PATCH_PREVIEW"
        PROVE  patch'[q] = {author'[q]} /\ Gone(q)'
    <2>1. q # s /\ phase[q] = "PATCH_PREVIEW"
      BY <1>1
    <2>2. patch[q] = {author[q]} /\ Gone(q)
      BY <2>1 DEF PreviewOwn, NoStrayWorktree, Gone
    <2>3. /\ patch'[q] = patch[q] /\ author'[q] = author[q] /\ dir'[q] = dir[q]
          /\ reg'[q] \in {reg[q], "none"} /\ (q \in left => q \in left')
      BY <2>1
    <2>4. QED
      BY <2>2, <2>3 DEF Gone
  <1>2. QED
    BY <1>1 DEF PreviewOwn, NoStrayWorktree, Gone

LEMMA BeginInv ==
    ASSUME Guests = {}, TypeOK, DispatchInv, NEW q \in Stories, Begin(Daemon, q)
    PROVE  DispatchInv'
  <1> DEFINE d == Daemon
  <1>1. /\ phase[q] = "OPENCODE_RUNNING"
        /\ on' = [on EXCEPT ![d] = q] /\ got' = [got EXCEPT ![d] = {}]
        /\ \/ /\ at' = [at EXCEPT ![d] = "settle"]
              /\ \E why \in Refusals \cup {"kimi_daily_budget_exceeded"} :
                   reason' = [reason EXCEPT ![d] = why]
           \/ at' = [at EXCEPT ![d] = "clear"]
        /\ UNCHANGED <<storyVars, patch, treeVars>>
    BY DEF Begin, Refused, Admitted, Goes
  <1>2. /\ on'[d] = q /\ got'[d] = {} /\ at'[d] \in {"settle", "clear"}
        /\ at'[d] = "settle" => reason'[d] \in Refusals \cup {"kimi_daily_budget_exceeded"}
    BY <1>1, Alone DEF TypeOK
  <1>3. at'[d] = "settle" => reason'[d] \notin Ran
    BY <1>2 DEF Refusals, Ran, Eligible
  <1>4. UNCHANGED <<phase, author, patch, dir, reg, edits, left>>
    BY <1>1 DEF storyVars, treeVars
  <1>5. PreviewOwn' /\ NoStrayWorktree'
    BY <1>4 DEF DispatchInv, PreviewOwn, NoStrayWorktree
  <1>6. "none" \in Ran
    BY DEF Ran
  <1>7. QED
    BY <1>1, <1>2, <1>3, <1>4, <1>5, <1>6 DEF DispatchInv, DispatchFits

\* The steps between Begin and settle.
LEMMA WorktreeInv ==
    ASSUME Guests = {}, TypeOK, DispatchInv,
           \/ Clear(Daemon) \/ Add(Daemon) \/ Checkout(Daemon)
           \/ \E c \in 1..Dear : Agent(Daemon, c)
    PROVE  DispatchInv'
  <1> DEFINE d == Daemon
             s == on[Daemon]
  <1>1. /\ at[d] # "idle" /\ UNCHANGED <<phase, author, patch, on, id, got, left>>
    BY DEF Clear, ClearDir, Add, Checkout, Agent, storyVars, jobVars
  <1>2. s \in Stories /\ d \in Tickers /\ phase[s] = "OPENCODE_RUNNING"
    BY <1>1, Alone DEF DispatchInv, DispatchFits
  <1>3. /\ at \in [Tickers -> Steps] /\ reason \in [Tickers -> Reasons]
        /\ dir \in [Stories -> BOOLEAN] /\ edits \in [Stories -> SUBSET Dispatches]
        /\ reg \in [Stories -> {"none", "registered", "locked"}]
    BY DEF TypeOK, Steps
  <1>4. ASSUME \A q \in Stories \ {s} : dir'[q] = dir[q] /\ reg'[q] \in {reg[q], "none"}
        PROVE  PreviewOwn' /\ NoStrayWorktree'
    <2>1. phase[s] # "PATCH_PREVIEW"
      BY <1>2
    <2>2. \A q \in Stories \ {s} : patch'[q] = patch[q]
      BY <1>1
    <2>3. PreviewOwn /\ NoStrayWorktree
      BY DEF DispatchInv
    <2>4. QED
      BY <1>1, <1>2, <1>4, <2>1, <2>2, <2>3, PreviewsKept
  <1>e. \A q \in Stories : ~dir[q] => edits[q] = {}
    BY DEF DispatchInv
  <1>5. CASE Clear(d)
    <2>1. /\ at' = [at EXCEPT ![d] = "add"]
          /\ \/ UNCHANGED <<dir, edits>>
             \/ edits' = [edits EXCEPT ![s] = {}] /\ dir' = [dir EXCEPT ![s] = FALSE]
          /\ reg' \in {reg, [reg EXCEPT ![s] = "none"]}
      BY <1>5 DEF Clear, ClearDir, NoDir, Goes
    <2>2. /\ at'[d] = "add"
          /\ \A q \in Stories \ {s} : dir'[q] = dir[q] /\ reg'[q] \in {reg[q], "none"}
      BY <1>2, <1>3, <2>1
    <2>3. \A q \in Stories : ~dir'[q] => edits'[q] = {}
      BY <1>2, <1>3, <1>e, <2>1
    <2>4. QED
      BY <1>1, <1>2, <1>4, <2>2, <2>3 DEF DispatchInv, DispatchFits
  <1>6. CASE Add(d)
    <2>1. /\ at[d] = "add" /\ UNCHANGED edits
          /\ \/ /\ at' = [at EXCEPT ![d] = "checkout"] /\ ~dir[s]
                /\ dir' = [dir EXCEPT ![s] = TRUE] /\ reg' = [reg EXCEPT ![s] = "locked"]
             \/ /\ at' = [at EXCEPT ![d] = "settle"] /\ UNCHANGED <<dir, reg>>
                /\ reason' = [reason EXCEPT ![d] = "worktree_create_failed"]
      BY <1>6 DEF Add, Goes
    <2>2. /\ \/ at'[d] = "checkout" /\ dir'[s] /\ ~dir[s]
             \/ at'[d] = "settle" /\ reason'[d] = "worktree_create_failed"
          /\ \A q \in Stories \ {s} : dir'[q] = dir[q] /\ reg'[q] \in {reg[q], "none"}
      BY <1>2, <1>3, <2>1
    <2>3. /\ got[d] = got'[d]
          /\ \A q \in Stories : ~dir'[q] => edits'[q] = {}
      BY <1>1, <1>2, <1>3, <1>e, <2>1
    <2>4. CASE at'[d] = "checkout" /\ dir'[s] /\ ~dir[s]
      <3>1. edits'[s] = {}
        BY <1>2, <1>e, <2>1, <2>4
      <3>2. QED
        BY <1>1, <1>2, <1>4, <2>2, <2>3, <2>4, <3>1 DEF DispatchInv, DispatchFits
    <2>5. CASE at'[d] = "settle" /\ reason'[d] = "worktree_create_failed"
      BY <1>1, <1>2, <1>4, <2>2, <2>3, <2>5 DEF DispatchInv, DispatchFits, Ran, Eligible
    <2>6. QED
      BY <2>2, <2>4, <2>5
  <1>7. CASE Checkout(d)
    <2>1. /\ at[d] = "checkout" /\ UNCHANGED edits
          /\ \/ /\ at' = [at EXCEPT ![d] = "agent"] /\ dir[s] /\ UNCHANGED dir
                /\ reg' = [reg EXCEPT ![s] = "registered"]
             \/ /\ at' = [at EXCEPT ![d] = "settle"]
                /\ dir' = [dir EXCEPT ![s] = FALSE] /\ reg' = [reg EXCEPT ![s] = "none"]
                /\ reason' = [reason EXCEPT ![d] = "worktree_create_failed"]
      BY <1>7 DEF Checkout, Goes
    <2>2. edits'[s] = {}
      BY <1>1, <2>1 DEF DispatchInv, DispatchFits
    <2>e. \A q \in Stories : ~dir'[q] => edits'[q] = {}
      BY <1>2, <1>3, <1>e, <2>1, <2>2
    <2>3. CASE /\ at' = [at EXCEPT ![d] = "agent"] /\ dir[s] /\ UNCHANGED dir
               /\ reg' = [reg EXCEPT ![s] = "registered"]
      <3>1. at'[d] = "agent" /\ dir'[s] /\ reg'[s] = "registered"
        BY <1>2, <1>3, <2>3
      <3>2. \A q \in Stories \ {s} : dir'[q] = dir[q] /\ reg'[q] = reg[q]
        BY <1>3, <2>3
      <3>3. QED
        BY <1>1, <1>2, <1>4, <2>2, <2>e, <3>1, <3>2 DEF DispatchInv, DispatchFits
    <2>4. CASE /\ at' = [at EXCEPT ![d] = "settle"]
               /\ dir' = [dir EXCEPT ![s] = FALSE] /\ reg' = [reg EXCEPT ![s] = "none"]
               /\ reason' = [reason EXCEPT ![d] = "worktree_create_failed"]
      <3>1. at'[d] = "settle" /\ reason'[d] = "worktree_create_failed"
        BY <1>2, <1>3, <2>4
      <3>2. \A q \in Stories \ {s} : dir'[q] = dir[q] /\ reg'[q] = reg[q]
        BY <1>3, <2>4
      <3>3. got[d] = got'[d]
        BY <1>1
      <3>4. QED
        BY <1>1, <1>2, <1>4, <2>e, <3>1, <3>2 DEF DispatchInv, DispatchFits, Ran, Eligible
    <2>5. QED
      BY <2>1, <2>3, <2>4
  <1>8. CASE \E c \in 1..Dear : Agent(d, c)
    <2>1. /\ at[d] = "agent" /\ at' = [at EXCEPT ![d] = "capture"]
          /\ edits' \in {edits, [edits EXCEPT ![s] = @ \cup {id[d]}]}
          /\ UNCHANGED <<dir, reg>>
      BY <1>8 DEF Agent, Goes
    <2>2. edits[s] = {} /\ dir[s] /\ reg[s] = "registered"
      BY <1>1, <2>1 DEF DispatchInv, DispatchFits
    <2>3. /\ at'[d] = "capture" /\ edits'[s] \subseteq {id[d]}
          /\ \A q \in Stories : ~dir'[q] => edits'[q] = {}
      BY <1>2, <1>3, <1>e, <2>1, <2>2
    <2>4. QED
      BY <1>1, <1>2, <1>4, <2>1, <2>2, <2>3 DEF DispatchInv, DispatchFits
  <1>9. QED
    BY <1>5, <1>6, <1>7, <1>8

LEMMA OutcomeInv ==
    ASSUME Guests = {}, TypeOK, DispatchInv,
           Capture(Daemon) \/ WritePatch(Daemon) \/ Destroy(Daemon) \/ Record(Daemon)
    PROVE  DispatchInv'
  <1> DEFINE d == Daemon
             s == on[Daemon]
  <1>1. /\ at[d] # "idle" /\ UNCHANGED <<phase, author, on, id>>
    BY DEF Capture, WritePatch, Destroy, Record, storyVars, jobVars
  <1>2. s \in Stories /\ d \in Tickers /\ phase[s] = "OPENCODE_RUNNING"
    BY <1>1, Alone DEF DispatchInv, DispatchFits
  <1>3. /\ at \in [Tickers -> Steps] /\ reason \in [Tickers -> Reasons]
        /\ got \in [Tickers -> SUBSET Dispatches] /\ patch \in [Stories -> SUBSET Dispatches]
        /\ dir \in [Stories -> BOOLEAN] /\ edits \in [Stories -> SUBSET Dispatches]
        /\ reg \in [Stories -> {"none", "registered", "locked"}]
    BY DEF TypeOK, Steps
  <1>4. ASSUME \A q \in Stories \ {s} : /\ patch'[q] = patch[q] /\ dir'[q] = dir[q]
                                        /\ reg'[q] \in {reg[q], "none"}
                                        /\ (q \in left => q \in left')
        PROVE  PreviewOwn' /\ NoStrayWorktree'
    <2>1. phase[s] # "PATCH_PREVIEW"
      BY <1>2
    <2>2. PreviewOwn /\ NoStrayWorktree
      BY DEF DispatchInv
    <2>3. QED
      BY <1>1, <1>2, <1>4, <2>1, <2>2, PreviewsKept
  <1>e. \A q \in Stories : ~dir[q] => edits[q] = {}
    BY DEF DispatchInv
  <1>5. CASE Capture(d)
    <2>1. /\ at[d] = "capture" /\ at' = [at EXCEPT ![d] = "write"]
          /\ UNCHANGED <<patch, dir, edits, reg, left>>
      BY <1>5 DEF Capture, Goes, treeVars
    <2>2. dir[s] /\ reg[s] = "registered" /\ edits[s] \subseteq {id[d]}
      BY <1>1, <2>1 DEF DispatchInv, DispatchFits
    <2>3. PICK diff \in Diffs(d), fits \in BOOLEAN :
            \E verdict \in Verdicts(diff, fits) :
              /\ got' = [got EXCEPT ![d] = IF fits THEN diff ELSE {}]
              /\ reason' = [reason EXCEPT ![d] = verdict]
      BY <1>5 DEF Capture
    <2>4. diff \subseteq {id[d]}
      BY <2>2 DEF Diffs
    <2>5. /\ at'[d] = "write" /\ got'[d] = IF fits THEN diff ELSE {}
          /\ reason'[d] \in Verdicts(diff, fits)
      BY <1>2, <1>3, <2>1, <2>3
    <2>6. reason'[d] = "none" => got'[d] = {id[d]}
      BY <2>4, <2>5 DEF Verdicts
    <2>7. got'[d] \subseteq {id[d]}
      BY <2>4, <2>5
    <2>8. QED
      BY <1>1, <1>2, <1>4, <2>1, <2>2, <2>5, <2>6, <2>7 DEF DispatchInv, DispatchFits
  <1>6. CASE WritePatch(d)
    <2>1. /\ at[d] = "write" /\ at' = [at EXCEPT ![d] = "destroy"]
          /\ patch' = IF got[d] # {} THEN [patch EXCEPT ![s] = got[d]] ELSE patch
          /\ UNCHANGED <<dir, edits, reg, left, got, reason>>
      BY <1>6 DEF WritePatch, Goes, treeVars, jobVars
    <2>2. /\ dir[s] /\ reg[s] = "registered" /\ got[d] \subseteq {id[d]}
          /\ reason[d] = "none" => got[d] = {id[d]}
      BY <1>1, <2>1 DEF DispatchInv, DispatchFits
    <2>3. /\ at'[d] = "destroy" /\ reason[d] = "none" => patch'[s] = {id[d]}
          /\ \A q \in Stories \ {s} : patch'[q] = patch[q]
      BY <1>2, <1>3, <2>1, <2>2
    <2>4. QED
      BY <1>1, <1>2, <1>4, <2>1, <2>2, <2>3 DEF DispatchInv, DispatchFits
  <1>7. CASE Destroy(d)
    <2>1. /\ at[d] = "destroy" /\ at' = [at EXCEPT ![d] = "record"]
          /\ UNCHANGED <<patch, got, reason>>
      BY <1>7 DEF Destroy, Goes, jobVars
    <2>2. /\ dir[s] /\ reg[s] = "registered" /\ got[d] \subseteq {id[d]}
          /\ reason[d] = "none" => patch[s] = {id[d]}
      BY <1>1, <2>1 DEF DispatchInv, DispatchFits
    <2>3. Removes(s) \/ LeavesBehind(s)
      BY <1>7, <2>2 DEF Destroy
    <2>4. /\ Gone(s)'
          /\ \A q \in Stories \ {s} : /\ dir'[q] = dir[q] /\ reg'[q] \in {reg[q], "none"}
                                      /\ (q \in left => q \in left')
          /\ \A q \in Stories : ~dir'[q] => edits'[q] = {}
      <3>1. \A gone : \A q \in Stories : Pruned(gone)[q] \in {reg[q], "none"}
        BY DEF Pruned
      <3>2. Pruned(Absent \cup {s})[s] = "none"
        BY <1>2, <2>2 DEF Pruned
      <3>3. CASE Removes(s)
        <4>1. /\ dir' = [dir EXCEPT ![s] = FALSE] /\ edits' = [edits EXCEPT ![s] = {}]
              /\ left' = left \ {s}
              /\ \/ reg' = [reg EXCEPT ![s] = "none"]
                 \/ reg' = Pruned(Absent \cup {s})
          BY <3>3 DEF Removes, NoDir
        <4>2. /\ ~dir'[s] /\ reg'[s] = "none"
              /\ \A q \in Stories \ {s} : /\ dir'[q] = dir[q] /\ edits'[q] = edits[q]
                                          /\ (q \in left => q \in left')
          BY <1>2, <1>3, <3>2, <4>1
        <4>3. \A q \in Stories \ {s} : reg'[q] \in {reg[q], "none"}
          BY <1>2, <1>3, <3>1, <4>1
        <4>4. edits'[s] = {}
          BY <1>2, <1>3, <4>1
        <4>5. QED
          BY <1>1, <1>e, <4>2, <4>3, <4>4 DEF Gone
      <3>4. CASE LeavesBehind(s)
        <4>1. /\ left' = left \cup {s}
              /\ \/ UNCHANGED <<dir, edits>>
                 \/ dir' = [dir EXCEPT ![s] = FALSE] /\ edits' = [edits EXCEPT ![s] = {}]
              /\ reg' \in {reg, Pruned(Absent)}
          BY <3>4 DEF LeavesBehind, NoDir
        <4>2. /\ \A q \in Stories \ {s} : /\ dir'[q] = dir[q] /\ edits'[q] = edits[q]
                                          /\ (q \in left => q \in left')
              /\ edits'[s] = {} \/ (edits'[s] = edits[s] /\ dir'[s] = dir[s])
              /\ s \in left'
          BY <1>2, <1>3, <4>1
        <4>3. \A q \in Stories \ {s} : reg'[q] \in {reg[q], "none"}
          BY <1>2, <1>3, <3>1, <4>1
        <4>4. QED
          BY <1>1, <1>e, <4>2, <4>3 DEF Gone
      <3>5. QED
        BY <2>3, <3>3, <3>4
    <2>5. at'[d] = "record"
      BY <1>2, <1>3, <2>1
    <2>6. QED
      BY <1>1, <1>2, <1>4, <2>1, <2>2, <2>4, <2>5 DEF DispatchInv, DispatchFits
  <1>8. CASE Record(d)
    <2>1. /\ at[d] = "record" /\ at' = [at EXCEPT ![d] = "settle"]
          /\ UNCHANGED <<patch, dir, edits, reg, left, got, reason>>
      BY <1>8 DEF Record, Goes, treeVars
    <2>2. at'[d] = "settle"
      BY <1>2, <1>3, <2>1
    <2>3. Gone(s) => Gone(s)'
      BY <1>1, <2>1 DEF Gone
    <2>4. QED
      BY <1>1, <1>2, <1>4, <1>e, <2>1, <2>2, <2>3 DEF DispatchInv, DispatchFits
  <1>9. QED
    BY <1>5, <1>6, <1>7, <1>8

LEMMA SettleInv ==
    ASSUME Guests = {}, TypeOK, DispatchInv,
           \/ Succeed(Daemon) \/ WriteFallback(Daemon) \/ TakeFallback(Daemon)
           \/ Fail(Daemon) \/ Crash(Daemon)
    PROVE  DispatchInv'
  <1> DEFINE d == Daemon
             s == on[Daemon]
  <1>1. at[d] # "idle" /\ s \in Stories /\ d \in Tickers
    BY Alone DEF Succeed, WriteFallback, TakeFallback, Fail, Crash
  <1>2. DispatchFits(s) /\ phase[s] = "OPENCODE_RUNNING"
    BY <1>1 DEF DispatchInv, DispatchFits
  <1>3. /\ at \in [Tickers -> Steps] /\ got \in [Tickers -> SUBSET Dispatches]
        /\ phase \in [Stories -> {"OPENCODE_RUNNING", "PATCH_PREVIEW", "ESCALATED"}]
        /\ author \in [Stories -> Dispatches] /\ patch \in [Stories -> SUBSET Dispatches]
    BY DEF TypeOK, Steps
  <1>4. Done(d) => at'[d] = "idle" /\ got'[d] = {}
    BY <1>1, <1>3 DEF Done, Goes
  <1>5. PreviewOwn /\ NoStrayWorktree
    BY DEF DispatchInv
  <1>6. CASE Succeed(d) \/ TakeFallback(d)
    <2> DEFINE who == IF at[d] = "settle" THEN id[d] ELSE FALLBACK
    <2>1. /\ Done(d) /\ phase' = [phase EXCEPT ![s] = "PATCH_PREVIEW"]
          /\ author' = [author EXCEPT ![s] = who]
          /\ UNCHANGED <<patch, dir, edits, reg, left>>
          /\ at[d] = "fallback" \/ (at[d] = "settle" /\ reason[d] = "none")
      BY <1>6 DEF Succeed, TakeFallback, Preview, treeVars
    <2>2. patch[s] = {who} /\ Gone(s)
      BY <1>2, <2>1 DEF DispatchFits, Ran
    <2>3. author'[s] = who /\ \A q \in Stories \ {s} : /\ phase'[q] = phase[q]
                                                       /\ author'[q] = author[q]
      BY <1>1, <1>3, <2>1
    <2> HIDE DEF who
    <2>4. PreviewOwn' /\ NoStrayWorktree'
      BY <1>5, <2>1, <2>2, <2>3 DEF PreviewOwn, NoStrayWorktree, Gone
    <2>5. QED
      BY <1>4, <2>1, <2>4 DEF DispatchInv
  <1>7. CASE WriteFallback(d)
    <2>1. /\ at[d] = "settle" /\ at' = [at EXCEPT ![d] = "fallback"]
          /\ reason[d] \in Eligible /\ patch' = [patch EXCEPT ![s] = {FALLBACK}]
          /\ UNCHANGED <<phase, author, dir, edits, reg, left, on, id, got>>
      BY <1>7 DEF WriteFallback, MayFallBack, Goes, storyVars, treeVars, jobVars
    <2>2. Gone(s) /\ Gone(s)'
      BY <1>2, <2>1 DEF DispatchFits, Ran, Gone
    <2>3. /\ at'[d] = "fallback" /\ patch'[s] = {FALLBACK}
          /\ \A q \in Stories \ {s} : patch'[q] = patch[q]
      BY <1>1, <1>3, <2>1
    <2>4. PreviewOwn' /\ NoStrayWorktree'
      <3>1. phase[s] # "PATCH_PREVIEW"
        BY <1>2
      <3>2. QED
        BY <1>1, <1>5, <2>1, <2>3, <3>1, PreviewsKept
    <2>5. QED
      BY <1>2, <2>1, <2>2, <2>3, <2>4 DEF DispatchInv, DispatchFits
  <1>8. CASE Fail(d) \/ Crash(d)
    <2>1. /\ Done(d) /\ UNCHANGED <<author, patch, dir, edits, reg, left>>
          /\ phase' = phase \/ \E p \in {"OPENCODE_RUNNING", "ESCALATED"} :
                                  phase' = [phase EXCEPT ![s] = p]
      BY <1>1, <1>8 DEF Fail, Crash, storyVars, treeVars
    <2>2. \A q \in Stories : phase'[q] = "PATCH_PREVIEW" => phase[q] = "PATCH_PREVIEW"
      BY <1>1, <1>3, <2>1
    <2>3. PreviewOwn' /\ NoStrayWorktree'
      BY <1>5, <2>1, <2>2 DEF PreviewOwn, NoStrayWorktree
    <2>4. QED
      BY <1>4, <2>1, <2>3 DEF DispatchInv
  <1>9. QED
    BY <1>6, <1>7, <1>8

LEMMA NextDispatch ==
    ASSUME Guests = {}, TypeOK, DispatchInv, [Next]_dispatchVars
    PROVE  DispatchInv'
  <1>1. \A t \in Tickers : t = Daemon
    BY DEF Tickers
  <1>2. CASE Works(Daemon) \/ Crash(Daemon)
    BY <1>2, BeginInv, WorktreeInv, OutcomeInv, SettleInv DEF Works
  <1>3. ASSUME UNCHANGED <<storyVars, patch, treeVars, at, jobVars>>
        PROVE  DispatchInv'
    BY <1>3
    DEF DispatchInv, DispatchFits, PreviewOwn, NoStrayWorktree, Gone, storyVars,
        treeVars, jobVars
  <1>4. QED
    BY <1>1, <1>2, <1>3
    DEF Next, StartCycle, EndCycle, Midnight, Review, dispatchVars

\* A run of the agent raises what is counted of its story, a failure counts it, and
\* a crash forgets it.
LEMMA NextRuns ==
    ASSUME Guests = {}, TypeOK, DispatchInv, RunsInv, [Next]_dispatchVars
    PROVE  RunsInv'
  <1> DEFINE d == Daemon
             s == on[Daemon]
             After == {"capture", "write", "destroy", "record", "settle", "fallback"}
  <1>1. /\ Tickers = {d} /\ Attempts \in Nat \ {0}
        /\ at[d] # "idle" => s \in Stories /\ phase[s] = "OPENCODE_RUNNING"
        /\ at[d] = "idle" => s \notin Stories
        /\ crashes \in Nat /\ ran \in [Stories -> Nat] /\ tries \in [Stories -> Nat]
        /\ on \in [Tickers -> Stories \cup {NoStory}] /\ at \in [Tickers -> Steps]
        /\ phase \in [Stories -> {"OPENCODE_RUNNING", "PATCH_PREVIEW", "ESCALATED"}]
    <2>1. /\ Tickers = {d} /\ Attempts \in Nat \ {0}
          /\ at[d] # "idle" => s \in Stories
          /\ at[d] = "idle" => s \notin Stories
      BY Alone
    <2>2. at[d] # "idle" => phase[s] = "OPENCODE_RUNNING"
      BY DEF DispatchInv, DispatchFits
    <2>3. /\ crashes \in Nat /\ ran \in [Stories -> Nat]
          /\ on \in [Tickers -> Stories \cup {NoStory}] /\ at \in [Tickers -> Steps]
          /\ phase \in [Stories -> {"OPENCODE_RUNNING", "PATCH_PREVIEW", "ESCALATED"}]
      BY DispatchAssumption DEF TypeOK, Steps
    <2>4. tries \in [Stories -> Nat]
      BY DispatchAssumption DEF TypeOK
    <2>5. QED
      BY <2>1, <2>2, <2>3, <2>4
  <1>2. \A q \in Stories : phase[q] = "OPENCODE_RUNNING" => tries[q] + 1 <= Attempts
    BY <1>1, DispatchAssumption DEF TypeOK
  <1>3. ASSUME UNCHANGED <<phase, tries, ran, on, crashes>>,
               \/ UNCHANGED at
               \/ \E label : /\ at' = [at EXCEPT ![d] = label]
                             /\ (at[d] \in After => label \in After)
        PROVE  RunsInv'
    <2>1. ASSUME NEW q \in Stories
          PROVE  Counting(q) \in Nat /\ Counting(q)' \in Nat /\ Counting(q) <= Counting(q)'
      <3>1. at[d] \in After => at'[d] \in After
        BY <1>1, <1>3
      <3>2. UNCHANGED <<phase, tries, on>> /\ tries[q] \in Nat /\ Attempts \in Nat
        BY <1>1, <1>3
      <3>3. QED
        BY <3>1, <3>2 DEF Counting
    <2>2. QED
      BY <1>1, <1>3, <2>1 DEF RunsInv
  <1>4. CASE \E q \in Stories : Begin(d, q)
    <2>1. PICK q \in Stories : Begin(d, q)
      BY <1>4
    <2>2. /\ at[d] = "idle" /\ UNCHANGED <<phase, tries, ran, crashes>>
      BY <2>1 DEF Begin, storyVars, moneyVars, clockVars
    <2>3. ASSUME NEW r \in Stories PROVE Counting(r) \in Nat /\ Counting(r) <= Counting(r)' /\ Counting(r)' \in Nat
      BY <1>1, <2>2 DEF Counting
    <2>4. QED
      BY <1>1, <2>2, <2>3 DEF RunsInv
  <1>5. CASE \/ Clear(d) \/ Add(d) \/ Checkout(d) \/ Capture(d) \/ WritePatch(d)
             \/ Destroy(d) \/ Record(d) \/ WriteFallback(d)
    <2>1. /\ UNCHANGED <<phase, tries, ran, on, crashes>>
          /\ \E label : /\ at' = [at EXCEPT ![d] = label]
                        /\ (at[d] \in After => label \in After)
      BY <1>5
      DEF Clear, Add, Checkout, Capture, WritePatch, Destroy, Record, WriteFallback,
          Goes, storyVars, jobVars, moneyVars, clockVars
    <2>2. QED
      BY <1>3, <2>1
  <1>6. CASE \E c \in 1..Dear : Agent(d, c)
    <2>p. PICK z \in Stories : z = s
      BY <1>1, <1>6 DEF Agent
    <2>1. /\ at[d] = "agent" /\ at' = [at EXCEPT ![d] = "capture"]
          /\ ran' = [ran EXCEPT ![z] = ran[z] + 1]
          /\ UNCHANGED <<phase, tries, on, crashes>>
      BY <1>6, <2>p DEF Agent, Goes, storyVars, clockVars
    <2>2. s \in Stories /\ phase[z] = "OPENCODE_RUNNING" /\ at'[d] = "capture"
      BY <1>1, <2>p, <2>1
    <2>3. /\ Counting(z) = tries[z] /\ Counting(z)' = tries[z] + 1
          /\ ran'[z] = ran[z] + 1
      BY <1>1, <2>p, <2>1, <2>2 DEF Counting
    <2>4. ASSUME NEW q \in Stories, q # z
          PROVE  Counting(q)' = Counting(q) /\ ran'[q] = ran[q]
      <3>1. ran'[q] = ran[q]
        BY <1>1, <2>1, <2>4
      <3>2. ~(on[d] = q) /\ ~(on'[d] = q) /\ UNCHANGED <<phase, tries>>
        BY <2>p, <2>1, <2>4
      <3>3. QED
        BY <3>1, <3>2 DEF Counting
    <2>5. ASSUME NEW q \in Stories PROVE ran'[q] <= Counting(q)' + crashes'
      <3>1. CASE q = z
        BY <1>1, <2>1, <2>2, <2>3, <3>1 DEF RunsInv
      <3>2. CASE q # z
        BY <2>1, <2>4, <3>2 DEF RunsInv
      <3>3. QED
        BY <3>1, <3>2
    <2>6. QED
      BY <2>5 DEF RunsInv
  <1>7. CASE Succeed(d) \/ TakeFallback(d) \/ Fail(d) \/ Crash(d)
    <2>p. PICK z \in Stories : z = s
      BY <1>1, <1>7 DEF Succeed, TakeFallback, Fail, Crash
    <2>1. /\ at[d] # "idle" /\ on' = [on EXCEPT ![d] = NoStory]
          /\ UNCHANGED ran
          /\ \/ /\ phase' = [phase EXCEPT ![z] = "PATCH_PREVIEW"]
                /\ UNCHANGED <<tries, crashes>>
             \/ /\ tries' = [tries EXCEPT ![z] = tries[z] + 1] /\ UNCHANGED crashes
                /\ phase' = [phase EXCEPT ![z] = IF tries[z] + 1 < Attempts
                                                 THEN "OPENCODE_RUNNING" ELSE "ESCALATED"]
             \/ UNCHANGED <<phase, tries>> /\ crashes' = crashes + 1
      BY <1>7, <2>p
      DEF Succeed, TakeFallback, Fail, Crash, Preview, Done, Counted, Tries, storyVars,
          moneyVars, clockVars
    <2>2. /\ s \in Stories /\ phase[z] = "OPENCODE_RUNNING" /\ tries[z] + 1 <= Attempts
          /\ tries[z] \in Nat /\ Attempts \in Nat /\ crashes \in Nat
      BY <1>1, <1>2, <2>p, <2>1
    <2>3. on'[d] \notin Stories
      BY <1>1, <2>1, DispatchAssumption
    <2>o. ~(on'[d] = z)
      BY <2>2, <2>3
    <2>4. Counting(z) <= tries[z] + 1 /\ Counting(z) \in Nat
      BY <1>1, <2>p, <2>2 DEF Counting
    <2>5. Counting(z)' + crashes' >= tries[z] + 1 + crashes
      <3>1. CASE phase' = [phase EXCEPT ![z] = "PATCH_PREVIEW"] /\ UNCHANGED <<tries, crashes>>
        <4>1. phase'[z] = "PATCH_PREVIEW"
          BY <1>1, <2>2, <3>1
        <4>2. Counting(z)' = Attempts
          BY <4>1 DEF Counting
        <4>3. QED
          BY <2>2, <3>1, <4>2
      <3>2. CASE /\ tries' = [tries EXCEPT ![z] = tries[z] + 1] /\ UNCHANGED crashes
                 /\ phase' = [phase EXCEPT ![z] = IF tries[z] + 1 < Attempts
                                                  THEN "OPENCODE_RUNNING" ELSE "ESCALATED"]
        <4>1. /\ tries'[z] = tries[z] + 1
              /\ phase'[z] = IF tries[z] + 1 < Attempts THEN "OPENCODE_RUNNING" ELSE "ESCALATED"
          BY <1>1, <2>2, <3>2
        <4>2. Counting(z)' = tries[z] + 1 \/ (Counting(z)' = Attempts /\ tries[z] + 1 <= Attempts)
          BY <2>2, <2>o, <4>1 DEF Counting
        <4>3. QED
          BY <2>2, <3>2, <4>2
      <3>3. CASE UNCHANGED <<phase, tries>> /\ crashes' = crashes + 1
        <4>1. Counting(z)' = tries[z]
          BY <2>2, <2>o, <3>3 DEF Counting
        <4>2. QED
          BY <2>2, <3>3, <4>1
      <3>4. QED
        BY <2>1, <3>1, <3>2, <3>3
    <2>6. ASSUME NEW q \in Stories, q # z
          PROVE  Counting(q)' = Counting(q) /\ Counting(q) \in Nat
      <3>1. phase'[q] = phase[q] /\ tries'[q] = tries[q] /\ tries[q] \in Nat
        BY <1>1, <2>1, <2>6
      <3>2. ~(on[d] = q) /\ ~(on'[d] = q)
        BY <2>p, <2>3, <2>6
      <3>3. QED
        BY <2>2, <3>1, <3>2 DEF Counting
    <2>7. ASSUME NEW q \in Stories PROVE ran'[q] <= Counting(q)' + crashes'
      <3>1. ran'[q] = ran[q] /\ ran[q] \in Nat /\ ran[q] <= Counting(q) + crashes
        BY <1>1, <2>1 DEF RunsInv
      <3>2. crashes' \in {crashes, crashes + 1}
        BY <2>1
      <3>3. CASE q = z
        <4>1. Counting(z)' + crashes' >= tries[z] + 1 + crashes /\ Counting(z) <= tries[z] + 1
          BY <2>4, <2>5
        <4>2. ran[z] <= tries[z] + 1 + crashes
          BY <2>2, <2>4, <3>1, <3>3
        <4>3. Counting(z)' \in Int
          <5>1. Counting(z)' \in {Attempts, tries[z]', tries[z]' + 1, tries[z]' + 0}
            BY <2>o DEF Counting
          <5>2. tries[z]' \in {tries[z], tries[z] + 1}
            BY <1>1, <2>1, <2>2
          <5>3. QED
            BY <2>2, <5>1, <5>2
        <4>4. QED
          BY <2>2, <3>1, <3>2, <3>3, <4>1, <4>2, <4>3
      <3>4. CASE q # z
        BY <1>1, <2>6, <3>1, <3>2, <3>4
      <3>5. QED
        BY <3>3, <3>4
    <2>8. QED
      BY <2>7 DEF RunsInv
  <1>8. CASE StartCycle \/ EndCycle \/ Midnight \/ Reviews \/ UNCHANGED dispatchVars
    <2>1. UNCHANGED <<phase, tries, ran, on, at, crashes>>
      BY <1>8
      DEF StartCycle, EndCycle, Midnight, Reviews, Review, dispatchVars, storyVars,
          jobVars, moneyVars, clockVars
    <2>2. QED
      BY <1>3, <2>1
  <1>9. \A t \in Tickers : t = d
    BY <1>1
  <1>10. QED
    BY <1>4, <1>5, <1>6, <1>7, <1>8, <1>9 DEF Next, Works, Reviews

LEMMA DispatchInvariant ==
    ASSUME Guests = {}
    PROVE  Spec => [](TypeOK /\ DispatchInv)
  <1>1. Init => TypeOK /\ DispatchInv
    BY DispatchAssumption
    DEF Init, TypeOK, Dispatches, Reasons, DispatchInv, PreviewOwn, NoStrayWorktree,
        Tickers
  <1>2. TypeOK /\ DispatchInv /\ [Next]_dispatchVars => (TypeOK /\ DispatchInv)'
    BY DispatchNextType, NextDispatch
  <1>3. QED
    BY <1>1, <1>2, PTL DEF Spec

\* With the daemon as the only dispatcher, the candidate of a story at its
\* preview is what the dispatch, or the fallback, that moved it there wrote,
\* for any number of stories, attempts and crashes, and whatever worktrees could
\* not be removed before.
THEOREM PreviewsAreOwn == ASSUME Guests = {} PROVE Spec => []PreviewOwn
  BY DispatchInvariant, PTL DEF DispatchInv

\* And what is left of its worktree, or of git's registration, was left by a failing
\* step of its last removal.
THEOREM WorktreesAreGone == ASSUME Guests = {} PROVE Spec => []NoStrayWorktree
  BY DispatchInvariant, PTL DEF DispatchInv

\* The daemon's agent runs for a story are at most its attempts and the crashes.
THEOREM RunsAreCounted == ASSUME Guests = {} PROVE Spec => []AttemptsPaid
  <1>1. Init => RunsInv
    BY DispatchAssumption DEF Init, RunsInv, Counting, Tickers
  <1>2. ASSUME Guests = {}, TypeOK, RunsInv PROVE AttemptsPaid
    <2>1. ASSUME NEW s \in Stories PROVE ran[s] <= Attempts + crashes
      <3>1. /\ ran[s] \in Nat /\ crashes \in Nat /\ Attempts \in Nat /\ tries[s] \in Nat
            /\ phase[s] = "OPENCODE_RUNNING" => tries[s] + 1 <= Attempts
        BY <1>2, DispatchAssumption DEF TypeOK
      <3>2. Counting(s) <= Attempts /\ Counting(s) \in Nat
        BY <3>1 DEF Counting
      <3>3. QED
        BY <1>2, <3>1, <3>2 DEF RunsInv
    <2>2. QED
      BY <2>1 DEF AttemptsPaid
  <1>3. ASSUME Guests = {}
        PROVE  TypeOK /\ DispatchInv /\ RunsInv /\ [Next]_dispatchVars => RunsInv'
    BY <1>3, NextRuns
  <1>4. QED
    BY <1>1, <1>2, <1>3, DispatchInvariant, PTL DEF Spec

\* Nor does a dispatch ever hold the edits of another, a timed-out or crashed one
\* included (opencode-sandbox-preflight.js:206-208).
THEOREM EditsAreOwn == ASSUME Guests = {} PROVE Spec => []OwnEdits
  <1>1. ASSUME Guests = {}, DispatchInv PROVE OwnEdits
    BY <1>1 DEF DispatchInv, OwnEdits, Tickers
  <1>2. QED
    BY <1>1, DispatchInvariant, PTL

\* Shapes, and no story is tried more often than its attempts.
THEOREM DispatchTyped == ASSUME Guests = {} PROVE Spec => []TypeOK
  BY DispatchInvariant, PTL
=============================================================================
