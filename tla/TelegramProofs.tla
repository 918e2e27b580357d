---------------------------- MODULE TelegramProofs ----------------------------
(***************************************************************************)
(* Telegram, by which people run the project: what the bot and the mode    *)
(* keep for any number of tokens and confirmers, any life of a token and   *)
(* length of a window, any queue and any number of deaths; and that the    *)
(* chain of commands from candidate to push lets nothing reach the tree, a *)
(* commit or origin that no person approved, for any number of sandboxes,  *)
(* dispatches and commits.                                                 *)
(***************************************************************************)
EXTENDS TelegramBot, OperatorChain, SequenceTheorems, TLAPS

-----------------------------------------------------------------------------
(* The mode.                                                               *)

Request == [status : {"none", "pending", "confirmed", "expired"}, expires : Nat, hours : Nat]

ModeTyped ==
    /\ mode \in [fullauto : BOOLEAN, until : Nat] /\ request \in [Tokens -> Request]
    /\ marking \in [Confirmers -> Tokens \cup {NoToken}]
    /\ now \in Nat /\ uses \in [Tokens -> Nat]

\* The window that is open closes with the latest one some used token could open.
Granted(k) == uses[k] > 0 /\ mode.until <= request[k].expires + request[k].hours

ModeInv ==
    /\ ModeTyped
    /\ \A k \in Tokens : uses[k] > 0 => request[k].status # "none"
    /\ mode.fullauto => \E k \in Tokens : Granted(k)

LEMMA ModeStarts == ModeInit => ModeInv
  BY ModeAssumption DEF ModeInit, ModeInv, ModeTyped, Request, APPROVAL

\* A step that leaves window and uses alone, and of each used token the times.
LEMMA TokensChange ==
    ASSUME ModeInv, ModeTyped', UNCHANGED <<mode, uses>>,
           \A k \in Tokens : uses[k] > 0 =>
               /\ request'[k].status # "none"
               /\ request'[k].expires = request[k].expires
               /\ request'[k].hours = request[k].hours
    PROVE  ModeInv'
  BY DEF ModeInv, Granted

\* Back to approval mode.
LEMMA WindowCloses ==
    ASSUME ModeInv, mode' = APPROVAL, UNCHANGED <<request, marking, now, uses>>
    PROVE  ModeInv'
  BY ModeAssumption DEF ModeInv, ModeTyped, APPROVAL

LEMMA RequestKeeps ==
    ASSUME ModeInv, NEW k \in Tokens, NEW hours \in Nat, RequestFullauto(k, hours)
    PROVE  ModeInv'
  <1>1. ModeTyped'
    BY ModeAssumption DEF RequestFullauto, ModeInv, ModeTyped, Request
  <1>2. ~(uses[k] > 0)
    BY DEF RequestFullauto, ModeInv
  <1>3. QED
    BY <1>1, <1>2, TokensChange DEF RequestFullauto, ModeInv, ModeTyped

LEMMA OpenKeeps ==
    ASSUME ModeInv, NEW p \in Confirmers, NEW k \in Tokens, OpenWindow(p, k)
    PROVE  ModeInv'
  <1>1. request[k] \in Request /\ now \in Nat /\ uses[k] \in Nat
    BY DEF ModeInv, ModeTyped
  <1>2. ModeTyped'
    BY <1>1 DEF OpenWindow, ModeInv, ModeTyped, Request
  <1>3. uses' = [uses EXCEPT ![k] = @ + 1] /\ uses'[k] > 0 /\ UNCHANGED request
    BY <1>1 DEF OpenWindow, ModeInv, ModeTyped
  <1>4. Granted(k)'
    BY <1>1, <1>3 DEF OpenWindow, Confirmable, Granted, Request
  <1>5. \A i \in Tokens : uses'[i] > 0 => request'[i].status # "none"
    BY <1>3 DEF OpenWindow, Confirmable, ModeInv, ModeTyped
  <1>6. QED
    BY <1>2, <1>4, <1>5 DEF ModeInv

LEMMA MarkKeeps ==
    ASSUME ModeInv, NEW p \in Confirmers, MarkConfirmed(p) PROVE ModeInv'
  <1> DEFINE k == marking[p]
  <1>1. k \in Tokens /\ request[k] \in Request
    BY DEF MarkConfirmed, ModeInv, ModeTyped
  <1>2. request' = [request EXCEPT ![k] = [request[k] EXCEPT !.status = "confirmed"]]
    BY DEF MarkConfirmed
  <1>3. [request[k] EXCEPT !.status = "confirmed"] \in Request
    BY <1>1 DEF Request
  <1>4. ModeTyped'
    BY <1>1, <1>2, <1>3 DEF MarkConfirmed, ModeInv, ModeTyped
  <1>5. QED
    BY <1>1, <1>2, <1>4, TokensChange DEF MarkConfirmed, ModeInv, ModeTyped, Request

LEMMA ExpireKeeps ==
    ASSUME ModeInv, NEW k \in Tokens, Expire(k) PROVE ModeInv'
  <1>1. request[k] \in Request
    BY DEF ModeInv, ModeTyped
  <1>2. request' = [request EXCEPT ![k] = [request[k] EXCEPT !.status = "expired"]]
    BY DEF Expire
  <1>3. [request[k] EXCEPT !.status = "expired"] \in Request
    BY <1>1 DEF Request
  <1>4. ModeTyped'
    BY <1>2, <1>3 DEF Expire, ModeInv, ModeTyped
  <1>5. QED
    BY <1>1, <1>2, <1>4, TokensChange DEF Expire, ModeInv, ModeTyped, Request

-----------------------------------------------------------------------------
Update == [command : Commands, ran : BOOLEAN]

\* The offset in memory is at or past the saved one, neither is past an update that
\* was not handled, and a process that polls has saved what it did.
QueueInv ==
    /\ waiting \in Seq(Update)
    /\ offset \in 0 .. Len(waiting) /\ saved \in 0 .. Len(waiting) /\ batch \in 0 .. Len(waiting)
    /\ \A i \in 1 .. Len(waiting) : i <= offset \/ i <= saved => waiting[i].ran
    /\ pc \in {"poll", "handle", "reply", "down"}
    /\ pc = "poll" => saved = offset
    /\ pc = "handle" => offset < batch

LEMMA QueueStarts == Init => QueueInv
  BY DEF Init, QueueInv

LEMMA QueueStep == QueueInv /\ [Next]_vars => QueueInv'
  <1> SUFFICES ASSUME QueueInv, [Next]_vars PROVE QueueInv'
    OBVIOUS
  <1>1. CASE UNCHANGED botVars
    BY <1>1 DEF botVars, QueueInv
  <1>2. ASSUME NEW c \in Commands, Send(c) PROVE QueueInv'
    <2> DEFINE u == [command |-> c, ran |-> FALSE]
    <2>1. u \in Update /\ waiting \in Seq(Update) /\ waiting' = Append(waiting, u)
      BY <1>2 DEF Send, QueueInv, Update
    <2>2. /\ waiting' \in Seq(Update) /\ Len(waiting') = Len(waiting) + 1
          /\ \A i \in 1 .. Len(waiting) : waiting'[i] = waiting[i]
      BY <2>1
    <2>3. UNCHANGED <<offset, saved, batch, pc>>
      BY <1>2 DEF Send
    <2>4. QED
      BY <2>2, <2>3 DEF QueueInv
  <1>3. CASE Poll
    <2>1. /\ waiting \in Seq(Update) /\ offset \in 0 .. Len(waiting) /\ saved = offset
          /\ waiting' = SubSeq(waiting, offset + 1, Len(waiting))
      BY <1>3 DEF Poll, QueueInv
    <2>2. waiting' \in Seq(Update) /\ Len(waiting') \in Nat
      <3>1. CASE offset = Len(waiting)
        BY <2>1, <3>1
      <3>2. CASE offset # Len(waiting)
        <4>1. \A i \in offset + 1 .. Len(waiting) : waiting[i] \in Update
          BY <2>1, ElementOfSeq
        <4>2. QED
          BY <2>1, <4>1, SubSeqProperties
      <3>3. QED
        BY <3>1, <3>2
    <2>3. offset' = 0 /\ saved' = 0
      BY <1>3, <2>1 DEF Poll
    <2>4. /\ batch' = Len(waiting') /\ pc' \in {"poll", "handle"}
          /\ pc' = "handle" => batch' # 0
      BY <1>3 DEF Poll
    <2>5. QED
      BY <2>2, <2>3, <2>4 DEF QueueInv
  <1>4. CASE Handle
    <2>1. /\ waiting \in Seq(Update) /\ offset' = offset + 1 /\ offset' \in 1 .. Len(waiting)
          /\ waiting' = [waiting EXCEPT ![offset'] = [waiting[offset'] EXCEPT !.ran = TRUE]]
      BY <1>4 DEF Handle, QueueInv
    <2>2. waiting[offset'] \in Update
      BY <2>1, ElementOfSeq
    <2>3. /\ [waiting[offset'] EXCEPT !.ran = TRUE] \in Update
          /\ [waiting[offset'] EXCEPT !.ran = TRUE].ran
      BY <2>2 DEF Update
    <2>4. /\ waiting' \in Seq(Update) /\ Len(waiting') = Len(waiting)
          /\ waiting'[offset'].ran
          /\ \A i \in 1 .. Len(waiting) : i # offset' => waiting'[i] = waiting[i]
      BY <2>1, <2>2, <2>3
    <2>5. pc' = "reply" /\ UNCHANGED <<saved, batch>>
      BY <1>4 DEF Handle
    <2>6. QED
      BY <2>1, <2>4, <2>5 DEF QueueInv
  <1>5. CASE Answer \/ Refused
    BY <1>5 DEF Answer, Refused, SavedOffset, PollsOn, QueueInv
  <1>6. CASE Die \/ Start
    BY <1>6 DEF Die, Start, LoadedOffset, QueueInv
  <1>7. QED
    BY <1>1, <1>2, <1>3, <1>4, <1>5, <1>6
       DEF Next, vars, Polling, Mark, CliStep

LEMMA QueueHolds == Spec => []QueueInv
  BY QueueStarts, QueueStep, PTL DEF Spec

\* getUpdates never lets Telegram forget an update that was not handled: only a
\* poll shortens the queue, and by what was handled (runtime.js:140-157).
THEOREM NoneIsSkipped == Spec => NoneSkipped
  <1>1. QueueInv /\ [Next]_vars =>
          [Len(waiting') < Len(waiting) =>
             \A i \in 1..(Len(waiting) - Len(waiting')) : waiting[i].ran]_vars
    <2> SUFFICES ASSUME QueueInv, [Next]_vars, Len(waiting') < Len(waiting),
                        NEW i \in 1..(Len(waiting) - Len(waiting'))
                 PROVE waiting[i].ran
      OBVIOUS
    <2>1. CASE Poll
      <3>1. /\ waiting \in Seq(Update)
            /\ offset \in 0 .. Len(waiting)
            /\ waiting' = SubSeq(waiting, offset + 1, Len(waiting))
        BY <2>1 DEF Poll, QueueInv
      <3>2. Len(waiting) - Len(waiting') = offset
        BY <3>1
      <3>3. QED
        BY <3>1, <3>2 DEF QueueInv
    <2>2. CASE ~Poll
      <3>1. ASSUME NEW c \in Commands, Send(c) PROVE FALSE
        <4>1. Len(waiting') = Len(waiting) + 1
          BY <3>1 DEF Send, QueueInv
        <4>2. QED
          BY <4>1 DEF QueueInv
      <3>2. CASE Handle
        BY <3>2 DEF Handle, QueueInv
      <3>3. QED
        BY <2>2, <3>1, <3>2 DEF Next, vars, botVars, Polling, Mark, Answer, Refused, Start, Die, CliStep
    <2>3. QED
      BY <2>1, <2>2
  <1>2. QED
    BY <1>1, QueueHolds, PTL DEF Spec, NoneSkipped

-----------------------------------------------------------------------------
\* The command that is handled is one that was sent.
LEMMA HandledIsCommand ==
    ASSUME QueueInv, Handle PROVE waiting[offset'].command \in Commands
  <1>1. waiting \in Seq(Update) /\ offset' \in 1 .. Len(waiting)
    BY DEF QueueInv, Handle
  <1>2. waiting[offset'] \in Update
    BY <1>1, ElementOfSeq
  <1>3. QED
    BY <1>2 DEF Update

LEMMA ModeStep == QueueInv /\ ModeInv /\ [Next]_vars => ModeInv'
  <1> SUFFICES ASSUME QueueInv, ModeInv, [Next]_vars PROVE ModeInv'
    OBVIOUS
  <1>1. ASSUME UNCHANGED modeVars PROVE ModeInv'
    BY <1>1 DEF modeVars, ModeInv, ModeTyped, Granted
  <1>2. CASE Handle
    <2> DEFINE c == waiting[offset'].command
    <2>1. c \in Commands
      BY <1>2, HandledIsCommand
    <2>2. Changes(c) \/ UNCHANGED modeVars
      BY <1>2 DEF Handle, NoChange
    <2> HIDE DEF c
    <2>3. CASE c.does = "mode_fullauto" /\ \E k \in Tokens, hours \in {1, MaxHours + 1} :
                  RequestFullauto(k, hours)
      BY <2>3, RequestKeeps, ModeAssumption
    <2>4. CASE c.does = "confirm" /\ (OpenWindow(Bot, c.token) \/ Expire(c.token))
      <3>1. c.token \in Tokens
        BY <2>1, <2>4 DEF Commands
      <3>2. QED
        BY <2>4, <3>1, OpenKeeps, ExpireKeeps, BotAssumption
    <2>5. CASE SetApproval
      BY <2>5, WindowCloses DEF SetApproval
    <2>6. QED
      BY <1>1, <2>2, <2>3, <2>4, <2>5 DEF Changes
  <1>3. CASE Mark
    BY <1>3, MarkKeeps, BotAssumption DEF Mark
  <1>4. CASE CliStep
    <2>1. CASE BeginRevert
      BY <2>1 DEF BeginRevert, ModeInv, ModeTyped, Granted
    <2>2. CASE EndRevert
      BY <2>2, WindowCloses DEF EndRevert
    <2>3. QED
      BY <1>4, <2>1, <2>2, OpenKeeps, ExpireKeeps, MarkKeeps, WindowCloses, BotAssumption
         DEF CliStep, SetApproval
  <1>5. CASE Die
    <2>1. ModeTyped'
      BY <1>5, BotAssumption DEF Die, ModeInv, ModeTyped
    <2>2. QED
      BY <1>5, <2>1 DEF Die, ModeInv, Granted
  <1>6. CASE Tick
    BY <1>6 DEF Tick, ModeInv, ModeTyped, Granted
  <1>7. QED
    BY <1>1, <1>2, <1>3, <1>4, <1>5, <1>6
       DEF Next, vars, Send, Polling, Poll, Answer, Refused, Start

LEMMA ModeHolds == Spec => []ModeInv
  BY ModeStarts, ModeStep, QueueHolds, PTL DEF Spec, Init

\* Approvals are automatic only within the longest window that a used token could
\* open, however often a confirmation is delivered and whatever the CLI, a revert
\* and a switch back do beside it (mode-manager.js, runtime.js).
THEOREM AutoWithinGrants == Spec => []AutoWithinGrant
  <1>1. ModeInv => AutoWithinGrant
    <2> SUFFICES ASSUME ModeInv, Effective
                 PROVE \E k \in Tokens : uses[k] > 0 /\ now <= request[k].expires + request[k].hours
      BY DEF AutoWithinGrant
    <2>1. PICK k \in Tokens : Granted(k)
      BY DEF ModeInv, Effective
    <2>2. request[k] \in Request /\ mode.until \in Nat /\ now \in Nat /\ mode.until >= now
      BY DEF ModeInv, ModeTyped, Effective
    <2>3. QED
      BY <2>1, <2>2 DEF Granted, Request
  <1>2. QED
    BY <1>1, ModeHolds, PTL

-----------------------------------------------------------------------------
\* The bounds of the shapes: the longest window, the last date, and what the queue
\* and the deaths are kept under.
BoundsInv ==
    /\ \A k \in Tokens : request[k].hours <= MaxHours
    /\ reverting \in BOOLEAN /\ now <= Never
    /\ Len(waiting) <= MaxWaiting
    /\ deaths \in 0..MaxDeaths

LEMMA BoundsStart == Init => BoundsInv
  <1> SUFFICES ASSUME Init PROVE BoundsInv
    OBVIOUS
  <1>1. \A k \in Tokens : request[k].hours = 0
    BY DEF Init, ModeInit
  <1>2. reverting = FALSE /\ now = 0 /\ deaths = 0 /\ waiting = <<>>
    BY DEF Init, ModeInit
  <1>3. Len(waiting) = 0
    BY <1>2
  <1>4. \A k \in Tokens : request[k].hours <= MaxHours
    <2>1. 0 <= MaxHours
      BY ModeAssumption
    <2>2. QED
      BY <1>1, <2>1, Zenon
  <1>5. now <= Never /\ Len(waiting) <= MaxWaiting /\ deaths \in 0..MaxDeaths
    BY <1>2, <1>3, ModeAssumption, BotAssumption
  <1>6. QED
    BY <1>2, <1>4, <1>5 DEF BoundsInv

\* No request asks for more than the longest window.
LEMMA HoursStay ==
    ASSUME ModeInv, ModeInv', QueueInv, [Next]_vars, \A k \in Tokens : request[k].hours <= MaxHours
    PROVE  \A k \in Tokens : request'[k].hours <= MaxHours
  <1> DEFINE Keeps == \A k \in Tokens : request'[k].hours <= MaxHours
  <1>1. request \in [Tokens -> Request] /\ MaxHours \in Nat
    BY ModeAssumption DEF ModeInv, ModeTyped
  <1>2. ASSUME NEW k \in Tokens, NEW hours \in Nat, RequestFullauto(k, hours) PROVE Keeps
    BY <1>1, <1>2 DEF RequestFullauto
  <1>3. ASSUME NEW k \in Tokens, Expire(k) PROVE Keeps
    BY <1>1, <1>3 DEF Expire, Request
  <1>4. ASSUME NEW p \in Confirmers, MarkConfirmed(p) PROVE Keeps
    BY <1>1, <1>4 DEF MarkConfirmed, Request
  <1>5. CASE UNCHANGED request
    BY <1>5
  <1>6. CASE Handle
    <2> DEFINE c == waiting[offset'].command
    <2>1. c \in Commands
      BY <1>6, HandledIsCommand
    <2>2. Changes(c) \/ UNCHANGED request
      BY <1>6 DEF Handle, NoChange, modeVars
    <2> HIDE DEF c
    <2>3. CASE \E k \in Tokens, hours \in {1, MaxHours + 1} : RequestFullauto(k, hours)
      BY <2>3, <1>2, ModeAssumption
    <2>4. CASE c.does = "confirm" /\ Expire(c.token)
      BY <2>1, <2>4, <1>3 DEF Commands
    <2>5. QED
      BY <1>5, <2>2, <2>3, <2>4 DEF Changes, OpenWindow, SetApproval
  <1>7. QED
    BY <1>3, <1>4, <1>5, <1>6, BotAssumption
       DEF Next, vars, modeVars, Send, Polling, Poll, Mark, Answer, Refused, Start, Die, CliStep, Tick,
           OpenWindow, SetApproval, BeginRevert, EndRevert

LEMMA QueueStaysShort ==
    ASSUME QueueInv, [Next]_vars, Len(waiting) <= MaxWaiting
    PROVE  Len(waiting') <= MaxWaiting
  <1>1. waiting \in Seq(Update) /\ Len(waiting) \in Nat
    BY DEF QueueInv
  <1>2. CASE UNCHANGED waiting
    BY <1>2
  <1>3. ASSUME NEW c \in Commands, Send(c) PROVE Len(waiting') <= MaxWaiting
    <2>1. Len(waiting') = Len(waiting) + 1 /\ Len(waiting) < MaxWaiting
      BY <1>1, <1>3 DEF Send
    <2>2. QED
      BY <1>1, <2>1, BotAssumption
  <1>4. CASE Poll
    <2>1. waiting' = SubSeq(waiting, offset + 1, Len(waiting)) /\ offset \in 0 .. Len(waiting)
      BY <1>4 DEF Poll, QueueInv
    <2>2. Len(waiting') = Len(waiting) - offset
      BY <1>1, <2>1
    <2>3. QED
      BY <1>1, <2>1, <2>2, BotAssumption
  <1>5. CASE Handle
    <2>1. Len(waiting') = Len(waiting)
      BY <1>1, <1>5 DEF Handle
    <2>2. QED
      BY <2>1
  <1>6. QED
    BY <1>2, <1>3, <1>4, <1>5
       DEF Next, vars, botVars, Polling, Mark, Answer, Refused, Start, Die, CliStep

LEMMA BoundsStep == ModeInv /\ ModeInv' /\ QueueInv /\ BoundsInv /\ [Next]_vars => BoundsInv'
  <1> SUFFICES ASSUME ModeInv, ModeInv', QueueInv, BoundsInv, [Next]_vars PROVE BoundsInv'
    OBVIOUS
  <1>1. reverting' \in BOOLEAN
    BY DEF BoundsInv, Next, vars, modeVars, Send, Polling, Poll, Handle, Changes, NoChange, Mark,
       Answer, Refused, Start, Die, CliStep, Tick, RequestFullauto, OpenWindow, MarkConfirmed, Expire,
       SetApproval, BeginRevert, EndRevert
  <1>2. now' = now \/ (now < Never /\ now' = now + 1)
    BY DEF Next, vars, modeVars, Send, Polling, Poll, Handle, Changes, NoChange, Mark,
       Answer, Refused, Start, Die, CliStep, Tick, RequestFullauto, OpenWindow, MarkConfirmed, Expire,
       SetApproval, BeginRevert, EndRevert
  <1>3. now' <= Never
    BY <1>2, ModeAssumption DEF BoundsInv, ModeInv, ModeTyped
  <1>4. deaths' = deaths \/ (deaths < MaxDeaths /\ deaths' = deaths + 1)
    BY DEF Next, vars, botVars, Send, Polling, Poll, Handle, Mark, Answer, Refused, Start, Die, CliStep
  <1>5. deaths' \in 0..MaxDeaths
    BY <1>4, BotAssumption DEF BoundsInv
  <1>6. QED
    BY <1>1, <1>3, <1>5, HoursStay, QueueStaysShort DEF BoundsInv

LEMMA BoundsHold == Spec => []BoundsInv
  BY BoundsStart, BoundsStep, QueueHolds, ModeHolds, PTL DEF Spec

\* Mode, tokens and queue have their shapes; no offset, in memory or in the file,
\* lies before the oldest update Telegram holds or past the latest, wherever the
\* process died (runtime.js:130-157).
THEOREM BotTyped == Spec => []TypeOK
  <1>1. ModeInv /\ QueueInv /\ BoundsInv => TypeOK
    <2> SUFFICES ASSUME ModeInv, QueueInv, BoundsInv PROVE TypeOK
      OBVIOUS
    <2>1. ASSUME NEW k \in Tokens
          PROVE  request[k] \in [status : {"none", "pending", "confirmed", "expired"},
                                 expires : Nat, hours : 0..MaxHours]
      <3>1. request[k] \in Request /\ request[k].hours <= MaxHours
        BY DEF ModeInv, ModeTyped, BoundsInv
      <3>2. request[k].hours \in 0..MaxHours
        BY <3>1, ModeAssumption DEF Request
      <3>3. QED
        BY <3>1, <3>2 DEF Request
    <2>2. request \in [Tokens -> [status : {"none", "pending", "confirmed", "expired"},
                                  expires : Nat, hours : 0..MaxHours]]
      BY <2>1 DEF ModeInv, ModeTyped
    <2>3. now \in 0..Never
      BY ModeAssumption DEF ModeInv, ModeTyped, BoundsInv
    <2>4. /\ offset \in 0..MaxWaiting /\ saved \in 0..MaxWaiting /\ batch \in 0..MaxWaiting
      BY BotAssumption DEF QueueInv, BoundsInv
    <2>5. QED
      BY <2>2, <2>3, <2>4 DEF TypeOK, ModeInv, ModeTyped, QueueInv, BoundsInv, Update
  <1>2. QED
    BY <1>1, ModeHolds, QueueHolds, BoundsHold, PTL

-----------------------------------------------------------------------------
(* The chain of commands.                                                  *)

Statuses == {"pending", "approved", "denied", "superseded"}
Kind(id) == IF id \in Boxes THEN "patch" ELSE IF id \in CommitIds THEN "commit" ELSE "push"
What(id) == IF id \in Boxes THEN {id} \X {1, 2} ELSE IF id \in CommitIds THEN Boxes ELSE Nat
Records(id) ==
    {[status |-> "none"]} \cup
    [status : Statuses, kind : {Kind(id)}, what : What(id), hash : SUBSET Edits]

\* A record under an id is of the kind the id was given out for.
Recorded ==
    /\ candidate \in [Boxes -> 0..2]
    /\ DOMAIN record = Ids
    /\ \A id \in Ids : record[id] \in Records(id)

\* What is staged lies in the tree; the trunk is a sequence of commits.
Worked == tree \subseteq Edits /\ idx \subseteq tree /\ trunk \in Seq(SUBSET Edits)

\* An approved record was shown as it stands.
Vouched ==
    \A id \in Ids : record[id].status = "approved" => <<record[id].kind, record[id].what>> \in shown

\* Staged edits are of sandboxes whose commit was approved.
StagedApproved == \A e \in idx : <<"commit", e[1]>> \in shown

ChainInv ==
    /\ Recorded /\ Worked /\ Vouched /\ StagedApproved
    /\ OnlyShownApplied /\ CommitsApproved /\ OriginApproved

LEMMA IdsApart ==
    /\ \A b \in Boxes : b \in Ids /\ Kind(b) = "patch" /\ What(b) = {b} \X {1, 2}
    /\ \A i \in CommitIds : i \in Ids /\ Kind(i) = "commit" /\ What(i) = Boxes
    /\ PushId \in Ids /\ Kind(PushId) = "push" /\ What(PushId) = Nat
  BY ChainAssumption DEF Ids, Kind, What

\* A new commit adds what was staged to what is committed.
LEMMA CommitAdds ==
    ASSUME trunk \in Seq(SUBSET Edits), NEW c \in SUBSET Edits, trunk' = Append(trunk, c)
    PROVE  Committed' = Committed \cup c /\ trunk' \in Seq(SUBSET Edits)
  <1>1. /\ trunk' \in Seq(SUBSET Edits) /\ Len(trunk') = Len(trunk) + 1
        /\ \A i \in 1..Len(trunk) : trunk'[i] = trunk[i]
        /\ trunk'[Len(trunk) + 1] = c
    OBVIOUS
  <1>2. Len(trunk) \in Nat
    OBVIOUS
  <1>3. \A e : e \in Committed' <=> e \in Committed \/ e \in c
    <2>1. \A i \in 1..(Len(trunk) + 1) : i \in 1..Len(trunk) \/ i = Len(trunk) + 1
      BY <1>2
    <2>2. 1..Len(trunk) \subseteq 1..(Len(trunk) + 1) /\ Len(trunk) + 1 \in 1..(Len(trunk) + 1)
      BY <1>2
    <2>3. QED
      BY <1>1, <2>1, <2>2 DEF Committed, Git!InTrunk
  <1>4. QED
    BY <1>1, <1>3

\* What an approved patch record stands for is a candidate's edit.
LEMMA AppliedIsEdit ==
    ASSUME Recorded, NEW b \in Boxes, Approved(b), SameCandidate(b)
    PROVE  record[b].kind = "patch" /\ record[b].what = Candidate(b) /\ Candidate(b) \in Edits
  <1>1. record[b] \in Records(b) /\ record[b].status = "approved"
    BY IdsApart DEF Approved, Recorded
  <1>2. record[b] \in [status : Statuses, kind : {Kind(b)}, what : What(b), hash : SUBSET Edits]
    BY <1>1 DEF Records
  <1>3. record[b].kind = "patch" /\ record[b].what \in {b} \X {1, 2}
    BY <1>2, IdsApart
  <1>4. QED
    BY <1>3 DEF SameCandidate, Edits

-----------------------------------------------------------------------------
LEMMA ChainStarts == ChainInit => ChainInv
  <1> SUFFICES ASSUME ChainInit PROVE ChainInv
    OBVIOUS
  <1>1. Recorded
    BY DEF ChainInit, Recorded, Records
  <1>2. Worked
    BY DEF ChainInit, Worked
  <1>3. Committed = {}
    BY DEF ChainInit, Committed, Git!InTrunk
  <1>4. QED
    BY <1>1, <1>2, <1>3 DEF ChainInit, ChainInv, Vouched, StagedApproved, OnlyShownApplied,
       CommitsApproved, OriginApproved

\* Steps that write one record and leave git alone.
LEMMA AskKeeps ==
    ASSUME ChainInv, NEW id \in Ids, NEW new \in Records(id), new.status # "approved",
           record' = [record EXCEPT ![id] = new],
           UNCHANGED <<candidate, gitVars, origin, shown>>
    PROVE  ChainInv'
  <1> USE DEF ChainInv
  <1>1. Recorded'
    BY DEF Recorded
  <1>2. Vouched'
    BY DEF Vouched, Recorded
  <1>3. Worked' /\ StagedApproved' /\ Committed' = Committed
    BY DEF Worked, StagedApproved, gitVars, Committed, Git!InTrunk
  <1>4. OnlyShownApplied' /\ CommitsApproved' /\ OriginApproved'
    BY <1>3 DEF OnlyShownApplied, CommitsApproved, OriginApproved, gitVars
  <1>5. QED
    BY <1>1, <1>2, <1>3, <1>4

LEMMA ChainStep == ChainInv /\ [ChainNext]_chainVars => ChainInv'
  <1> SUFFICES ASSUME ChainInv, [ChainNext]_chainVars PROVE ChainInv'
    OBVIOUS
  <1> USE DEF ChainInv
  <1>1. CASE UNCHANGED chainVars
    BY <1>1 DEF chainVars, gitVars, Recorded, Worked, Vouched, StagedApproved, OnlyShownApplied,
       CommitsApproved, OriginApproved, Committed, Git!InTrunk
  <1>2. ASSUME NEW b \in Boxes, Redispatch(b) PROVE ChainInv'
    <2>1. candidate' \in [Boxes -> 0..2]
      BY <1>2 DEF Redispatch, Recorded
    <2>2. QED
      BY <1>2, <2>1 DEF Redispatch, gitVars, Recorded, Worked, Vouched, StagedApproved,
         OnlyShownApplied, CommitsApproved, OriginApproved, Committed, Git!InTrunk
  <1>3. ASSUME NEW b \in Boxes, PatchApproval(b) PROVE ChainInv'
    <2>0. candidate[b] \in {1, 2}
      BY <1>3 DEF PatchApproval, Recorded
    <2>1. Asked("patch", Candidate(b), {}) \in Records(b)
      BY <2>0, IdsApart DEF Asked, Candidate, Records, Statuses
    <2>2. Asked("patch", Candidate(b), {}).status # "approved"
      BY DEF Asked
    <2>3. QED
      BY <1>3, <2>1, <2>2, IdsApart, AskKeeps DEF PatchApproval
  <1>4. ASSUME NEW b \in Boxes, Apply(b) PROVE ChainInv'
    <2>1. record[b].kind = "patch" /\ record[b].what = Candidate(b) /\ Candidate(b) \in Edits
      BY <1>4, AppliedIsEdit DEF Apply
    <2>2. <<"patch", Candidate(b)>> \in shown
      BY <1>4, <2>1, IdsApart DEF Apply, Approved, Vouched
    <2>3. Committed' = Committed
      BY <1>4 DEF Apply, Committed, Git!InTrunk
    <2>4. QED
      BY <1>4, <2>1, <2>2, <2>3 DEF Apply, Recorded, Worked, Vouched, StagedApproved,
         OnlyShownApplied, CommitsApproved, OriginApproved
  <1>5. ASSUME NEW b \in Boxes, Gates(b) PROVE ChainInv'
    BY <1>5 DEF Gates, gitVars, Recorded, Worked, Vouched, StagedApproved,
       OnlyShownApplied, CommitsApproved, OriginApproved, Committed, Git!InTrunk
  <1>6. ASSUME NEW b \in Boxes, NEW id \in CommitIds, CommitApproval(b, id) PROVE ChainInv'
    <2>1. Git!DiffHash \in SUBSET Edits
      BY DEF Git!DiffHash, Worked
    <2>2. Asked("commit", b, Git!DiffHash) \in Records(id)
      BY <2>1, IdsApart DEF Asked, Records, Statuses
    <2>3. Asked("commit", b, Git!DiffHash).status # "approved"
      BY DEF Asked
    <2>4. QED
      BY <1>6, <2>2, <2>3, IdsApart, AskKeeps DEF CommitApproval
  <1>7. ASSUME NEW id \in Ids, NEW verdict \in {"approved", "denied", "superseded"},
               Decide(id, verdict)
        PROVE ChainInv'
    <2>1. shown \subseteq shown'
      BY <1>7 DEF Decide
    <2>2. record'[id] = [record[id] EXCEPT !.status = verdict] /\ DOMAIN record' = Ids
      BY <1>7 DEF Decide, Recorded
    <2>3. record[id] \in [status : Statuses, kind : {Kind(id)}, what : What(id), hash : SUBSET Edits]
      BY <1>7 DEF Decide, Recorded, Records
    <2>4. /\ record'[id].status = verdict /\ record'[id].kind = record[id].kind
          /\ record'[id].what = record[id].what /\ record'[id] \in Records(id)
      BY <2>2, <2>3 DEF Records, Statuses
    <2>5. \A i \in Ids : i # id => record'[i] = record[i]
      BY <1>7 DEF Decide, Recorded
    <2>6. Recorded'
      BY <1>7, <2>2, <2>4, <2>5 DEF Decide, Recorded
    <2>7. Vouched'
      BY <1>7, <2>1, <2>4, <2>5 DEF Decide, Vouched
    <2>8. Committed' = Committed
      BY <1>7 DEF Decide, gitVars, Committed, Git!InTrunk
    <2>9. QED
      BY <1>7, <2>1, <2>6, <2>7, <2>8 DEF Decide, gitVars, Worked, StagedApproved,
         OnlyShownApplied, CommitsApproved, OriginApproved
  <1>8. ASSUME NEW id \in CommitIds, Commit(id) PROVE ChainInv'
    <2> DEFINE box == record[id].what
               staged == Staged(box)
    <2>1. <<"commit", box>> \in shown
      BY <1>8, IdsApart DEF Commit, Approved, Vouched, Recorded, Records
    <2>2. staged \subseteq tree /\ \A e \in staged : <<"commit", e[1]>> \in shown
      BY <2>1 DEF Staged, FileOf, Worked, StagedApproved
    <2>3. UNCHANGED <<candidate, record, origin, shown>>
      BY <1>8 DEF Commit
    <2>4. Recorded' /\ Vouched' /\ OriginApproved'
      BY <2>3 DEF Recorded, Vouched, OriginApproved
    <2>5. CASE trunk' = Append(trunk, staged) /\ tree' = tree \ staged /\ idx' = {}
      <3>1. Committed' = Committed \cup staged /\ trunk' \in Seq(SUBSET Edits)
        BY <2>2, <2>5, CommitAdds DEF Worked
      <3>2. QED
        BY <2>2, <2>3, <2>4, <2>5, <3>1 DEF Worked, StagedApproved, OnlyShownApplied,
           CommitsApproved
    <2>6. CASE idx' = staged /\ UNCHANGED <<tree, trunk>>
      <3>1. Committed' = Committed
        BY <2>6 DEF Committed, Git!InTrunk
      <3>2. QED
        BY <2>2, <2>3, <2>4, <2>6, <3>1 DEF Worked, StagedApproved, OnlyShownApplied,
           CommitsApproved
    <2>7. QED
      BY <1>8, <2>5, <2>6 DEF Commit
  <1>9. ASSUME PushApproval PROVE ChainInv'
    <2>1. Len(trunk) \in Nat
      BY DEF Worked
    <2>2. Asked("push", Len(trunk), {}) \in Records(PushId)
      BY <2>1, IdsApart DEF Asked, Records, Statuses
    <2>3. Asked("push", Len(trunk), {}).status # "approved"
      BY DEF Asked
    <2>4. QED
      BY <1>9, <2>2, <2>3, IdsApart, AskKeeps DEF PushApproval
  <1>10. ASSUME Push PROVE ChainInv'
    <2>1. <<"push", Len(trunk)>> \in shown
      BY <1>10, IdsApart DEF Push, Approved, ApprovedTip, Vouched, Recorded, Records
    <2>2. OriginApproved'
      BY <1>10, <2>1 DEF Push, OriginApproved
    <2>3. QED
      BY <1>10, <2>2 DEF Push, gitVars, Recorded, Worked, Vouched, StagedApproved,
         OnlyShownApplied, CommitsApproved, Committed, Git!InTrunk
  <1>11. QED
    BY <1>1, <1>2, <1>3, <1>4, <1>5, <1>6, <1>7, <1>8, <1>9, <1>10 DEF ChainNext

LEMMA ChainHolds == ChainSpec => []ChainInv
  BY ChainStarts, ChainStep, PTL DEF ChainSpec

LEMMA ShapesStep == ChainInv /\ ChainTypeOK /\ [ChainNext]_chainVars => ChainTypeOK'
  <1> SUFFICES ASSUME ChainInv, ChainTypeOK, [ChainNext]_chainVars PROVE ChainTypeOK'
    OBVIOUS
  <1> USE DEF ChainTypeOK
  <1>1. CASE UNCHANGED chainVars
    BY <1>1 DEF chainVars, gitVars
  <1>2. ASSUME NEW b \in Boxes, Redispatch(b) PROVE ChainTypeOK'
    BY <1>2 DEF Redispatch, gitVars
  <1>3. ASSUME NEW b \in Boxes, PatchApproval(b) PROVE ChainTypeOK'
    BY <1>3 DEF PatchApproval, gitVars
  <1>4. ASSUME NEW b \in Boxes, Apply(b) PROVE ChainTypeOK'
    <2>1. Candidate(b) \in Edits /\ Candidate(b)[1] = b
      BY <1>4, AppliedIsEdit DEF Apply, ChainInv, Candidate
    <2>2. \A e \in tree : e[1] # b
      BY <1>4, <2>1 DEF Apply, AppliesCleanly, FileOf
    <2>3. QED
      BY <1>4, <2>1, <2>2 DEF Apply
  <1>5. ASSUME NEW b \in Boxes, Gates(b) PROVE ChainTypeOK'
    BY <1>5 DEF Gates, gitVars
  <1>6. ASSUME NEW b \in Boxes, NEW id \in CommitIds, CommitApproval(b, id) PROVE ChainTypeOK'
    BY <1>6 DEF CommitApproval, gitVars
  <1>7. ASSUME NEW id \in Ids, NEW verdict \in {"approved", "denied", "superseded"},
               Decide(id, verdict)
        PROVE ChainTypeOK'
    BY <1>7 DEF Decide, gitVars
  <1>8. ASSUME NEW id \in CommitIds, Commit(id) PROVE ChainTypeOK'
    <2> DEFINE staged == Staged(record[id].what)
    <2>1. staged \subseteq tree
      BY DEF Staged, FileOf
    <2>2. CASE trunk' = Append(trunk, staged) /\ tree' = tree \ staged /\ idx' = {}
      <3>1. trunk' \in Seq(SUBSET Edits) /\ Len(trunk') = Len(trunk) + 1 /\ Len(trunk) \in Nat
        BY <2>1, <2>2
      <3>2. origin' \in 0..Len(trunk')
        BY <1>8, <3>1 DEF Commit
      <3>3. QED
        BY <1>8, <2>2, <3>1, <3>2 DEF Commit
    <2>3. CASE idx' = staged /\ UNCHANGED <<tree, trunk>>
      BY <1>8, <2>1, <2>3 DEF Commit
    <2>4. QED
      BY <1>8, <2>2, <2>3 DEF Commit
  <1>9. ASSUME PushApproval PROVE ChainTypeOK'
    BY <1>9 DEF PushApproval, gitVars
  <1>10. ASSUME Push PROVE ChainTypeOK'
    <2>1. Len(trunk) \in Nat
      OBVIOUS
    <2>2. QED
      BY <1>10, <2>1 DEF Push, gitVars
  <1>11. QED
    BY <1>1, <1>2, <1>3, <1>4, <1>5, <1>6, <1>7, <1>8, <1>9, <1>10 DEF ChainNext

\* Shapes, and at most one version of a candidate in the working tree however often
\* it is rewritten and applied (opencode-apply.js, git apply's own check).
THEOREM ChainTyped == ChainSpec => []ChainTypeOK
  <1>1. ChainInit => ChainTypeOK
    BY DEF ChainInit, ChainTypeOK
  <1>2. QED
    BY <1>1, ShapesStep, ChainHolds, PTL DEF ChainSpec

\* Every edit in the working tree or in a commit was shown to a person and
\* approved for apply (opencode-apply-preflight.js:65-110).
THEOREM AppliedWereShown == ChainSpec => []OnlyShownApplied
  BY ChainHolds, PTL DEF ChainInv

\* git commit takes the whole index, yet what is in it was approved for commit
\* (opencode-commit.js:119-158).
THEOREM CommitsWereApproved == ChainSpec => []CommitsApproved
  BY ChainHolds, PTL DEF ChainInv

\* Origin's branch is at a commit approved for push (opencode-push.js:62-105).
THEOREM OriginWasApproved == ChainSpec => []OriginApproved
  BY ChainHolds, PTL DEF ChainInv
=============================================================================
