----------------------------- MODULE TelegramBot -----------------------------
(***************************************************************************)
(* The long-polling Telegram runtime, delivering mode commands: updates    *)
(* wait at Telegram until getUpdates asks for a later offset; each one is  *)
(* handled, answered, and only then is the offset saved.  A reply that     *)
(* fails ends the process, as a crash does; it starts again from the saved *)
(* offset, so an update may be handled more than once, and one whose reply *)
(* Telegram always refuses is handled again and again.  The CLI changes    *)
(* the mode beside the bot.  Offsets are counted from the oldest update    *)
(* Telegram still holds.                                                   *)
(* Source: src/telegram/runtime.js, bot.js, auth.js, command-parser.js,    *)
(* handlers.js, src/ralph/cli.js.                                          *)
(***************************************************************************)
EXTENDS ModeControl, Sequences

CONSTANTS
    Bot, Cli,      \* the Confirmers
    MaxWaiting,    \* bound on the updates waiting at Telegram
    MaxDeaths      \* bound on crashes and on requests that fail for a time

ASSUME BotAssumption ==
    /\ Confirmers = {Bot, Cli} /\ Bot # Cli
    /\ MaxWaiting \in Nat /\ MaxDeaths \in Nat

VARIABLES
    waiting,       \* updates Telegram holds: a command, and whether it was handled
    offset, saved, \* the process's offset, and the one in the file
    batch,         \* updates of the last getUpdates
    pc, deaths

botVars == <<waiting, offset, saved, batch, pc, deaths>>
vars == <<modeVars, botVars>>

\* What the parser makes of an update that concerns the mode, by who may send it;
\* "other" is any other command, and one that is unauthorized; "hopeless" is one
\* whose handler throws, or whose reply Telegram refuses, each time (too long a text).
Commands ==
    [does : {"mode_fullauto"}, by : {"admin", "reviewer"}] \cup
    [does : {"confirm"}, by : {"admin"}, token : Tokens] \cup
    [does : {"mode_approval", "other", "hopeless"}, by : {"reviewer"}]

Send(c) ==
    /\ Len(waiting) < MaxWaiting
    /\ c.does = "confirm" => request[c.token].status # "none"
    /\ waiting' = Append(waiting, [command |-> c, ran |-> FALSE])
    /\ UNCHANGED <<modeVars, offset, saved, batch, pc, deaths>>

\* getUpdates(offset): Telegram forgets what is below the offset it is asked for.
Poll ==
    /\ pc = "poll" /\ waiting # <<>>
    /\ waiting' = SubSeq(waiting, offset + 1, Len(waiting))
    /\ batch' = Len(waiting')
    /\ offset' = 0 /\ saved' = saved - offset
    /\ pc' = IF batch' = 0 THEN "poll" ELSE "handle"
    /\ UNCHANGED <<modeVars, deaths>>

\* handleTelegramCommand, for an admin, a reviewer, or a token that is gone.
Changes(c) ==
    \/ /\ c.does = "mode_fullauto" /\ c.by = "admin"
       /\ \E k \in Tokens, hours \in {1, MaxHours + 1} : RequestFullauto(k, hours)
    \/ c.does = "confirm" /\ (OpenWindow(Bot, c.token) \/ Expire(c.token))
    \/ c.does = "mode_approval" /\ SetApproval

NoChange(c) ==
    /\ \/ /\ c.does = "mode_fullauto"
          /\ c.by # "admin" \/ \A k \in Tokens : request[k].status # "none"
       \/ c.does = "confirm" /\ request[c.token].status # "pending"
       \/ c.does \in {"other", "hopeless"}
    /\ UNCHANGED modeVars

\* handleUpdate up to the reply.  Tokens are fresh; when the model has none left,
\* requests are ignored.
Handle ==
    /\ pc = "handle"
    /\ offset' = offset + 1
    /\ waiting' = [waiting EXCEPT ![offset'].ran = TRUE]
    /\ LET c == waiting[offset'].command IN Changes(c) \/ NoChange(c)
    /\ pc' = "reply"
    /\ UNCHANGED <<saved, batch, deaths>>

Mark ==
    /\ pc = "reply" /\ MarkConfirmed(Bot)
    /\ UNCHANGED botVars

Hopeless(u) == u.command.does = "hopeless"

\* sendMessage, then saveOffset.  One variant saves the end of the batch, the other
\* does not poll again.
SavedBatch == batch
SavedOffset == offset
PollsOnce == IF offset < batch THEN "handle" ELSE "ended"
PollsOn == IF offset < batch THEN "handle" ELSE "poll"
Answer ==
    /\ pc = "reply" /\ marking[Bot] = NoToken /\ ~Hopeless(waiting[offset])
    /\ saved' = SavedOffset
    /\ pc' = PollsOn
    /\ UNCHANGED <<modeVars, waiting, offset, batch, deaths>>

\* sendMessage rethrows every refusal but the one of the markup, and runPolling ends
\* before the offset is saved.
Refused ==
    /\ pc = "reply" /\ marking[Bot] = NoToken /\ Hopeless(waiting[offset])
    /\ pc' = "down"
    /\ UNCHANGED <<modeVars, waiting, offset, saved, batch, deaths>>

\* Any other failed request or reply rejects runPolling, which ends the process as a crash
\* does.
Die ==
    /\ pc # "down" /\ deaths < MaxDeaths
    /\ deaths' = deaths + 1 /\ pc' = "down"
    /\ marking' = [marking EXCEPT ![Bot] = NoToken]
    /\ UNCHANGED <<mode, request, reverting, now, uses, waiting, offset, saved, batch>>

\* The variant goes on from the offset it remembers.
OldOffset == offset
LoadedOffset == saved
Start ==
    /\ pc = "down" /\ pc' = "poll"
    /\ offset' = LoadedOffset /\ batch' = 0
    /\ UNCHANGED <<modeVars, waiting, saved, deaths>>

\* node src/ralph/cli.js mode ...
CliStep ==
    /\ \/ \E k \in Tokens : OpenWindow(Cli, k) \/ Expire(k)
       \/ MarkConfirmed(Cli) \/ SetApproval \/ BeginRevert \/ EndRevert
    /\ UNCHANGED botVars

\* runPolling, while the process lives.
Polling == Poll \/ Handle \/ Mark \/ Answer \/ Refused

Init ==
    /\ ModeInit
    /\ waiting = <<>> /\ offset = 0 /\ saved = 0 /\ batch = 0
    /\ pc = "poll" /\ deaths = 0

Next ==
    \/ \E c \in Commands : Send(c)
    \/ Polling \/ Start \/ Die \/ CliStep
    \/ Tick /\ UNCHANGED botVars

Spec == Init /\ [][Next]_vars
FairSpec == Spec /\ WF_vars(Polling)

-----------------------------------------------------------------------------
\* Shapes; no offset lies before the oldest update Telegram holds.
TypeOK ==
    /\ mode \in [fullauto : BOOLEAN, until : Nat]
    /\ request \in [Tokens -> [status : {"none", "pending", "confirmed", "expired"},
                               expires : Nat, hours : 0..MaxHours]]
    /\ marking \in [Confirmers -> Tokens \cup {NoToken}]
    /\ reverting \in BOOLEAN /\ now \in 0..Never /\ uses \in [Tokens -> Nat]
    /\ waiting \in Seq([command : Commands, ran : BOOLEAN])
    /\ offset \in 0..MaxWaiting /\ saved \in 0..MaxWaiting /\ batch \in 0..MaxWaiting
    /\ deaths \in 0..MaxDeaths

\* Telegram is never told to forget an update that was not handled, wherever the
\* process died and however often (runtime.js:140-157).
NoneSkipped ==
    [][Len(waiting') < Len(waiting) =>
         \A i \in 1..(Len(waiting) - Len(waiting')) : waiting[i].ran]_vars

\* Telegram's queue is emptied, or an update leaves it, again and again; what can stop
\* it is a dead process that nobody starts again, and one thing more: an update that
\* cannot be answered stays first, before all the later ones, however often the
\* process is started.  Commands beside the bot, confirmations repeated or half done
\* and deaths at any step stop nothing (runtime.js:97, 130-160).
QueueMoves ==
    \/ []<>(waiting = <<>>) \/ []<><<Len(waiting') < Len(waiting)>>_vars
    \/ <>[](pc = "down")
    \/ <>[](waiting # <<>> /\ Hopeless(waiting[1]))
=============================================================================
