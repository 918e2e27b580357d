----------------------------- MODULE ModeControl -----------------------------
(***************************************************************************)
(* approval and fullauto mode: an admin asks for a window and gets a token, *)
(* an admin confirms the token, and while the window is open the daemon    *)
(* approves records by itself.  mode.json and the token files are read and *)
(* written by the Telegram bot, the CLI and the daemon without a lock; a   *)
(* confirmation is two writes.                                             *)
(* Source: src/ralph/mode-manager.js, fullauto-auto-approver.js, roles.js, *)
(* cli.js, src/telegram/handlers.js.                                       *)
(***************************************************************************)
EXTENDS Naturals

CONSTANTS
    Tokens,
    NoToken,
    Confirmers,    \* processes that confirm: the bot and the CLI
    TokenLife,     \* ticks a token may be confirmed in (10 minutes)
    MaxHours,      \* MAX_FULLAUTO_HOURS in ticks
    Never          \* a date after every other

ASSUME ModeAssumption ==
    /\ NoToken \notin Tokens
    /\ TokenLife \in Nat /\ MaxHours \in Nat /\ Never \in Nat

VARIABLES
    mode,          \* mode.json: fullauto or not, and effective_until
    request,       \* the token files
    marking,       \* of each confirmer: the token it has still to mark confirmed
    reverting,     \* auto-revert has read an expired window
    now,
    uses           \* windows opened with each token

modeVars == <<mode, request, marking, reverting, now, uses>>

APPROVAL == [fullauto |-> FALSE, until |-> Never]

\* requestFullautoMode, by an admin: at most MaxHours, whatever was asked for.
RequestFullauto(k, hours) ==
    /\ request[k].status = "none"
    /\ request' = [request EXCEPT ![k] =
         [status |-> "pending", expires |-> now + TokenLife,
          hours |-> IF hours > MaxHours THEN MaxHours ELSE hours]]
    /\ UNCHANGED <<mode, marking, reverting, now, uses>>

\* The token may be confirmed.  The variant looks at its status alone.
StillPending(k) == request[k].status = "pending"
Confirmable(k) == request[k].status = "pending" /\ request[k].expires >= now

\* confirmFullautoMode, by an admin: the window opens ...
OpenWindow(p, k) ==
    /\ marking[p] = NoToken /\ Confirmable(k)
    /\ mode' = [fullauto |-> TRUE, until |-> now + request[k].hours]
    /\ uses' = [uses EXCEPT ![k] = @ + 1]
    /\ marking' = [marking EXCEPT ![p] = k]
    /\ UNCHANGED <<request, reverting, now>>

\* ... and the token is marked with what was read of it.
MarkConfirmed(p) ==
    /\ marking[p] # NoToken
    /\ request' = [request EXCEPT ![marking[p]].status = "confirmed"]
    /\ marking' = [marking EXCEPT ![p] = NoToken]
    /\ UNCHANGED <<mode, reverting, now, uses>>

\* A confirmation that comes too late.
Expire(k) ==
    /\ request[k].status = "pending" /\ request[k].expires < now
    /\ request' = [request EXCEPT ![k].status = "expired"]
    /\ UNCHANGED <<mode, marking, reverting, now, uses>>

\* setApprovalMode, by a reviewer or an admin; tokens are left as they are.
SetApproval ==
    /\ mode' = APPROVAL
    /\ UNCHANGED <<request, marking, reverting, now, uses>>

\* autoRevertExpiredMode, only on the CLI: read, judge, save.
BeginRevert ==
    /\ ~reverting /\ mode.fullauto /\ mode.until <= now
    /\ reverting' = TRUE
    /\ UNCHANGED <<mode, request, marking, now, uses>>

EndRevert ==
    /\ reverting /\ reverting' = FALSE
    /\ mode' = APPROVAL
    /\ UNCHANGED <<request, marking, now, uses>>

\* readModeSafely: is the daemon approving by itself?  The variant takes the mode
\* at its word.
ModeSays == mode.fullauto
Effective == mode.fullauto /\ mode.until >= now

Tick ==
    /\ now < Never /\ now' = now + 1
    /\ UNCHANGED <<mode, request, marking, reverting, uses>>

ModeInit ==
    /\ mode = APPROVAL
    /\ request = [k \in Tokens |-> [status |-> "none", expires |-> 0, hours |-> 0]]
    /\ marking = [p \in Confirmers |-> NoToken]
    /\ reverting = FALSE /\ now = 0 /\ uses = [k \in Tokens |-> 0]

-----------------------------------------------------------------------------
\* The daemon approves by itself only within the longest window that a token could
\* open while it lived, however late its confirmation is delivered, repeated, or
\* raced by a revert (docs/ralph-detailed-design-v0.2.md:103, "No permanent
\* fullauto is reachable from any code path").
AutoWithinGrant ==
    Effective => \E k \in Tokens : uses[k] > 0 /\ now <= request[k].expires + request[k].hours

\* A token opens one window (docs/ralph-detailed-design-v0.2.md:99, "consumed
\* atomically by `/confirm`").
TokenUsedOnce == \A k \in Tokens : uses[k] <= 1
=============================================================================
