----------------------------- MODULE DaemonLock -----------------------------
(***************************************************************************)
(* The pid lock file that keeps two daemons from ticking the same stories. *)
(* A process is one pid: it starts, acquires the lock or is refused, runs  *)
(* its cycles, and ends by a signal, by itself or by a crash.  Every file  *)
(* operation is a step, so processes interleave between them.              *)
(* Source: scripts/ralph/autonomous-daemon.js.                             *)
(***************************************************************************)
EXTENDS Naturals

CONSTANTS
    Pids,
    NoPid,
    Pulls,        \* whether a cycle may have to await an issue pull
    MaxCrashes    \* bound on processes killed without a handler running

ASSUME LockAssumption ==
    NoPid \notin Pids /\ Pulls \subseteq BOOLEAN /\ MaxCrashes \in Nat

VARIABLES
    lock,      \* who created the file that is at the lock's path, or NoPid
    written,   \* its creator has written the pid into it
    pc,        \* where each process is
    seen,      \* the pid a refused opener has read
    stopped,   \* the flag set by the signal handler
    hand,      \* how far releaseDaemonLock has come
    crashes

lockVars == <<lock, written, pc, seen, stopped, hand, crashes>>

Running == {"head", "pull", "tick", "skip", "sleep"}

\* Ended, by itself or through its handlers; dead without any of them.
Gone(p) == pc[p] \in {"off", "dead"}

At(p, label) == pc[p] = label /\ hand[p] = "none"
Goto(p, label) == pc' = [pc EXCEPT ![p] = label]

-----------------------------------------------------------------------------
(* tryAcquireDaemonLock                                                    *)

\* open(path, "wx"): creates the file, finds that there is one, or fails.
Open(p) ==
    /\ At(p, "open")
    /\ \/ lock = NoPid /\ lock' = p /\ written' = FALSE /\ Goto(p, "write")
       \/ lock # NoPid /\ Goto(p, "read") /\ UNCHANGED <<lock, written>>
       \/ Goto(p, "off") /\ UNCHANGED <<lock, written>>
    /\ UNCHANGED <<seen, stopped, hand, crashes>>

\* The pid goes to the file that was created, even if its path is gone.  A
\* failing write ends the process before its handlers are installed: the file
\* stays, without a pid.
Write(p) ==
    /\ At(p, "write")
    /\ \/ written' = (written \/ lock = p) /\ Goto(p, "head")
       \/ written' = written /\ Goto(p, "dead")
    /\ UNCHANGED <<lock, seen, stopped, hand, crashes>>

\* A missing or unfinished file has no readable pid: the caller is refused.
Read(p) ==
    /\ At(p, "read")
    /\ IF lock # NoPid /\ written
       THEN seen' = [seen EXCEPT ![p] = lock] /\ Goto(p, "probe")
       ELSE Goto(p, "off") /\ UNCHANGED seen
    /\ UNCHANGED <<lock, written, stopped, hand, crashes>>

\* pidIsAlive. The variant takes every lock for a stale one.
TakenOver(p) == TRUE
Stale(p) == Gone(seen[p])

Probe(p) ==
    /\ At(p, "probe")
    /\ Goto(p, IF Stale(p) THEN "unlink" ELSE "off")
    /\ UNCHANGED <<lock, written, seen, stopped, hand, crashes>>

\* Removes whatever file is at the path by now, then starts over.
Unlink(p) ==
    /\ At(p, "unlink")
    /\ lock' = NoPid /\ written' = FALSE
    /\ Goto(p, "open")
    /\ UNCHANGED <<seen, stopped, hand, crashes>>

-----------------------------------------------------------------------------
(* runDaemon                                                               *)

\* A cycle begins; with the budget exhausted it skips the scheduler tick.
CycleHead(p) ==
    /\ At(p, "head")
    /\ IF stopped[p]
       THEN Goto(p, "exit") /\ hand' = [hand EXCEPT ![p] = "check"]
       ELSE /\ \E due \in Pulls, label \in {"tick", "skip"} :
                 Goto(p, IF due THEN "pull" ELSE label)
            /\ UNCHANGED hand
    /\ UNCHANGED <<lock, written, seen, stopped, crashes>>

\* The issue pull has answered.
Pulled(p) ==
    /\ At(p, "pull")
    /\ \E label \in {"tick", "skip"} : Goto(p, label)
    /\ UNCHANGED <<lock, written, seen, stopped, hand, crashes>>

\* The cycle is over; the last one or an error ends the process.
Ticked(p) ==
    /\ At(p, "tick") \/ At(p, "skip")
    /\ \/ Goto(p, "sleep") /\ UNCHANGED hand
       \/ Goto(p, "exit") /\ hand' = [hand EXCEPT ![p] = "check"]
    /\ UNCHANGED <<lock, written, seen, stopped, crashes>>

Wake(p) ==
    /\ At(p, "sleep")
    /\ Goto(p, "head")
    /\ UNCHANGED <<lock, written, seen, stopped, hand, crashes>>

\* Handlers run only while the process awaits something, never inside the
\* synchronous tick.  The variant lets them interrupt it.
Interruptible(p) == At(p, "sleep") \/ At(p, "pull") \/ At(p, "tick")
Awaits(p) == At(p, "sleep") \/ At(p, "pull")

\* SIGINT or SIGTERM: sets the flag and releases the lock at once.
Signal(p) ==
    /\ Awaits(p)
    /\ ~stopped[p]
    /\ stopped' = [stopped EXCEPT ![p] = TRUE]
    /\ hand' = [hand EXCEPT ![p] = "check"]
    /\ UNCHANGED <<lock, written, pc, seen, crashes>>

\* releaseDaemonLock: read and compare, then unlink.
Released(p) ==
    /\ hand' = [hand EXCEPT ![p] = "none"]
    /\ pc' = IF pc[p] = "exit" THEN [pc EXCEPT ![p] = "off"] ELSE pc

\* The file names the caller.  The variant compares text with a number.
NeverOwn(p) == FALSE
Own(p) == lock = p /\ written

CheckOwn(p) ==
    /\ hand[p] = "check"
    /\ IF Own(p)
       THEN hand' = [hand EXCEPT ![p] = "unlink"] /\ UNCHANGED pc
       ELSE Released(p)
    /\ UNCHANGED <<lock, written, seen, stopped, crashes>>

UnlinkOwn(p) ==
    /\ hand[p] = "unlink"
    /\ lock' = NoPid /\ written' = FALSE
    /\ Released(p)
    /\ UNCHANGED <<seen, stopped, crashes>>

\* The process is killed: the file stays.
Kill(p) ==
    /\ ~Gone(p) /\ crashes < MaxCrashes
    /\ Goto(p, "dead")
    /\ hand' = [hand EXCEPT ![p] = "none"]
    /\ crashes' = crashes + 1
    /\ UNCHANGED <<lock, written, seen, stopped>>

-----------------------------------------------------------------------------
LockInit ==
    /\ lock = NoPid /\ written = FALSE
    /\ pc = [p \in Pids |-> "open"]
    /\ seen = [p \in Pids |-> NoPid]
    /\ stopped = [p \in Pids |-> FALSE]
    /\ hand = [p \in Pids |-> "none"]
    /\ crashes = 0

Step(p) ==
    \/ Open(p) \/ Write(p) \/ Read(p) \/ Probe(p) \/ Unlink(p)
    \/ CycleHead(p) \/ Pulled(p) \/ Ticked(p) \/ Wake(p)
    \/ CheckOwn(p) \/ UnlinkOwn(p)

LockNext == \E p \in Pids : Step(p) \/ Signal(p) \/ Kill(p)

LockSpec == LockInit /\ [][LockNext]_lockVars

-----------------------------------------------------------------------------
\* Shapes, and releasing happens in the handlers' and the exit's places only.
LockTypeOK ==
    /\ lock \in Pids \cup {NoPid} /\ written \in BOOLEAN
    /\ pc \in [Pids -> Running \cup {"open", "write", "read", "probe",
                                     "unlink", "exit", "off", "dead"}]
    /\ seen \in [Pids -> Pids \cup {NoPid}]
    /\ stopped \in [Pids -> BOOLEAN]
    /\ hand \in [Pids -> {"none", "check", "unlink"}]
    /\ \A p \in Pids : hand[p] # "none" => pc[p] \in {"sleep", "pull", "exit"}
    /\ crashes \in 0..MaxCrashes

\* No second daemon ticks the stories while one does
\* (autonomous-daemon.js:14-18).
OneTicker ==
    \A p, q \in Pids : pc[p] = "tick" /\ pc[q] = "tick" => p = q

\* A daemon that nobody told to stop works under its own lock file, from the
\* moment it is acquired: a rival never takes it for a stale one.  Two pids only;
\* with three, a slow taker removes the file of a faster one.
RunsUnderLock ==
    \A p \in Pids : pc[p] \in Running /\ ~stopped[p] => lock = p /\ written

\* A daemon that ends by itself or by a signal leaves no lock file behind; only
\* one that is killed, or cannot write its pid, leaves its file.
LeavesNoLock == \A p \in Pids : pc[p] = "off" => lock # p
=============================================================================
