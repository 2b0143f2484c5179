-------------------------------- MODULE Codex --------------------------------
(***************************************************************************)
(* The Codex provider (providers/codex.py): every turn spawns a codex       *)
(* process, which starts jobs of its own; the turn relays the process's     *)
(* output until its end and reports one outcome.  A stop terminates the     *)
(* whole tree, in a thread, under a lock.                                   *)
(*                                                                          *)
(* The caller is Session: one turn at a time; a stop by a command at any    *)
(* moment; a close, from a command or a task of its own, that cancels the   *)
(* turn, awaits it, and stops what is left (aclose is interrupt).  A failed *)
(* turn's reset is that same stop and finds no process.                     *)
(*                                                                          *)
(* The standard output ends when nobody holds it: the jobs may.  A process  *)
(* whose pipe nobody reads need not ever exit, nor one that still runs.     *)
(* An emit is one step with the event it relays, and the stderr task, which *)
(* keeps the last bytes, changes nothing here.                              *)
(***************************************************************************)
EXTENDS Naturals, FiniteSets

CONSTANTS
    Jobs,       \* what a codex process may start
    OwnGroup,   \* the jobs that get a process group of their own
    Codex,      \* the codex process itself
    MaxTurns    \* bound: turns

ASSUME CodexAssumption ==
    /\ OwnGroup \subseteq Jobs
    /\ Codex \notin Jobs
    /\ MaxTurns \in Nat

Turns == 1 .. MaxTurns
Members == Jobs \cup {Codex}
Stoppers == {"turn", "stop", "close"}

VARIABLES
    alive,       \* of every turn, the processes of its tree that run
    born,        \* ... and those that ever ran
    turn,        \* the number of the turn, 0 before the first
    proc,        \* _proc: the turn whose process it is, 0 for None
    interrupted, \* _interrupted
    pc,          \* where the turn is
    raising,     \* what the turn raises after its cleanup
    stops,       \* the runs of _stop_process_tree, by who started them
    lock,        \* who holds _stop_lock, or "free"
    cancel,      \* a cancel of the turn's task is under way
    closing,     \* Session.close(): not called, awaits the turn, in aclose(), over
    reports,     \* the outcomes the turn has reported, counted
    stopped,     \* history: a stop has found the process of the turn
    missed,      \* history: jobs of the turn that no stop has in its snapshot
    gaveUp       \* history: a cancel took the turn's place in the queue for the lock

treeVars == <<alive, born>>
turnVars == <<turn, pc, raising, cancel, reports>>
stopVars == <<stops, lock, stopped, missed, gaveUp>>
vars == <<treeVars, turnVars, proc, interrupted, stopVars, closing>>

-----------------------------------------------------------------------------
Outcomes == {"result", "failed", "interrupted", "exit"}

(* A run of _stop_process_tree: it waits for the lock, its thread has begun, *)
(* or it has taken its snapshot; "orphan" is a thread nobody awaits.        *)
Stop == [at : {"no", "lock", "begun", "snapped"}, of : 0 .. MaxTurns,
         targets : SUBSET Members, orphan : BOOLEAN]

NoStop == [at |-> "no", of |-> 0, targets |-> {}, orphan |-> FALSE]

Running == {"reading", "stopping", "draining", "waiting"}

TypeOK ==
    /\ born \in [Turns -> SUBSET Members]
    /\ alive \in [Turns -> SUBSET Members]
    /\ \A t \in Turns : alive[t] \subseteq born[t]
    /\ turn \in 0 .. MaxTurns
    /\ proc \in 0 .. turn
    /\ interrupted \in BOOLEAN
    /\ pc \in Running \cup {"idle", "creating", "cancelled"}
    /\ raising \in {"no", "error", "cancelled"}
    /\ stops \in [Stoppers -> Stop]
    /\ lock \in Stoppers \cup {"free"}
    /\ cancel \in BOOLEAN
    /\ closing \in {"no", "awaiting", "closing", "closed"}
    /\ reports \in [Outcomes -> 0 .. 2]
    /\ stopped \in BOOLEAN
    /\ missed \subseteq Jobs
    /\ gaveUp \in BOOLEAN

Init ==
    /\ alive = [t \in Turns |-> {}]
    /\ born = [t \in Turns |-> {}]
    /\ turn = 0
    /\ proc = 0
    /\ interrupted = FALSE
    /\ pc = "idle"
    /\ raising = "no"
    /\ stops = [s \in Stoppers |-> NoStop]
    /\ lock = "free"
    /\ cancel = FALSE
    /\ closing = "no"
    /\ reports = [o \in Outcomes |-> 0]
    /\ stopped = FALSE
    /\ missed = {}
    /\ gaveUp = FALSE

CodexLives(t) == t # 0 /\ Codex \in alive[t]

Report(outcome) == reports' = [reports EXCEPT ![outcome] = @ + 1]

Reported == \E o \in Outcomes : reports[o] > 0

-----------------------------------------------------------------------------
(* The turn. *)

(* start() or send(): a slash command is answered with a notice, and so is  *)
(* edit(); without a CLI the turn raises before it changes anything.        *)
Turn ==
    /\ pc = "idle"
    /\ closing = "no"
    /\ turn < MaxTurns
    /\ turn' = turn + 1
    /\ \E answered \in {0, 1} : reports' = [o \in Outcomes |-> IF o = "result" THEN answered ELSE 0]
    /\ \/ UNCHANGED <<pc, interrupted>>
       \/ reports'["result"] = 0 /\ pc' = "creating" /\ interrupted' = FALSE
    /\ stopped' = FALSE
    /\ missed' = {}
    /\ UNCHANGED <<treeVars, raising, cancel, proc, stops, lock, gaveUp, closing>>

(* The process exists from here on, and is known. *)
Created ==
    /\ pc = "creating"
    /\ ~ cancel
    /\ alive' = [alive EXCEPT ![turn] = {Codex}]
    /\ born' = [born EXCEPT ![turn] = {Codex}]
    /\ proc' = turn
    /\ pc' = "reading"
    /\ UNCHANGED <<turn, raising, cancel, reports, interrupted, stopVars, closing>>

(* It cannot be created, or the cancel undoes it. *)
CreateFails ==
    /\ pc = "creating"
    /\ pc' = IF cancel THEN "cancelled" ELSE "idle"
    /\ cancel' = FALSE
    /\ UNCHANGED <<treeVars, turn, raising, reports, proc, interrupted, stopVars, closing>>

(* A line that ends the turn; codex writes one at most.  Any other line is  *)
(* relayed and changes nothing here.                                        *)
Terminal ==
    /\ pc = "reading"
    /\ ~ Reported
    /\ \E outcome \in {"result", "failed"} : Report(outcome)
    /\ UNCHANGED <<treeVars, turn, pc, raising, cancel, proc, interrupted, stopVars, closing>>

(* The output ends when codex closes it, and at the latest with the last    *)
(* process of the tree.                                                     *)
OutputEnds == alive[turn] = {}

EndOfOutput ==
    /\ pc \in {"reading", "draining"}
    /\ ~ cancel
    /\ pc' = "waiting"
    /\ UNCHANGED <<treeVars, turn, raising, cancel, reports, proc, interrupted, stopVars, closing>>

(* _stop_process_tree(proc) takes the lock at once if it is free, and its   *)
(* thread begins (the pool has a thread for it).                            *)
StopBegins(s, t) ==
    /\ stops' = [stops EXCEPT ![s] =
                    [NoStop EXCEPT !.at = IF lock = "free" THEN "begun" ELSE "lock", !.of = t]]
    /\ lock' = IF lock = "free" THEN s ELSE lock

(* Fault: the process is awaited while nobody reads what it writes. *)
AwaitedFirst(why) == pc' = "waiting" /\ raising' = why /\ UNCHANGED <<stops, lock>>

(* The output is cut short: the tree is stopped before it is awaited. *)
CutShort(why) ==
    /\ pc' = "stopping"
    /\ raising' = why
    /\ StopBegins("turn", turn)

(* An oversized line, an emit that fails, or the cancel. *)
ReadFails ==
    /\ pc = "reading"
    /\ stops["turn"].at = "no"
    /\ CutShort(IF cancel THEN "cancelled" ELSE "error")
    /\ cancel' = FALSE
    /\ UNCHANGED <<treeVars, turn, reports, proc, interrupted, stopped, missed, gaveUp, closing>>

(* A cancel of the cleanup itself goes straight to the wait.  A thread that *)
(* has begun goes on, without the lock; one that has not never will.        *)
CleanupCancelled ==
    /\ pc \in {"stopping", "draining"}
    /\ cancel
    /\ pc' = "waiting"
    /\ raising' = "cancelled"
    /\ cancel' = FALSE
    /\ stops' = [stops EXCEPT !["turn"] =
                    IF @.at \in {"begun", "snapped"} THEN [@ EXCEPT !.orphan = TRUE] ELSE NoStop]
    /\ lock' = IF lock = "turn" THEN "free" ELSE lock
    /\ gaveUp' = (gaveUp \/ stops["turn"].at = "lock")
    /\ UNCHANGED <<treeVars, turn, reports, proc, interrupted, stopped, missed, closing>>

(* The process has exited; the stderr task is cancelled and awaited, where a *)
(* cancel of the turn is swallowed; what was raised goes on, or the outcome *)
(* that codex did not report is.                                            *)
Exited ==
    /\ pc = "waiting"
    /\ ~ CodexLives(turn)
    /\ proc' = IF proc = turn THEN 0 ELSE proc
    /\ pc' = IF raising = "cancelled" THEN "cancelled" ELSE "idle"
    /\ raising' = "no"
    /\ cancel' = FALSE
    /\ IF raising # "no" \/ Reported
       THEN UNCHANGED reports
       ELSE Report(IF interrupted THEN "interrupted" ELSE "exit")
    /\ UNCHANGED <<treeVars, turn, interrupted, stopVars, closing>>

(* Fault: _proc is cleared although the wait was cancelled. *)
WaitForgotten ==
    /\ pc = "waiting"
    /\ cancel
    /\ pc' = "cancelled"
    /\ raising' = "no"
    /\ cancel' = FALSE
    /\ proc' = 0
    /\ UNCHANGED <<treeVars, turn, reports, interrupted, stopVars, closing>>

(* A cancel of the wait leaves the process as it is, and _proc with it. *)
WaitCancelled ==
    /\ pc = "waiting"
    /\ cancel
    /\ pc' = "cancelled"
    /\ raising' = "no"
    /\ cancel' = FALSE
    /\ UNCHANGED <<treeVars, turn, reports, proc, interrupted, stopVars, closing>>

-----------------------------------------------------------------------------
(* Stopping: _stop_process_tree, and interrupt() before it. *)

(* Fault: the flag is set when the processes are gone. *)
FlagsLate(s) == StopBegins(s, proc) /\ UNCHANGED interrupted

(* interrupt() for a process it finds. *)
Interrupts(s) ==
    /\ interrupted' = TRUE
    /\ StopBegins(s, proc)

(* A command; without a process it does nothing. *)
Interrupt ==
    /\ stops["stop"].at = "no"
    /\ proc # 0
    /\ Interrupts("stop")
    /\ stopped' = TRUE
    /\ UNCHANGED <<treeVars, turnVars, proc, missed, gaveUp, closing>>

TakesLock(s) ==
    /\ stops[s].at = "lock"
    /\ lock = "free"
    /\ lock' = s
    /\ stops' = [stops EXCEPT ![s].at = "begun"]
    /\ UNCHANGED <<treeVars, turnVars, proc, interrupted, stopped, missed, gaveUp, closing>>

(* Where a run of it returns to. *)
StopReturns(s) ==
    /\ stops' = [stops EXCEPT ![s] = NoStop]
    /\ lock' = IF lock = s /\ ~ stops[s].orphan THEN "free" ELSE lock
    /\ pc' = IF s = "turn" /\ ~ stops[s].orphan THEN "draining" ELSE pc
    /\ closing' = IF s = "close" THEN "closed" ELSE closing

(* The thread looks for the tree: it is over if codex has exited. *)
Snapshot(s) ==
    /\ stops[s].at = "begun"
    /\ IF CodexLives(stops[s].of)
       THEN /\ stops' = [stops EXCEPT ![s].at = "snapped", ![s].targets = alive[stops[s].of]]
            /\ UNCHANGED <<lock, pc, closing, missed>>
       ELSE /\ StopReturns(s)
            /\ missed' = IF stops[s].of = turn THEN alive[turn] \cap Jobs ELSE missed
    /\ UNCHANGED <<treeVars, turn, raising, cancel, reports, proc, interrupted, stopped, gaveUp>>

(* Fault: the process group only. *)
KilledGroup(s) == Members \ OwnGroup

(* What the snapshot has, however it took the SIGTERM and the two seconds   *)
(* of grace, and what is in codex's group by then.                          *)
Killed(s) == stops[s].targets \cup (Members \ OwnGroup)

Kill(s) ==
    /\ stops[s].at = "snapped"
    /\ alive' = [alive EXCEPT ![stops[s].of] = @ \ Killed(s)]
    /\ StopReturns(s)
    /\ UNCHANGED <<born, turn, raising, cancel, reports, proc, interrupted, stopped, missed, gaveUp>>

-----------------------------------------------------------------------------
(* Session.close() *)

Close ==
    /\ closing = "no"
    /\ closing' = "awaiting"
    /\ cancel' = (pc # "idle")
    /\ UNCHANGED <<treeVars, turn, pc, raising, reports, proc, interrupted, stopVars>>

(* The turn has ended: aclose(). *)
AClose ==
    /\ closing = "awaiting"
    /\ pc \in {"idle", "cancelled"}
    /\ IF proc = 0
       THEN closing' = "closed" /\ UNCHANGED <<interrupted, stops, lock, stopped>>
       ELSE /\ closing' = "closing"
            /\ Interrupts("close")
            /\ stopped' = TRUE
    /\ UNCHANGED <<treeVars, turnVars, proc, missed, gaveUp>>

-----------------------------------------------------------------------------
(* The processes. *)

(* Codex starts a job, perhaps while its tree is being terminated. *)
Starts(t, j) ==
    /\ CodexLives(t)
    /\ j \notin born[t]
    /\ alive' = [alive EXCEPT ![t] = @ \cup {j}]
    /\ born' = [born EXCEPT ![t] = @ \cup {j}]
    /\ missed' = IF t = turn /\ \E s \in Stoppers : stops[s].at = "snapped" /\ stops[s].of = t
                 THEN missed \cup {j}
                 ELSE missed
    /\ UNCHANGED <<turnVars, proc, interrupted, stops, lock, stopped, gaveUp, closing>>

Exits(t, m) ==
    /\ m \in alive[t]
    /\ alive' = [alive EXCEPT ![t] = @ \ {m}]
    /\ UNCHANGED <<born, turnVars, proc, interrupted, stopVars, closing>>

-----------------------------------------------------------------------------
TurnStep ==
    \/ Created \/ CreateFails \/ Exited
    \/ EndOfOutput /\ OutputEnds
    \/ ReadFails /\ cancel
    \/ CleanupCancelled \/ WaitCancelled

StopStep(s) == TakesLock(s) \/ Snapshot(s) \/ Kill(s)

Next ==
    \/ Turn \/ Terminal
    \/ Created \/ CreateFails \/ Exited
    \/ EndOfOutput \/ ReadFails \/ CleanupCancelled \/ WaitCancelled
    \/ Interrupt \/ Close \/ AClose
    \/ \E s \in Stoppers : TakesLock(s) \/ Snapshot(s) \/ Kill(s)
    \/ \E t \in Turns, j \in Jobs : Starts(t, j)
    \/ \E t \in Turns, m \in Members : Exits(t, m)

Spec == Init /\ [][Next]_vars

(* The loop runs its tasks and the threads run; no process has to exit.     *)
Fairness ==
    /\ WF_vars(TurnStep)
    /\ WF_vars(AClose)
    /\ \A s \in Stoppers : SF_vars(StopStep(s))

FairSpec == Spec /\ Fairness

-----------------------------------------------------------------------------
(* Properties. *)

(* A turn that returns has reported exactly one outcome; one that a stop    *)
(* has found does not end as if codex had failed by itself.                 *)
OneOutcome ==
    [][(pc = "waiting" /\ pc' = "idle" /\ raising = "no") =>
        /\ \E o \in Outcomes : reports' = [p \in Outcomes |-> IF p = o THEN 1 ELSE 0]
        /\ stopped => reports'["exit"] = 0]_vars

(* No codex process is left by a turn that has ended, but for one whose     *)
(* wait was cancelled, which _proc keeps for the close.                     *)
NoOrphanCodex ==
    \A t \in Turns : Codex \in alive[t] =>
        \/ t = turn /\ pc \in Running
        \/ t = proc /\ closing \in {"awaiting", "closing"}

(* Jobs that no stop knows of, codex having exited without them or started  *)
(* them under the stop's hands, hold the output.                            *)
OutputHeld == alive[turn] \cap missed # {}

(* A stop that finds the process of a turn ends the turn.                   *)
StopEndsTurn == (stopped /\ pc \in Running) ~> (pc \in {"idle", "cancelled"} \/ OutputHeld)

(* A turn whose output is cut short ends, whether its codex still runs, is  *)
(* blocked on its pipes, or gone: unless it queued for the lock, behind the *)
(* stop of an earlier turn, and a cancel took its place there.              *)
CutShortEnds == (raising # "no") ~> (pc \in {"idle", "cancelled"} \/ OutputHeld \/ gaveUp)
=============================================================================
