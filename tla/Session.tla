------------------------------ MODULE Session ------------------------------
(***************************************************************************)
(* One coding session (session.py) with its permission broker              *)
(* (permissions.py): the chain of turn tasks, the retry of clean crashes,  *)
(* remote approvals, stop and close.                                       *)
(*                                                                         *)
(* All of it runs in one asyncio loop; a step is the code between two      *)
(* suspension points.  Concurrent are the turn tasks, the permission       *)
(* callbacks the agent SDK runs in tasks of its own, the command handler   *)
(* (the receive loop awaits one command at a time), and close(), which     *)
(* _rekey_session also schedules as a task beside a command in progress.   *)
(*                                                                         *)
(* An event takes its place in the outbox before the emit suspends, so it  *)
(* is logged in the step that emits it.                                    *)
(*                                                                         *)
(* The provider is external: a turn emits output, asks for permission,     *)
(* returns or raises; aclose() takes the client down and cancels the       *)
(* callbacks.  asyncio's cancel() is modelled by what it does to a task    *)
(* that has not started, waits on another task, or runs.                   *)
(***************************************************************************)
EXTENDS Naturals, Sequences, FiniteSets

CONSTANTS
    Asks,        \* permission request ids
    RetryLimit,  \* settings.turn_retry_limit
    MaxTurns     \* bound: turns spawned

ASSUME SessionAssumption ==
    /\ RetryLimit \in Nat
    /\ MaxTurns \in Nat \ {0}

VARIABLES
    turns,       \* the tasks of _spawn, in order; the last one is _task
    status,      \* status
    emitted,     \* _turn_emitted
    asks,        \* the permission callbacks
    pending,     \* PermissionBroker._pending
    client,      \* the provider holds a live client
    registered,  \* commands still reach this session
    cmd,         \* where the command handler is suspended
    closing,     \* where close() is suspended
    outputs,     \* history: which attempts put out events, and after an edit or not
    allowed,     \* history: the asks a browser answered with allow
    stopped,     \* history: the unfinished turns provider.interrupt() was for
    clean        \* history: close() found no chain unstarted, no edit under way

runVars   == <<status, emitted, client, outputs, stopped>>
askVars   == <<asks, pending, allowed>>
closeVars == <<registered, closing, clean>>
vars      == <<turns, runVars, askVars, cmd, closeVars>>

-----------------------------------------------------------------------------
(* A turn task.  guard, chain: created by _guard or _chain and not run yet; *)
(* waiting: a chain awaiting the task before it; attempt: in the provider;  *)
(* retry, backoff: in the reset and the sleep before another attempt; fail, *)
(* fatal: reporting an error, which for a fatal one the reset follows.      *)
New      == {"guard", "chain"}
Active   == {"attempt", "retry", "backoff", "fail", "fatal", "reset"}
Finished == {"done", "cancelled"}

Turn == [pc : New \cup {"waiting"} \cup Active \cup Finished,
         edit : BOOLEAN,      \* made by edit()
         attempt : Nat,       \* attempts begun
         cancel : BOOLEAN]    \* cancel() was requested

Ask == [pc : {"unused", "raising", "waiting", "returned", "dropped"},
        verdict : {"none", "allow", "deny"}]

Cmd == [pc : {"idle", "start", "edit", "stop"}]
           \cup [pc : {"deny"}, left : SUBSET Asks]

Output == [turn : Nat, attempt : Nat,
           rewound : BOOLEAN]   \* the edit of a later turn was announced

Idle == [pc |-> "idle"]

TypeOK ==
    /\ turns \in Seq(Turn) /\ Len(turns) <= MaxTurns
    /\ status \in {"idle", "running"}
    /\ emitted \in BOOLEAN
    /\ asks \in [Asks -> Ask]
    /\ pending \in SUBSET Asks
    /\ client \in BOOLEAN
    /\ registered \in BOOLEAN
    /\ cmd \in Cmd
    /\ closing \in {"no", "scheduled", "cancelling", "aclosing", "closed"}
    /\ outputs \in SUBSET Output
    /\ allowed \in SUBSET Asks
    /\ stopped \in SUBSET (1 .. MaxTurns)
    /\ clean \in BOOLEAN

(* start() is in the emit of session.started. *)
Init ==
    /\ turns = <<>>
    /\ status = "idle"
    /\ emitted = TRUE
    /\ asks = [a \in Asks |-> [pc |-> "unused", verdict |-> "none"]]
    /\ pending = {}
    /\ client = FALSE
    /\ registered = TRUE
    /\ cmd = [pc |-> "start"]
    /\ closing = "no"
    /\ outputs = {}
    /\ allowed = {}
    /\ stopped = {}
    /\ clean = TRUE

Turns == 1 .. Len(turns)

LastTurn == turns[Len(turns)]

(* The turns of the edits announced so far; the session.rewound of an edit  *)
(* goes out before its turn is spawned.                                     *)
Edits ==
    {i \in Turns : turns[i].edit}
        \cup (IF cmd.pc = "edit" THEN {Len(turns) + 1} ELSE {})

(* _emit, for an event of turn i. *)
EmitFor(i) ==
    /\ emitted' = TRUE
    /\ outputs' = outputs \cup {[turn |-> i, attempt |-> turns[i].attempt,
                                 rewound |-> \E j \in Edits : i < j]}

Outstanding == {a \in Asks : asks[a].pc \in {"raising", "waiting"}}

-----------------------------------------------------------------------------
(* The chain of turns. *)

(* Fault: the new task is never chained. *)
SpawnUnchained(isEdit) ==
    turns' = Append(turns,
        [pc |-> "guard", edit |-> isEdit, attempt |-> 0, cancel |-> FALSE])

(* _spawn: a new task, a chain when the last one has not finished. *)
Spawn(isEdit) ==
    turns' = Append(turns,
        [pc |-> IF turns # <<>> /\ LastTurn.pc \notin Finished
                THEN "chain" ELSE "guard",
         edit |-> isEdit, attempt |-> 0, cancel |-> FALSE])

(* Fault: the attempts are not counted. *)
BeginAttemptUncounted(i) ==
    /\ turns' = [turns EXCEPT ![i].pc = "attempt", ![i].attempt = 1]
    /\ status' = "running"
    /\ emitted' = FALSE
    /\ client' = TRUE
    /\ UNCHANGED stopped

(* _guard up to the provider call, at first or after a backoff. *)
BeginAttempt(i) ==
    /\ turns' = [turns EXCEPT ![i].pc = "attempt", ![i].attempt = @ + 1]
    /\ status' = "running"
    /\ emitted' = FALSE
    /\ client' = TRUE
    /\ UNCHANGED stopped

(* The task ends; _guard's finally has run if it had begun. *)
Finish(i, how) ==
    /\ turns' = [turns EXCEPT ![i].pc = how]
    /\ status' = "idle"
    /\ stopped' = stopped \ {i}

(* A task ends without having begun its turn. *)
NeverBegins(i) ==
    /\ turns' = [turns EXCEPT ![i].pc = "cancelled"]
    /\ stopped' = stopped \ {i}
    /\ UNCHANGED <<status, emitted, client>>

(* The loop runs a new task for the first time, tasks in the order they     *)
(* were created.  A cancelled task never enters its body.  A chain whose    *)
(* predecessor is still running suspends; the CancelledError of a cancelled *)
(* one is not suppressed and ends the chain too.                            *)
TaskStarts(i) ==
    /\ turns[i].pc \in New
    /\ \A j \in 1 .. i - 1 : turns[j].pc \notin New
    /\ \/ /\ turns[i].cancel \/ (turns[i].pc = "chain" /\ turns[i - 1].pc = "cancelled")
          /\ NeverBegins(i)
       \/ /\ ~ turns[i].cancel
          /\ turns[i].pc = "chain"
          /\ turns[i - 1].pc \notin Finished
          /\ turns' = [turns EXCEPT ![i].pc = "waiting"]
          /\ UNCHANGED <<status, emitted, client, stopped>>
       \/ /\ ~ turns[i].cancel
          /\ turns[i].pc = "chain" => turns[i - 1].pc = "done"
          /\ BeginAttempt(i)
    /\ UNCHANGED <<outputs, askVars, cmd, closeVars>>

(* _chain: the awaited task has finished. *)
ChainResumes(i) ==
    /\ turns[i].pc = "waiting"
    /\ turns[i - 1].pc \in Finished
    /\ \/ /\ turns[i].cancel \/ turns[i - 1].pc = "cancelled"
          /\ NeverBegins(i)
       \/ /\ ~ turns[i].cancel
          /\ turns[i - 1].pc = "done"
          /\ BeginAttempt(i)
    /\ UNCHANGED <<outputs, askVars, cmd, closeVars>>

Running(i, pc) == turns[i].pc = pc /\ ~ turns[i].cancel

(* The provider emits an event of the turn: _emit. *)
TurnOutput(i) ==
    /\ Running(i, "attempt")
    /\ EmitFor(i)
    /\ UNCHANGED <<turns, status, client, stopped, askVars, cmd, closeVars>>

(* make_turn() returns.  The agent ends a turn with a callback outstanding  *)
(* only when it was interrupted.                                            *)
TurnReturns(i) ==
    /\ Running(i, "attempt")
    /\ Outstanding = {} \/ i \in stopped
    /\ Finish(i, "done")
    /\ UNCHANGED <<emitted, client, outputs, askVars, cmd, closeVars>>

(* Fault: a crash is retried whatever the attempt had emitted. *)
RetryAfterOutput(i, isRetryable) ==
    isRetryable /\ turns[i].attempt <= RetryLimit

(* _guard retries only a transport crash before any event went out. *)
MayRetry(i, isRetryable) ==
    isRetryable /\ ~ emitted /\ turns[i].attempt <= RetryLimit

(* make_turn() raises: a crash (fatal, retryable), a missing CLI (fatal) or *)
(* an error of the provider (neither), as _classify_error tells them apart. *)
(* _fail reports it.                                                        *)
TurnRaises(i) ==
    /\ Running(i, "attempt")
    /\ \E isFatal, isRetryable \in BOOLEAN :
        /\ isRetryable => isFatal
        /\ \/ /\ MayRetry(i, isRetryable)
              /\ turns' = [turns EXCEPT ![i].pc = "retry"]
              /\ UNCHANGED emitted
           \/ /\ ~ MayRetry(i, isRetryable)
              /\ turns' = [turns EXCEPT ![i].pc = IF isFatal THEN "fatal" ELSE "fail"]
              /\ emitted' = TRUE
    /\ UNCHANGED <<status, client, outputs, stopped, askVars, cmd, closeVars>>

(* Provider.aclose(): the client is gone, its callbacks are cancelled, and  *)
(* the finally of PermissionBroker.request forgets them.                    *)
ProviderCloses ==
    /\ client' = FALSE
    /\ asks' = [a \in Asks |-> IF a \in Outstanding
                               THEN [asks[a] EXCEPT !.pc = "dropped"] ELSE asks[a]]
    /\ pending' = pending \ Outstanding

(* _reset_provider before another attempt. *)
ResetForRetry(i) ==
    /\ Running(i, "retry")
    /\ ProviderCloses
    /\ turns' = [turns EXCEPT ![i].pc = "backoff"]
    /\ UNCHANGED <<status, emitted, outputs, stopped, allowed, cmd, closeVars>>

(* The sleep of turn_retry_backoff ends. *)
Retry(i) ==
    /\ Running(i, "backoff")
    /\ BeginAttempt(i)
    /\ UNCHANGED <<outputs, askVars, cmd, closeVars>>

(* _fail: the emit of session.error returns; a fatal error resets. *)
ErrorReported(i) ==
    /\ \/ /\ Running(i, "fatal")
          /\ turns' = [turns EXCEPT ![i].pc = "reset"]
          /\ UNCHANGED <<status, stopped>>
       \/ /\ Running(i, "fail")
          /\ Finish(i, "done")
    /\ UNCHANGED <<emitted, client, outputs, askVars, cmd, closeVars>>

ResetAfterError(i) ==
    /\ Running(i, "reset")
    /\ ProviderCloses
    /\ Finish(i, "done")
    /\ UNCHANGED <<emitted, outputs, allowed, cmd, closeVars>>

(* A requested cancel() is delivered to a task that has begun its turn. *)
TurnCancelled(i) ==
    /\ turns[i].pc \in Active
    /\ turns[i].cancel
    /\ Finish(i, "cancelled")
    /\ UNCHANGED <<emitted, client, outputs, askVars, cmd, closeVars>>

-----------------------------------------------------------------------------
(* Remote approvals. *)

(* _ask_permission emits the request, also while the turn of its agent is   *)
(* being cancelled, ...                                                     *)
AskRaised(a) ==
    /\ asks[a].pc = "unused"
    /\ \E i \in Turns :
        /\ turns[i].pc = "attempt"
        /\ EmitFor(i)
    /\ asks' = [asks EXCEPT ![a].pc = "raising"]
    /\ UNCHANGED <<turns, status, client, stopped, pending, allowed, cmd, closeVars>>

(* ... and registers it with the broker only after the emit. *)
AskRegistered(a) ==
    /\ asks[a].pc = "raising"
    /\ asks' = [asks EXCEPT ![a].pc = "waiting"]
    /\ pending' = pending \cup {a}
    /\ UNCHANGED <<allowed, turns, runVars, cmd, closeVars>>

(* Fault: the browser's decision is taken as it comes. *)
RawVerdict(decision) == decision

(* Everything but allow denies. *)
Verdict(decision) == IF decision = "allow" THEN "allow" ELSE "deny"

(* PermissionBroker.resolve settles the future of a pending request, once. *)
Settled(a, decision) ==
    IF a \in pending /\ asks[a].verdict = "none"
    THEN [asks EXCEPT ![a].verdict = Verdict(decision)] ELSE asks

(* permission.resolve from some browser, for a request it was shown. *)
Resolve(a, decision) ==
    /\ registered
    /\ cmd = Idle
    /\ asks[a].pc # "unused"
    /\ asks' = Settled(a, decision)
    /\ allowed' = IF decision = "allow" THEN allowed \cup {a} ELSE allowed
    /\ UNCHANGED <<pending, turns, runVars, cmd, closeVars>>

(* The request returns its verdict. *)
AskReturns(a) ==
    /\ asks[a].pc = "waiting"
    /\ asks[a].verdict # "none"
    /\ asks' = [asks EXCEPT ![a].pc = "returned"]
    /\ pending' = pending \ {a}
    /\ UNCHANGED <<allowed, turns, runVars, cmd, closeVars>>

(* Fault: a request that times out keeps the default of an open gate. *)
AskTimesOutOpen(a) ==
    /\ asks[a].pc = "waiting"
    /\ asks' = [asks EXCEPT ![a] = [pc |-> "returned", verdict |-> "allow"]]
    /\ pending' = pending \ {a}
    /\ UNCHANGED <<allowed, turns, runVars, cmd, closeVars>>

(* permission_timeout passes.  From Python 3.12 wait_for may let the timer  *)
(* win over a verdict that was set but not yet picked up.                   *)
AskTimesOut(a) ==
    /\ asks[a].pc = "waiting"
    /\ asks' = [asks EXCEPT ![a] = [pc |-> "returned", verdict |-> "deny"]]
    /\ pending' = pending \ {a}
    /\ UNCHANGED <<allowed, turns, runVars, cmd, closeVars>>

(* Fault: the registry is cleared and the futures are left alone. *)
CancelAllForgets ==
    /\ UNCHANGED asks
    /\ pending' = {}

(* PermissionBroker.cancel_all("deny"). *)
CancelAll ==
    /\ asks' = [a \in Asks |->
                   IF a \in pending /\ asks[a].verdict = "none"
                   THEN [asks[a] EXCEPT !.verdict = "deny"] ELSE asks[a]]
    /\ pending' = {}

-----------------------------------------------------------------------------
(* Commands. *)

(* start(): session.started is out, the first turn is spawned. *)
Start ==
    /\ cmd.pc = "start"
    /\ Spawn(FALSE)
    /\ cmd' = Idle
    /\ UNCHANGED <<runVars, askVars, closeVars>>

(* send(). *)
Send ==
    /\ registered
    /\ cmd = Idle
    /\ Len(turns) < MaxTurns
    /\ Spawn(FALSE)
    /\ UNCHANGED <<runVars, askVars, cmd, closeVars>>

(* edit() announces the rewind, for the turn it is about to spawn, ... *)
Edit ==
    /\ registered
    /\ cmd = Idle
    /\ Len(turns) < MaxTurns
    /\ emitted' = TRUE
    /\ cmd' = [pc |-> "edit"]
    /\ UNCHANGED <<turns, status, client, outputs, stopped, askVars, closeVars>>

(* ... and spawns it after the emit, whether or not the session was closed. *)
EditSpawns ==
    /\ cmd.pc = "edit"
    /\ Spawn(TRUE)
    /\ cmd' = Idle
    /\ UNCHANGED <<runVars, askVars, closeVars>>

(* interrupt() denies what is pending, ... *)
Stop ==
    /\ registered
    /\ cmd = Idle
    /\ CancelAll
    /\ cmd' = [pc |-> "deny", left |-> pending]
    /\ UNCHANGED <<allowed, turns, runVars, closeVars>>

(* ... tells the browsers of each, ... *)
TellDenied ==
    /\ cmd.pc = "deny"
    /\ \E a \in cmd.left : cmd' = [cmd EXCEPT !.left = @ \ {a}]
    /\ emitted' = TRUE
    /\ UNCHANGED <<turns, status, client, outputs, stopped, askVars, closeVars>>

(* ... and calls provider.interrupt(), ... *)
InterruptProvider ==
    /\ cmd.pc = "deny"
    /\ cmd.left = {}
    /\ cmd' = [pc |-> "stop"]
    /\ stopped' = stopped \cup {i \in Turns : turns[i].pc \notin Finished}
    /\ UNCHANGED <<turns, status, emitted, client, outputs, askVars, closeVars>>

(* ... which returns. *)
Stopped ==
    /\ cmd.pc = "stop"
    /\ cmd' = Idle
    /\ UNCHANGED <<turns, runVars, askVars, closeVars>>

(* A turn reports an id another live session owns: _rekey_session takes     *)
(* this one out of the registry and schedules its close().                  *)
DuplicateFound ==
    /\ registered
    /\ \E i \in Turns :
        /\ Running(i, "attempt")
        /\ EmitFor(i)
    /\ registered' = FALSE
    /\ closing' = "scheduled"
    /\ UNCHANGED <<turns, status, client, stopped, cmd, clean, askVars>>

(* cancel() on the last task: a task that waits passes it on to the task it *)
(* waits for, one that has not started keeps it to itself.                  *)
CancelReaches(i) ==
    \A k \in i + 1 .. Len(turns) :
        turns[k].pc = "waiting" /\ turns[k - 1].pc \notin Finished

(* close(): of a registered session as a command (_close_session has taken  *)
(* it out of the registry), of a duplicate as the scheduled task.           *)
Close ==
    /\ \/ registered /\ cmd = Idle /\ turns # <<>>
       \/ closing = "scheduled"
    /\ registered' = FALSE
    /\ CancelAll
    /\ IF LastTurn.pc \in Finished
       THEN /\ closing' = "aclosing"
            /\ UNCHANGED turns
       ELSE /\ closing' = "cancelling"
            /\ turns' = [i \in Turns |->
                            IF CancelReaches(i) /\ turns[i].pc \notin Finished
                            THEN [turns[i] EXCEPT !.cancel = TRUE] ELSE turns[i]]
    /\ clean' = (LastTurn.pc # "chain" /\ cmd.pc # "edit")
    /\ UNCHANGED <<runVars, allowed, cmd>>

(* Fault: the cancelled task is not awaited. *)
CloseUnawaited ==
    /\ closing = "cancelling"
    /\ closing' = "aclosing"
    /\ UNCHANGED <<registered, cmd, clean, turns, runVars, askVars>>

(* The awaited task has finished. *)
CloseAwaited ==
    /\ closing = "cancelling"
    /\ \A i \in Turns : turns[i].cancel => turns[i].pc \in Finished
    /\ closing' = "aclosing"
    /\ UNCHANGED <<registered, cmd, clean, turns, runVars, askVars>>

(* provider.aclose() has returned: session.closed. *)
Closed ==
    /\ closing = "aclosing"
    /\ ProviderCloses
    /\ closing' = "closed"
    /\ emitted' = TRUE
    /\ UNCHANGED <<turns, status, outputs, stopped, allowed, registered, cmd, clean>>

-----------------------------------------------------------------------------
TurnStep(i) ==
    \/ TaskStarts(i)
    \/ ChainResumes(i)
    \/ TurnReturns(i)
    \/ ResetForRetry(i)
    \/ Retry(i)
    \/ ErrorReported(i)
    \/ ResetAfterError(i)
    \/ TurnCancelled(i)

AskStep(a) ==
    \/ AskRegistered(a)
    \/ AskReturns(a)
    \/ AskTimesOut(a)

CommandStep ==
    \/ Start
    \/ EditSpawns
    \/ TellDenied
    \/ InterruptProvider
    \/ Stopped

CloseStep ==
    \/ closing = "scheduled" /\ Close
    \/ CloseAwaited
    \/ Closed

Next ==
    \/ \E i \in Turns : TurnStep(i) \/ TurnOutput(i) \/ TurnRaises(i)
    \/ \E a \in Asks :
        \/ AskStep(a)
        \/ AskRaised(a)
        \/ \E decision \in {"allow", "deny", "other"} : Resolve(a, decision)
    \/ CommandStep
    \/ Send
    \/ Edit
    \/ Stop
    \/ DuplicateFound
    \/ Close
    \/ CloseAwaited
    \/ Closed

Spec == Init /\ [][Next]_vars

(* The loop runs every task that can go on, permission_timeout is positive  *)
(* so a request times out in the end, and the agent ends a turn once its    *)
(* callbacks are answered.  Nothing obliges a browser to act or a provider  *)
(* to emit or to fail.                                                      *)
Fairness ==
    /\ \A i \in 1 .. MaxTurns : WF_vars(i \in Turns /\ TurnStep(i))
    /\ \A a \in Asks : WF_vars(AskStep(a))
    /\ WF_vars(CommandStep)
    /\ WF_vars(CloseStep)

FairSpec == Spec /\ Fairness

-----------------------------------------------------------------------------
(* Properties. *)

(* Turns run one at a time and in the order of their commands, through      *)
(* every retry, failure and stop, until the session is closed; and the      *)
(* status the history list shows as "running" tells whether one runs.       *)
RunsInOrder ==
    closing \in {"no", "scheduled"} =>
        /\ \A i, j \in Turns :
            (i < j /\ turns[j].pc \in Active \cup Finished)
                => turns[i].pc \in Finished
        /\ status = "running" <=> \E i \in Turns : turns[i].pc \in Active

(* What a turn put out all comes from one attempt: a crash is retried only  *)
(* when the browser saw nothing of it, not even a permission request.       *)
NoReplayAfterOutput ==
    clean => \A p, q \in outputs : p.turn = q.turn => p.attempt = q.attempt

(* The agent gets an allow only for a request a browser allowed, whatever   *)
(* the order of answers, timeout, stop, crash and close.                    *)
AllowOnlyByBrowser ==
    \A a \in Asks :
        (asks[a].pc = "returned" /\ asks[a].verdict = "allow") => a \in allowed

(* A request that blocks its turn is in the broker, where the snapshot for  *)
(* a reconnecting browser finds it and an answer reaches it.                *)
BlockedIsListed ==
    \A a \in Asks :
        (asks[a].pc = "waiting" /\ asks[a].verdict = "none") => a \in pending

(* close() ends every turn, running or queued, and leaves no client and no  *)
(* callback behind, so nothing follows session.closed; provided that the    *)
(* last task is no chain still to start and no edit is under way (see       *)
(* ClosedStaysClosed).                                                      *)
CleanCloseIsFinal ==
    (closing = "closed" /\ clean) =>
        /\ \A i \in Turns : turns[i].pc \in Finished
        /\ Outstanding = {}
        /\ ~ client

(* connection.py closes a duplicate so as to "never run two clients for one *)
(* transcript": after close() the session runs no client.                   *)
ClosedStaysClosed ==
    closing = "closed" => ~ client

(* README, Session reliability: Stop "returns the session to idle".  A turn *)
(* accepted before the stop makes no new attempt after it.                  *)
StopReturnsToIdle ==
    [][\A i \in stopped : turns'[i].attempt = turns[i].attempt]_vars

(* session.py announces an edit so that a reconnecting browser does without *)
(* "replaying the abandoned turns": no output of an earlier turn comes      *)
(* after the announcement.                                                  *)
RewindHidesAbandoned ==
    \A p \in outputs : ~ p.rewound

(* Every turn ends: none is stuck behind a chain, an unanswered request, a  *)
(* retry or a close.                                                        *)
EveryTurnEnds ==
    \A i \in 1 .. MaxTurns :
        (i \in Turns) ~> (i \in Turns /\ turns[i].pc \in Finished)
=============================================================================
