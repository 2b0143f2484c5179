------------------------------- MODULE Copilot -------------------------------
(***************************************************************************)
(* The Copilot provider (providers/copilot.py): an agent process that       *)
(* speaks JSON-RPC over its pipes, a reader task that settles requests and  *)
(* relays updates, permission tasks beside it, and the turn that spawns,    *)
(* initializes, prompts and tears down.                                     *)
(*                                                                          *)
(* The caller is Session: one turn at a time, an aclose() after a failure   *)
(* (_reset_provider), a cancel followed by an aclose() when the session is  *)
(* closed.  The agent may die, stay silent or refuse at any moment; what it *)
(* wrote before is still read.  A write to a dead agent raises.  The reader *)
(* may end though the agent lives, and a request written after that is one  *)
(* nobody will settle.                                                      *)
(*                                                                          *)
(* interrupt() only notifies the agent, and the stderr task only keeps the  *)
(* last lines: neither changes anything here.  An emit of the reader is one *)
(* step with the update it relays.                                          *)
(***************************************************************************)
EXTENDS Naturals, Sequences, FiniteSets

CONSTANTS
    Asks,        \* permission requests of the agent
    MaxTurns,    \* bound: attempts of turns
    MaxProcs,    \* bound: agent processes
    MaxBubbles   \* bound: text blocks of a turn

ASSUME CopilotAssumption ==
    /\ MaxTurns \in Nat
    /\ MaxProcs \in Nat
    /\ MaxBubbles \in Nat

VARIABLES
    procs,     \* the agent processes ever spawned
    proc,      \* _proc, 0 for None
    reader,    \* _reader_task: the process it reads, and whether it still does
    connected, \* _connected
    opened,    \* _acp_session_id is known
    announced, \* _announced_identity
    capsClose, \* _caps_close
    calls,     \* the requests made, by their ids: _next_id, _pending and futures
    aux,       \* the permission tasks
    bubbles,   \* the text blocks of the turn; the last, while open, is _cur
    pc,        \* where the caller is
    next,      \* what follows the aclose() it is in
    cancel,    \* a cancel of the caller's task is under way
    closing,   \* Session.close(): not called, awaits the turn, in aclose(), over
    attempts   \* history: attempts made

procVars == <<procs, proc, reader>>
sessionVars == <<connected, opened, announced, capsClose>>
callerVars == <<pc, next, cancel, closing, attempts>>
vars == <<procVars, sessionVars, calls, aux, bubbles, callerVars>>

-----------------------------------------------------------------------------
Proc == [alive : BOOLEAN, told : BOOLEAN]

Reader == [proc : 0 .. MaxProcs, on : BOOLEAN]

(* A request: whom it was written to, whether _pending has it, its future.  *)
Call == [proc : 1 .. MaxProcs, pending : BOOLEAN,
         future : {"waiting", "result", "error", "failed", "cancelled"}]

(* An option the agent offers: its standard kind, and whether its name has  *)
(* a word like "allow" in it.                                               *)
Option == [kind : {"allow", "reject", "other"}, keyword : BOOLEAN]

Options == UNION {[1 .. n -> Option] : n \in 0 .. 2}

(* A permission task: the agent that asked, the agent that was answered, the *)
(* verdict, and the kind of the option chosen.                              *)
Aux == [proc : 0 .. MaxProcs, state : {"none", "asking", "over"}, answered : 0 .. MaxProcs,
        allow : BOOLEAN, chosen : {"allow", "reject", "other", "cancelled"}]

Unasked(p) ==
    [proc |-> p, state |-> "none", answered |-> 0, allow |-> FALSE, chosen |-> "cancelled"]

Awaiting == {"initialize", "open", "prompt", "closeRequest"}

TypeOK ==
    /\ procs \in Seq(Proc) /\ Len(procs) <= MaxProcs
    /\ proc \in 0 .. Len(procs)
    /\ reader \in Reader /\ reader.proc <= Len(procs)
    /\ {connected, opened, announced, capsClose} \subseteq BOOLEAN
    /\ calls \in Seq(Call)
    /\ aux \in [Asks -> Aux]
    /\ bubbles \in Seq({"open", "committed"})
    /\ pc \in Awaiting \cup {"idle", "spawning", "announcing", "closeReader", "closeWait",
                             "failed", "cancelled"}
    /\ next \in {"none", "spawn", "failed", "cancelled", "idle", "closed"}
    /\ cancel \in BOOLEAN
    /\ closing \in {"no", "awaiting", "closing", "closed"}
    /\ attempts \in 0 .. MaxTurns

Init ==
    /\ procs = <<>>
    /\ proc = 0
    /\ reader = [proc |-> 0, on |-> FALSE]
    /\ connected = FALSE
    /\ opened = FALSE
    /\ announced = FALSE
    /\ capsClose = FALSE
    /\ calls = <<>>
    /\ aux = [a \in Asks |-> Unasked(0)]
    /\ bubbles = <<>>
    /\ pc = "idle"
    /\ next = "none"
    /\ cancel = FALSE
    /\ closing = "no"
    /\ attempts = 0

Current == Len(calls)

Alive == proc # 0 /\ procs[proc].alive

-----------------------------------------------------------------------------
(* Requests. *)

(* Fault: write() without drain(): a dead pipe goes unnoticed. *)
WritesUnnoticed == proc # 0

(* _write raises without a process, or if the process is dead. *)
Writes == Alive

(* _request registers a future, writes and awaits; if the write raises, the *)
(* future is forgotten.                                                     *)
Request ==
    /\ Writes
    /\ calls' = Append(calls, [proc |-> proc, pending |-> TRUE, future |-> "waiting"])

(* Fault: the requests in flight are forgotten, and their futures with them. *)
FailForgets == [i \in DOMAIN calls |-> [calls[i] EXCEPT !.pending = FALSE]]

(* _fail_pending *)
FailPending ==
    [i \in DOMAIN calls |->
        [calls[i] EXCEPT
            !.pending = FALSE,
            !.future = IF calls[i].pending /\ @ = "waiting" THEN "failed" ELSE @]]

(* A cancel of the caller cancels the future it awaits; _pending keeps it. *)
Abandoned ==
    [calls EXCEPT ![Current].future = IF @ = "waiting" THEN "cancelled" ELSE @]

-----------------------------------------------------------------------------
(* aclose(), up to its next suspension. *)

(* Fault: permission tasks are not cancelled. *)
CancelNone == aux

CancelAux ==
    [a \in Asks |-> IF aux[a].state = "asking" THEN [aux[a] EXCEPT !.state = "over"] ELSE aux[a]]

(* The permission tasks and the reader are cancelled; the reader is awaited *)
(* (which may suspend even if it has ended: the stderr task is next).        *)
TearDown(after) ==
    /\ connected' = FALSE
    /\ aux' = CancelAux
    /\ pc' = "closeReader"
    /\ next' = after

(* An open session is closed first if the agent can and the write succeeds. *)
AClose(after) ==
    IF connected /\ opened /\ capsClose /\ Writes
    THEN /\ Request
         /\ pc' = "closeRequest"
         /\ next' = after
         /\ UNCHANGED <<connected, aux>>
    ELSE TearDown(after) /\ UNCHANGED calls

(* What follows an aclose() that has returned. *)
Follow ==
    /\ pc' = CASE next = "spawn" -> "spawning"
               [] next = "closed" -> "idle"
               [] OTHER -> next
    /\ closing' = IF next = "closed" THEN "closed" ELSE closing
    /\ next' = "none"

-----------------------------------------------------------------------------
(* The caller. *)

(* The test of _ensure_proc; returncode may lag behind the death. *)
Usable == IF connected /\ proc # 0
          THEN IF Alive THEN {TRUE} ELSE {TRUE, FALSE}
          ELSE {FALSE}

(* session/prompt goes out; a write that raises fails the turn. *)
Prompt ==
    /\ bubbles' = <<>>
    /\ IF Writes
       THEN Request /\ pc' = "prompt"
       ELSE pc' = "failed" /\ UNCHANGED calls

(* start() or send(). *)
Turn ==
    /\ pc = "idle"
    /\ closing = "no"
    /\ attempts < MaxTurns
    /\ attempts' = attempts + 1
    /\ \E usable \in Usable :
        \/ /\ usable
           /\ Prompt
           /\ UNCHANGED <<connected, aux, next>>
        \/ /\ ~ usable /\ Len(procs) < MaxProcs
           /\ proc # 0 \/ reader.proc # 0
           /\ AClose("spawn")
           /\ UNCHANGED bubbles
        \/ /\ ~ usable /\ Len(procs) < MaxProcs
           /\ proc = 0 /\ reader.proc = 0
           /\ pc' = "spawning"
           /\ UNCHANGED <<calls, aux, bubbles, connected, next>>
    /\ UNCHANGED <<procVars, opened, announced, capsClose, cancel, closing>>

(* create_subprocess_exec returns; reader and initialize() begin. *)
Spawned ==
    /\ pc = "spawning"
    /\ ~ cancel
    /\ Len(procs) < MaxProcs
    /\ procs' = Append(procs, [alive |-> TRUE, told |-> FALSE])
    /\ proc' = Len(procs) + 1
    /\ reader' = [proc |-> Len(procs) + 1, on |-> TRUE]
    /\ calls' = Append(calls, [proc |-> Len(procs) + 1, pending |-> TRUE, future |-> "waiting"])
    /\ pc' = "initialize"
    /\ UNCHANGED <<sessionVars, aux, bubbles, next, cancel, closing, attempts>>

(* It raises (no CLI, no such directory), or is cancelled. *)
SpawnFails ==
    /\ pc = "spawning"
    /\ pc' = IF cancel THEN "cancelled" ELSE "failed"
    /\ cancel' = FALSE
    /\ UNCHANGED <<procVars, sessionVars, calls, aux, bubbles, next, closing, attempts>>

Settled(outcome) ==
    /\ calls[Current].future = outcome
    /\ ~ cancel

(* The agent tells what it can; the session is asked for. *)
Initialized ==
    /\ pc = "initialize"
    /\ Settled("result")
    /\ capsClose' \in BOOLEAN
    /\ IF Writes
       THEN /\ Request
            /\ pc' = "open"
            /\ UNCHANGED <<connected, aux, next>>
       ELSE TearDown("failed") /\ UNCHANGED calls
    /\ UNCHANGED <<procVars, opened, announced, bubbles, cancel, closing, attempts>>

(* The session is new, resumed or loaded.  The id of a new one is announced *)
(* once, in an emit; else the prompt goes out at once.                      *)
SessionOpened ==
    /\ pc = "open"
    /\ Settled("result")
    /\ opened' = TRUE
    /\ announced' = TRUE
    /\ \/ /\ ~ announced
          /\ pc' = "announcing"
          /\ UNCHANGED <<calls, bubbles, connected>>
       \/ /\ connected' = TRUE
          /\ Prompt
    /\ UNCHANGED <<procVars, capsClose, aux, next, cancel, closing, attempts>>

Announced ==
    /\ pc = "announcing"
    /\ ~ cancel
    /\ connected' = TRUE
    /\ Prompt
    /\ UNCHANGED <<procVars, opened, announced, capsClose, aux, next, cancel, closing,
                   attempts>>

(* A failure before the prompt, an error answer among them, closes first. *)
HandshakeFails ==
    /\ pc \in {"initialize", "open", "announcing"}
    /\ \/ cancel
       \/ pc # "announcing" /\ (Settled("error") \/ Settled("failed"))
    /\ TearDown(IF cancel THEN "cancelled" ELSE "failed")
    /\ cancel' = FALSE
    /\ calls' = IF pc # "announcing" THEN Abandoned ELSE calls
    /\ UNCHANGED <<procVars, opened, announced, capsClose, bubbles, closing, attempts>>

(* _flush_cur *)
Commit ==
    IF bubbles = <<>> THEN bubbles ELSE [bubbles EXCEPT ![Len(bubbles)] = "committed"]

(* The prompt is answered: the open block is committed, then the result or  *)
(* the error goes out.                                                      *)
TurnEnds ==
    /\ pc = "prompt"
    /\ Settled("result") \/ Settled("error")
    /\ bubbles' = Commit
    /\ pc' = "idle"
    /\ UNCHANGED <<procVars, sessionVars, calls, aux, next, cancel, closing, attempts>>

TurnFails ==
    /\ pc = "prompt"
    /\ \/ Settled("failed") /\ pc' = "failed" /\ UNCHANGED calls
       \/ cancel /\ pc' = "cancelled" /\ calls' = Abandoned
    /\ cancel' = FALSE
    /\ UNCHANGED <<procVars, sessionVars, aux, bubbles, next, closing, attempts>>

(* Session resets the provider, before a retry or after a fatal error, or   *)
(* leaves it (another error, or the cancel hits in a backoff or an emit).   *)
AfterFailure ==
    /\ pc = "failed"
    /\ \/ /\ ~ cancel
          /\ AClose("idle")
          /\ UNCHANGED cancel
       \/ /\ pc' = IF cancel THEN "cancelled" ELSE "idle"
          /\ cancel' = FALSE
          /\ UNCHANGED <<calls, aux, connected, next>>
    /\ UNCHANGED <<procVars, opened, announced, capsClose, bubbles, closing, attempts>>

(* session/close has been answered or has failed. *)
CloseAnswered ==
    /\ pc = "closeRequest"
    /\ calls[Current].future # "waiting"
    /\ ~ cancel
    /\ TearDown(next)
    /\ UNCHANGED <<procVars, opened, announced, capsClose, calls, bubbles, cancel, closing,
                   attempts>>

(* A cancel there, or in the wait for the process, stops aclose() half way. *)
CloseCancelled ==
    /\ pc \in {"closeRequest", "closeWait"}
    /\ cancel
    /\ calls' = IF pc = "closeRequest" THEN Abandoned ELSE calls
    /\ pc' = "cancelled"
    /\ next' = "none"
    /\ cancel' = FALSE
    /\ UNCHANGED <<procVars, sessionVars, aux, bubbles, closing, attempts>>

(* Fault: the process is let go as it is. *)
ToldNot == procs

Told == IF Alive THEN [procs EXCEPT ![proc].told = TRUE] ELSE procs

(* The reader has ended: its finally runs if it was reading.  The process   *)
(* is told to terminate and awaited; with none to await, aclose() fails     *)
(* what is pending and is over.  A cancel meanwhile is suppressed together  *)
(* with the reader's own.                                                   *)
ReaderAwaited ==
    /\ pc = "closeReader"
    /\ reader' = [proc |-> 0, on |-> FALSE]
    /\ procs' = Told
    /\ proc' = 0
    /\ calls' = IF reader.on \/ ~ Alive THEN FailPending ELSE calls
    /\ cancel' = FALSE
    /\ connected' = FALSE
    /\ IF Alive
       THEN pc' = "closeWait" /\ UNCHANGED <<next, closing>>
       ELSE Follow
    /\ UNCHANGED <<opened, announced, capsClose, aux, bubbles, attempts>>

(* It has exited, or is killed after five seconds. *)
ProcessAwaited ==
    /\ pc = "closeWait"
    /\ ~ cancel
    /\ procs' = [p \in DOMAIN procs |->
                    IF procs[p].told THEN [procs[p] EXCEPT !.alive = FALSE] ELSE procs[p]]
    /\ calls' = FailPending
    /\ Follow
    /\ UNCHANGED <<proc, reader, sessionVars, aux, bubbles, cancel, attempts>>

-----------------------------------------------------------------------------
(* Session.close(): the turn is cancelled and awaited, then aclose(). *)

Close ==
    /\ closing = "no"
    /\ pc # "idle"
    /\ closing' = "awaiting"
    /\ cancel' = TRUE
    /\ UNCHANGED <<procVars, sessionVars, calls, aux, bubbles, pc, next, attempts>>

CloseProvider ==
    /\ \/ closing = "no" /\ pc = "idle"
       \/ closing = "awaiting" /\ pc \in {"idle", "cancelled"}
    /\ closing' = "closing"
    /\ cancel' = FALSE
    /\ AClose("closed")
    /\ UNCHANGED <<procVars, opened, announced, capsClose, bubbles, attempts>>

-----------------------------------------------------------------------------
(* The agent, the reader and the permission tasks. *)

(* A reader that was cancelled reads nothing more. *)
Reading == reader.on /\ pc # "closeReader"

AgentDies(p) ==
    /\ procs[p].alive
    /\ procs' = [procs EXCEPT ![p].alive = FALSE]
    /\ UNCHANGED <<proc, reader, sessionVars, calls, aux, bubbles, callerVars>>

(* The reader meets a response: the future is popped and, if somebody still *)
(* waits, settled.                                                          *)
Response(i) ==
    /\ Reading
    /\ calls[i].proc = reader.proc
    /\ calls[i].pending
    /\ \E outcome \in {"result", "error"} :
        calls' = [calls EXCEPT
                    ![i].pending = FALSE,
                    ![i].future = IF @ = "waiting" THEN outcome ELSE @]
    /\ UNCHANGED <<procVars, sessionVars, aux, bubbles, callerVars>>

(* A session/update: a chunk goes on with the open block, or commits it and *)
(* opens the next; a tool call commits it.                                  *)
Update ==
    /\ Reading
    /\ pc = "prompt"
    /\ \/ bubbles' = Commit
       \/ /\ Len(bubbles) < MaxBubbles
          /\ bubbles' = Append(Commit, "open")
    /\ UNCHANGED <<procVars, sessionVars, calls, aux, callerVars>>

(* The reader ends: at the end of the agent's output, which comes when the  *)
(* agent and what it started are gone or closed it, at a line of more than  *)
(* 64 KiB, or when handling a message raises.  It fails the requests.       *)
ReaderEnds ==
    /\ Reading
    /\ reader' = [reader EXCEPT !.on = FALSE]
    /\ connected' = FALSE
    /\ calls' = FailPending
    /\ UNCHANGED <<procs, proc, opened, announced, capsClose, aux, bubbles, callerVars>>

(* session/request_permission is served by a task of its own ... *)
AgentAsks(a) ==
    /\ Reading
    /\ aux[a].state = "none"
    /\ aux' = [aux EXCEPT ![a] = [Unasked(reader.proc) EXCEPT !.state = "asking"]]
    /\ UNCHANGED <<procVars, sessionVars, calls, bubbles, callerVars>>

(* Fault: a deny looks for its option by name, as an allow does. *)
SelectByName(options, allow) ==
    LET fits == {i \in DOMAIN options : options[i].kind = IF allow THEN "allow" ELSE "reject"}
        named == {i \in DOMAIN options : options[i].keyword}
        best == IF fits # {} THEN fits ELSE IF named # {} THEN named ELSE DOMAIN options
    IN  IF best = {} THEN "cancelled"
        ELSE options[CHOOSE i \in best : \A j \in best : i <= j].kind

(* _select_option: by kind; an allow then by name, then the first at all. *)
Select(options, allow) ==
    LET fits == {i \in DOMAIN options : options[i].kind = IF allow THEN "allow" ELSE "reject"}
        named == {i \in DOMAIN options : options[i].keyword}
        best == IF fits # {} \/ ~ allow THEN fits
                ELSE IF named # {} THEN named ELSE DOMAIN options
    IN  IF best = {} THEN "cancelled"
        ELSE options[CHOOSE i \in best : \A j \in best : i <= j].kind

(* ... which answers the process that runs by then, if one does; a failed   *)
(* approval counts as cancelled.                                            *)
AuxAnswers(a) ==
    /\ aux[a].state = "asking"
    /\ \E allow \in BOOLEAN :
        \E chosen \in {Select(options, allow) : options \in Options} \cup {"cancelled"} :
            aux' = [aux EXCEPT ![a].state = "over", ![a].allow = allow, ![a].chosen = chosen,
                               ![a].answered = IF Writes THEN proc ELSE 0]
    /\ UNCHANGED <<procVars, sessionVars, calls, bubbles, callerVars>>

-----------------------------------------------------------------------------
CallerStep ==
    \/ Spawned \/ SpawnFails
    \/ Initialized \/ SessionOpened \/ Announced \/ HandshakeFails
    \/ TurnEnds \/ TurnFails \/ AfterFailure
    \/ CloseAnswered \/ CloseCancelled \/ ReaderAwaited \/ ProcessAwaited
    \/ CloseProvider /\ closing = "awaiting"

Next ==
    \/ Turn
    \/ CallerStep
    \/ Close
    \/ CloseProvider
    \/ \E p \in DOMAIN procs : AgentDies(p)
    \/ \E i \in DOMAIN calls : Response(i)
    \/ Update
    \/ ReaderEnds
    \/ \E a \in Asks : AgentAsks(a) \/ AuxAnswers(a)

Spec == Init /\ [][Next]_vars

(* The loop runs the caller.  The agent owes nothing: neither an answer nor *)
(* the end of its output.                                                   *)
Fairness == WF_vars(CallerStep)

FairSpec == Spec /\ Fairness

-----------------------------------------------------------------------------
(* Properties. *)

(* What the caller awaits has not been answered. *)
Unanswered == pc \in Awaiting /\ calls[Current].pending /\ calls[Current].future = "waiting"

(* A request that somebody awaits is one the reader will settle, "rather    *)
(* than hanging forever" (_reader_loop).  It does not hold: a session that  *)
(* opens beside the end of its reader is connected all the same.            *)
AwaitedIsServed == Unanswered => reader.on

(* No agent runs that the provider does not know: whichever step fails or   *)
(* is cancelled, an agent is the current one or has been told to terminate. *)
NoStrayAgent ==
    /\ \A p \in DOMAIN procs : (procs[p].alive /\ ~ procs[p].told) => p = proc
    /\ closing = "closed" => proc = 0

(* A verdict goes to the agent that asked, never to its successor, whose    *)
(* requests may have the same numbers; and whatever the agent offers, a     *)
(* deny selects a refusal or cancels.                                       *)
VerdictHonoured ==
    \A a \in Asks : aux[a].answered # 0 =>
        /\ aux[a].answered = aux[a].proc
        /\ aux[a].allow \/ aux[a].chosen \in {"reject", "cancelled"}

(* Session.close() is over in the end, or waits for an answer the agent has *)
(* not given: whatever ends the reader, fails the handshake or reaches the  *)
(* tear-down, no future is forgotten.  (session/close has no timeout, and a *)
(* cancel that aclose() swallows lets the turn go on to its prompt.)        *)
CloseCompletes == (closing # "no") ~> (closing = "closed" \/ Unanswered)
=============================================================================
