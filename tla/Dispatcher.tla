----------------------------- MODULE Dispatcher -----------------------------
(***************************************************************************)
(* The dispatcher of a channel instance (channels/dispatcher.py) with the  *)
(* approval files it shares with the portal (channels/approvals.py): every *)
(* message of a conversation runs one turn in a session of its own and is  *)
(* answered with one reply; a permission request of the agent is written   *)
(* to a file, decided in the portal and polled for.                        *)
(*                                                                         *)
(* The node is one asyncio loop: the turn tasks, the approval tasks and    *)
(* aclose() interleave where they suspend.  The portal is another process: *)
(* it may act between any two steps, and between its own test and write.   *)
(* Timeouts are counted nowhere: a deadline may pass at any moment.        *)
(*                                                                         *)
(* The session is the one of Session, seen from outside: an agent that     *)
(* raises requests until it ends its turn or is closed; the wording of the *)
(* reply is left out.  So is the except branch of _run_turn, because       *)
(* Session.start() does not raise.                                         *)
(***************************************************************************)
EXTENDS Naturals, Sequences, FiniteSets

CONSTANTS
    Keys,        \* the conversations (SessionKey)
    Asks,        \* permission request ids
    MaxMessages  \* bound: messages handled

ASSUME DispatcherAssumption == MaxMessages \in Nat

VARIABLES
    turns,     \* the tasks of _run_turn, in order
    inflight,  \* _inflight: the turn of a conversation, 0 for none
    asks,      \* the requests, as the permission broker has them
    relays,    \* the tasks of _await_approval
    requests,  \* the request files
    decisions, \* the decision files
    portal,    \* where decide(id, decision) of the portal is
    closed,    \* aclose() was called
    refused,   \* history: the gate has swallowed a BusyError
    replies    \* history: how many replies a turn's message got

fileVars == <<requests, decisions>>
vars == <<turns, inflight, asks, relays, fileVars, portal, closed, refused, replies>>

-----------------------------------------------------------------------------
Decisions == {"allow", "deny"}

(* A turn: created; in turn.wait(); in the reply sink; awaiting its         *)
(* approval tasks; in session.close(); over.                                *)
Turn == [key : Keys,
         pc : {"new", "waiting", "sending", "unwinding", "closing", "done"},
         cancel : BOOLEAN,  \* cancel() was requested
         ended : BOOLEAN,   \* the agent has ended its turn
         live : BOOLEAN]    \* the session's agent runs

Ask == [turn : 0 .. MaxMessages, state : {"unused", "open", "dropped"} \cup Decisions]

Relay == [pc : {"none", "new", "polling", "ended"}, cancel : BOOLEAN]

Turns == 1 .. Len(turns)

TypeOK ==
    /\ turns \in Seq(Turn) /\ Len(turns) <= MaxMessages
    /\ inflight \in [Keys -> 0 .. MaxMessages]
    /\ asks \in [Asks -> Ask]
    /\ relays \in [Asks -> Relay]
    /\ requests \in SUBSET Asks
    /\ decisions \in [Asks -> Decisions \cup {"none"}]
    /\ portal \in [Asks \X Decisions -> {"idle", "checked", "written"}]
    /\ closed \in BOOLEAN
    /\ refused \in BOOLEAN
    /\ replies \in [1 .. MaxMessages -> Nat]

Init ==
    /\ turns = <<>>
    /\ inflight = [k \in Keys |-> 0]
    /\ asks = [a \in Asks |-> [turn |-> 0, state |-> "unused"]]
    /\ relays = [a \in Asks |-> [pc |-> "none", cancel |-> FALSE]]
    /\ requests = {}
    /\ decisions = [a \in Asks |-> "none"]
    /\ portal = [p \in Asks \X Decisions |-> "idle"]
    /\ closed = FALSE
    /\ refused = FALSE
    /\ replies = [i \in 1 .. MaxMessages |-> 0]

AsksOf(i) == {a \in Asks : asks[a].turn = i}

RelaysOf(i) == {a \in AsksOf(i) : relays[a].pc \in {"new", "polling"}}

-----------------------------------------------------------------------------
(* Messages. *)

(* Fault: a conversation is busy only until its turn has replied. *)
BusyUntilReply(k) ==
    inflight[k] # 0 /\ turns[inflight[k]].pc \in {"new", "waiting", "sending"}

Busy(k) == inflight[k] # 0 /\ turns[inflight[k]].pc # "done"

(* handle_message for a conversation without a turn: a task is made.  After *)
(* aclose() the adapters have stopped.                                      *)
Accept(k) ==
    /\ ~ closed
    /\ ~ Busy(k)
    /\ Len(turns) < MaxMessages
    /\ turns' = Append(turns, [key |-> k, pc |-> "new", cancel |-> FALSE,
                               ended |-> FALSE, live |-> FALSE])
    /\ inflight' = [inflight EXCEPT ![k] = Len(turns) + 1]
    /\ UNCHANGED <<asks, relays, fileVars, portal, closed, refused, replies>>

(* handle_message for one with a turn raises BusyError, which the policy    *)
(* gate in front of it logs.                                                *)
Refuse(k) ==
    /\ ~ closed
    /\ Busy(k)
    /\ refused' = TRUE
    /\ UNCHANGED <<turns, inflight, asks, relays, fileVars, portal, closed, replies>>

-----------------------------------------------------------------------------
(* A turn. *)

At(i, pc) == turns[i].pc = pc /\ ~ turns[i].cancel

(* The session is made and started; a task cancelled before never runs. *)
TurnBegins(i) ==
    /\ turns[i].pc = "new"
    /\ turns' = IF turns[i].cancel
                THEN [turns EXCEPT ![i].pc = "done"]
                ELSE [turns EXCEPT ![i].pc = "waiting", ![i].live = TRUE]
    /\ UNCHANGED <<inflight, asks, relays, fileVars, portal, closed, refused, replies>>

(* turn.wait() returns at the end of the agent's turn or at the timeout; a  *)
(* reply is made of what was said (an error before text, text before a      *)
(* placeholder) and handed to the adapter.                                  *)
WaitEnds(i) ==
    /\ At(i, "waiting")
    /\ turns' = [turns EXCEPT ![i].pc = "sending"]
    /\ replies' = [replies EXCEPT ![i] = @ + 1]
    /\ UNCHANGED <<inflight, asks, relays, fileVars, portal, closed, refused>>

(* The finally of _run_turn: cancel the approval tasks. *)
Unwind(i) ==
    /\ turns' = [turns EXCEPT ![i].pc = "unwinding", ![i].cancel = FALSE]
    /\ relays' = [a \in Asks |-> IF a \in RelaysOf(i)
                                 THEN [relays[a] EXCEPT !.cancel = TRUE] ELSE relays[a]]

(* Fault: a failed send is answered with an error, whatever went out. *)
SendEndsTwice(i) ==
    /\ At(i, "sending")
    /\ Unwind(i)
    /\ replies' = [replies EXCEPT ![i] = @ + 1]
    /\ UNCHANGED <<inflight, asks, fileVars, portal, closed, refused>>

(* The send has succeeded or failed, or aclose() cancels the wait or the    *)
(* send.                                                                    *)
SendEnds(i) ==
    /\ \/ At(i, "sending")
       \/ turns[i].pc \in {"waiting", "sending"} /\ turns[i].cancel
    /\ Unwind(i)
    /\ UNCHANGED <<inflight, asks, fileVars, portal, closed, refused, replies>>

(* A cancel while an approval task is awaited cancels that task, ...        *)
UnwindCancelled(i) ==
    /\ turns[i].pc = "unwinding"
    /\ turns[i].cancel
    /\ \E a \in RelaysOf(i) : relays' = [relays EXCEPT ![a].cancel = TRUE]
    /\ turns' = [turns EXCEPT ![i].cancel = FALSE]
    /\ UNCHANGED <<inflight, asks, fileVars, portal, closed, refused, replies>>

(* Session.close() starts by denying the open requests. *)
DenyOpen(i) ==
    asks' = [a \in Asks |-> IF a \in AsksOf(i) /\ asks[a].state = "open"
                            THEN [asks[a] EXCEPT !.state = "deny"] ELSE asks[a]]

(* ... and the loop goes on until every approval task has ended. *)
UnwindEnds(i) ==
    /\ turns[i].pc = "unwinding"
    /\ RelaysOf(i) = {}
    /\ turns' = [turns EXCEPT ![i].pc = "closing"]
    /\ DenyOpen(i)
    /\ UNCHANGED <<inflight, relays, fileVars, portal, closed, refused, replies>>

(* Only the conversation's current turn gives it up. *)
Released(i) ==
    IF inflight[turns[i].key] = i THEN [inflight EXCEPT ![turns[i].key] = 0] ELSE inflight

(* Fault: the session is not closed. *)
ClosesNever(i) == {TRUE}

(* Session.close() takes the agent down; a cancel may stop it half way. *)
LeftLive(i) == IF turns[i].cancel THEN {TRUE, FALSE} ELSE {FALSE}

CloseEnds(i) ==
    /\ turns[i].pc = "closing"
    /\ \E left \in LeftLive(i) :
        /\ turns' = [turns EXCEPT ![i].pc = "done", ![i].live = left]
        /\ asks' = [a \in Asks |-> IF a \in AsksOf(i) /\ asks[a].state = "open" /\ ~ left
                                   THEN [asks[a] EXCEPT !.state = "dropped"] ELSE asks[a]]
    /\ inflight' = Released(i)
    /\ UNCHANGED <<relays, fileVars, portal, closed, refused, replies>>

-----------------------------------------------------------------------------
(* The session's agent, seen through emit(). *)

(* A result or an error ends the agent's turn. *)
AgentEnds(i) ==
    /\ turns[i].live
    /\ ~ turns[i].ended
    /\ \A a \in AsksOf(i) : asks[a].state # "open"
    /\ turns' = [turns EXCEPT ![i].ended = TRUE]
    /\ UNCHANGED <<inflight, asks, relays, fileVars, portal, closed, refused, replies>>

(* A permission request: the broker holds it, an approval task is made.     *)
(* An agent that has not ended its turn runs on until its session is closed. *)
AskRaised(i, a) ==
    /\ turns[i].live
    /\ ~ turns[i].ended
    /\ turns[i].pc # "done"
    /\ asks[a].state = "unused"
    /\ asks' = [asks EXCEPT ![a] = [turn |-> i, state |-> "open"]]
    /\ relays' = [relays EXCEPT ![a].pc = "new"]
    /\ UNCHANGED <<turns, inflight, fileVars, portal, closed, refused, replies>>

(* The session's own permission_timeout denies. *)
AskTimesOut(a) ==
    /\ asks[a].state = "open"
    /\ asks' = [asks EXCEPT ![a].state = "deny"]
    /\ UNCHANGED <<turns, inflight, relays, fileVars, portal, closed, refused, replies>>

-----------------------------------------------------------------------------
(* An approval task. *)

(* Fault: the request file is left behind. *)
SettleUncleaned(a, decision) ==
    /\ asks' = IF asks[a].state = "open"
               THEN [asks EXCEPT ![a].state = decision] ELSE asks
    /\ relays' = [relays EXCEPT ![a].pc = "ended"]
    /\ decisions' = [decisions EXCEPT ![a] = "none"]
    /\ UNCHANGED requests

(* resolve_permission() and cleanup(). *)
Settle(a, decision) ==
    /\ asks' = IF asks[a].state = "open"
               THEN [asks EXCEPT ![a].state = decision] ELSE asks
    /\ relays' = [relays EXCEPT ![a].pc = "ended"]
    /\ requests' = requests \ {a}
    /\ decisions' = [decisions EXCEPT ![a] = "none"]

(* The task publishes the request; one cancelled before never runs.  The    *)
(* write may fail, and nothing is shown then.                               *)
RelayBegins(a) ==
    /\ relays[a].pc = "new"
    /\ IF relays[a].cancel
       THEN /\ relays' = [relays EXCEPT ![a].pc = "ended"]
            /\ UNCHANGED requests
       ELSE /\ relays' = [relays EXCEPT ![a].pc = "polling"]
            /\ requests' \in {requests, requests \cup {a}}
    /\ UNCHANGED <<turns, inflight, asks, decisions, portal, closed, refused, replies>>

(* A poll finds a decision. *)
RelayPolls(a) ==
    /\ relays[a].pc = "polling"
    /\ ~ relays[a].cancel
    /\ decisions[a] # "none"
    /\ Settle(a, decisions[a])
    /\ UNCHANGED <<turns, inflight, portal, closed, refused, replies>>

(* Fault: the file's decision is waived when the deadline passes. *)
RelayGivesUpOpen(a) ==
    /\ relays[a].pc = "polling"
    /\ Settle(a, "allow")
    /\ UNCHANGED <<turns, inflight, portal, closed, refused, replies>>

(* Fault: no "or deny": what the last poll returned is passed on. *)
RelayGivesUpUndecided(a) ==
    /\ relays[a].pc = "polling"
    /\ Settle(a, "none")
    /\ UNCHANGED <<turns, inflight, portal, closed, refused, replies>>

(* Fault: the poll has no deadline. *)
RelayGivesUpIfCancelled(a) ==
    /\ relays[a].pc = "polling"
    /\ relays[a].cancel
    /\ Settle(a, "deny")
    /\ UNCHANGED <<turns, inflight, portal, closed, refused, replies>>

(* The deadline passes, or the turn cancels the task in its sleep: deny,    *)
(* whatever the file says by now.                                           *)
RelayGivesUp(a) ==
    /\ relays[a].pc = "polling"
    /\ Settle(a, "deny")
    /\ UNCHANGED <<turns, inflight, portal, closed, refused, replies>>

-----------------------------------------------------------------------------
(* The portal: decide() tests for the request file ... *)
PortalChecks(a, d) ==
    /\ portal[<<a, d>>] = "idle"
    /\ a \in requests
    /\ portal' = [portal EXCEPT ![<<a, d>>] = "checked"]
    /\ UNCHANGED <<turns, inflight, asks, relays, fileVars, closed, refused, replies>>

(* ... and writes the decision, over an earlier one. *)
PortalWrites(a, d) ==
    /\ portal[<<a, d>>] = "checked"
    /\ portal' = [portal EXCEPT ![<<a, d>>] = "written"]
    /\ decisions' = [decisions EXCEPT ![a] = d]
    /\ UNCHANGED <<turns, inflight, asks, relays, requests, closed, refused, replies>>

(* aclose(): every turn is cancelled and awaited. *)
AClose ==
    /\ ~ closed
    /\ closed' = TRUE
    /\ inflight' = [k \in Keys |-> 0]
    /\ turns' = [i \in Turns |->
                    IF turns[i].pc # "done" /\ inflight[turns[i].key] = i
                    THEN [turns[i] EXCEPT !.cancel = TRUE] ELSE turns[i]]
    /\ UNCHANGED <<asks, relays, fileVars, portal, refused, replies>>

-----------------------------------------------------------------------------
TurnStep(i) ==
    \/ TurnBegins(i)
    \/ WaitEnds(i)
    \/ SendEnds(i)
    \/ UnwindCancelled(i)
    \/ UnwindEnds(i)
    \/ CloseEnds(i)

RelayStep(a) ==
    \/ RelayBegins(a)
    \/ RelayPolls(a)
    \/ RelayGivesUp(a)

Next ==
    \/ \E k \in Keys : Accept(k) \/ Refuse(k)
    \/ \E i \in Turns :
        \/ TurnStep(i)
        \/ AgentEnds(i)
        \/ \E a \in Asks : AskRaised(i, a)
    \/ \E a \in Asks :
        \/ RelayStep(a)
        \/ AskTimesOut(a)
        \/ \E d \in Decisions : PortalChecks(a, d) \/ PortalWrites(a, d)
    \/ AClose

Spec == Init /\ [][Next]_vars

(* The loop runs every task that can go on; waiting for the agent, polling  *)
(* and sending all have their timeouts.  Neither the agent nor a user of    *)
(* the portal has to do anything.                                           *)
Fairness ==
    /\ \A i \in 1 .. MaxMessages : WF_vars(i \in Turns /\ TurnStep(i))
    /\ \A a \in Asks : WF_vars(RelayStep(a))

FairSpec == Spec /\ Fairness

-----------------------------------------------------------------------------
(* Properties. *)

(* A conversation has one agent at a time, also while a turn that has       *)
(* replied is still closing its session.                                    *)
OneAgentPerConversation ==
    ~ closed =>
        \A i, j \in Turns :
            (turns[i].live /\ turns[j].live /\ turns[i].key = turns[j].key) => i = j

(* docs/channels.md: what the agent wants to run "waits in the portal": it  *)
(* is allowed only if the portal wrote an allow for that very request,      *)
(* whatever order timeouts, turn end, shutdown and a second decision come.  *)
AllowOnlyByPortal ==
    \A a \in Asks : asks[a].state = "allow" => portal[<<a, "allow">>] = "written"

(* A turn that is over leaves no agent and no open request behind, unless   *)
(* the shutdown cut its close short.                                        *)
TurnLeavesNothing ==
    \A i \in Turns :
        (turns[i].pc = "done" /\ ~ turns[i].cancel) =>
            /\ ~ turns[i].live
            /\ \A a \in AsksOf(i) : asks[a].state # "open"

(* A conversation is never locked for good: the turn it is busy with ends,  *)
(* even when its agent raises requests (finitely many) that nobody answers  *)
(* after the unwinding has begun.                                           *)
NeverBusyForGood ==
    \A k \in Keys : Busy(k) ~> ~ Busy(k)

(* Every accepted message is answered, once, unless the channel is closed.  *)
AnsweredOnce ==
    /\ [](\A i \in Turns : replies[i] <= 1)
    /\ \A i \in 1 .. MaxMessages : (i \in Turns) ~> (replies[i] = 1 \/ closed)

(* A request shown in the portal goes away again. *)
RequestsWithdrawn ==
    \A a \in Asks : (a \in requests) ~> (a \notin requests)

(* dispatcher.py: a message for a busy conversation "is deferred to the     *)
(* caller (the adapter decides whether to buffer, drop, or warn)".          *)
BusyIsDeferred == ~ refused
=============================================================================
