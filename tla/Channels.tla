------------------------------ MODULE Channels ------------------------------
(***************************************************************************)
(* The channels of a daemon (channels_cli.cmd_channels_start, _go): a      *)
(* WeChat and a Telegram adapter, each run by a task, and the supervisor   *)
(* that shuts everything down when the first of them ends or the user      *)
(* interrupts: the stop event, the heartbeat with its run.json, the        *)
(* adapters, the dispatchers, and last the runners.  The heartbeat and the *)
(* dispatchers' own shutdown (module Dispatcher) take time here, no more.  *)
(***************************************************************************)
EXTENDS Naturals, Sequences

CONSTANTS Forms, MaxSeen, MaxMsgs, MaxSecond, MaxGiven, MaxUpdates

ASSUME ChannelsAssumption ==
    /\ Forms \subseteq {"row", "own", "none"}
    /\ MaxSeen \in Nat \ {0} /\ MaxMsgs \in Nat /\ MaxSecond \in Nat \ {0} /\ MaxGiven \in Nat
    /\ MaxUpdates \in Nat

VARIABLES
    stop,
    second, stored, wsPc, frames, pollPc, rows, newest, cursor, seen, wxClosed, given, late, unlisted,
    updates, confirmed, offset, tgPc, handed,
    phase         \* where the supervisor is

wxVars == <<second, stored, wsPc, frames, pollPc, rows, newest, cursor, seen, wxClosed, given, late, unlisted>>
tgVars == <<updates, confirmed, offset, tgPc, handed>>
daemonVars == <<stop, wxVars, tgVars, phase>>

Wx == INSTANCE WeChat
Tg == INSTANCE Telegram

Phases == {"running", "stopping", "closed", "down"}

DaemonTypeOK ==
    /\ Wx!WxTypeOK /\ Tg!TgTypeOK
    /\ phase \in Phases

DaemonInit ==
    /\ stop = FALSE
    /\ Wx!WxInit /\ Tg!TgInit
    /\ phase = "running"

(* A runner has ended; WeChat's ends with its poll loop. *)
WxDone == wsPc = "exited" /\ pollPc = "exited"
TgDone == tgPc = "exited"

WxStep == Wx!WxNext /\ UNCHANGED <<tgVars, phase>>
TgStep == Tg!TgNext /\ UNCHANGED <<wxVars, phase>>

(* asyncio.wait returns with the first runner that ends; Ctrl-C cancels it. *)
StopsAll ==
    /\ phase = "running"
    /\ stop' = TRUE
    /\ phase' = "stopping"
    /\ UNCHANGED <<wxVars, tgVars>>

FirstEnds == (WxDone \/ TgDone) /\ StopsAll
Interrupted == StopsAll

(* The adapters are closed one after the other; Telegram's client is closed *)
(* under its poll, which fails.                                             *)
AdaptersClosed ==
    /\ phase = "stopping"
    /\ phase' = "closed"
    /\ Wx!WxClose
    /\ UNCHANGED tgVars

(* Fault: the runners are awaited, and not cancelled. *)
CancelsNever == FALSE

Cancels == phase = "closed"

RunnerCancelled ==
    /\ Cancels
    /\ \/ Wx!WxCancelled /\ UNCHANGED <<tgVars, phase>>
       \/ Tg!TgCancelled /\ UNCHANGED <<wxVars, phase>>

Down ==
    /\ phase = "closed"
    /\ WxDone /\ TgDone
    /\ phase' = "down"
    /\ UNCHANGED <<stop, wxVars, tgVars>>

Supervisor == FirstEnds \/ AdaptersClosed \/ Down

DaemonNext == WxStep \/ TgStep \/ Interrupted \/ Supervisor \/ RunnerCancelled

DaemonSpec == DaemonInit /\ [][DaemonNext]_daemonVars

(* The supervisor and what it cancels go on, and so do sleeps; no request   *)
(* and no connection has to end by itself.                                  *)
DaemonFairness ==
    /\ WF_daemonVars(Supervisor) /\ WF_daemonVars(RunnerCancelled)
    /\ WF_daemonVars(Wx!PollCancelled /\ UNCHANGED <<tgVars, phase>>)

FairDaemonSpec == DaemonSpec /\ DaemonFairness

-----------------------------------------------------------------------------
(* WeChat: a message is handed on again under the same identity only after  *)
(* as many others as the adapter remembers, whichever feeds bring it        *)
(* (WeChat, _dispatch).                                                     *)
HandledOnce == Wx!HandledOnce

(* WeChat: the poll cursor passes over no message that was not handed on,   *)
(* but for the two cases the module WeChat names (_poll_loop).              *)
NothingPassedOver == Wx!NothingPassedOver

(* Telegram: an update is acknowledged only once its text was handed on,    *)
(* and each is handed on at most once and in order (run, offset).           *)
ConfirmedIsHandled == Tg!ConfirmedIsHandled

(* When one channel ends, or the user interrupts, the daemon ends: also if  *)
(* a connection is being made when the adapters are closed, and whatever    *)
(* requests are under way (_go).                                            *)
ShutdownEnds == (WxDone \/ TgDone \/ stop) ~> phase = "down"
=============================================================================
