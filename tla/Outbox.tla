------------------------------- MODULE Outbox -------------------------------
(***************************************************************************)
(* Reliable delivery from the node to the relay (connection.py): durable   *)
(* session events get a node_seq and wait in the outbox until the relay    *)
(* acknowledges them; a reconnect warns about overflow, then resends the   *)
(* unacknowledged tail.                                                    *)
(*                                                                         *)
(* One asyncio loop runs the node, so a step is the code between two       *)
(* suspension points.  The flush of a new connection is suspended in every *)
(* ws.send, and other tasks emit events meanwhile: _connect_once publishes *)
(* the socket before it awaits the flush.  The receive loop starts after   *)
(* the flush, so no acknowledgement is handled while it runs.              *)
(*                                                                         *)
(* run() connects again whatever ends a connection, but for a token the    *)
(* relay rejects, stop(), and a cancel (Ctrl-C): then it is over, and what *)
(* the outbox holds stays there.                                           *)
(*                                                                         *)
(* The relay, the browser and the network are external.  The relay is the  *)
(* one this code relies on: it stores an envelope once and acknowledges    *)
(* the highest contiguous node_seq it holds.  A connection delivers frames *)
(* in order; when it breaks, what it still carried may be lost.            *)
(***************************************************************************)
EXTENDS Naturals, Sequences, FiniteSets

CONSTANTS
    Sessions,   \* session ids
    OutboxMax,  \* settings.outbox_max
    MaxEvents,  \* bound: durable events emitted in a behaviour
    MaxConns    \* bound: connections; nothing but the end of run() closes the last

ASSUME OutboxAssumption ==
    /\ OutboxMax \in Nat
    /\ MaxEvents \in Nat
    /\ MaxConns \in Nat

VARIABLES
    nodeSeq,    \* _node_seq
    outbox,     \* _outbox
    truncated,  \* _truncated_sessions
    ws,         \* _ws: "none", "open", or "dead": closed and not noticed yet
    running,    \* run() has not returned
    flush,      \* where _flush_outbox is suspended
    upWire,     \* frames from the node the relay has not read
    downWire,   \* acknowledgements the node has not read
    conns,      \* connections opened so far
    relayLog,   \* the relay's log of the events it stored
    trimmed,    \* history: the envelopes dropped on overflow
    signalled,  \* history: those of them some browser was warned about
    unwarned,   \* history: those of them whose only warning was lost or too early
    overtaking  \* history: node_seqs emitted while a flush was under way

nodeVars    == <<nodeSeq, outbox, truncated, ws, running, flush>>
wireVars    == <<upWire, downWire>>
historyVars == <<trimmed, signalled, unwarned, overtaking>>
vars == <<nodeSeq, outbox, truncated, ws, running, flush, upWire, downWire, conns,
          relayLog, trimmed, signalled, unwarned, overtaking>>

-----------------------------------------------------------------------------
(* Envelopes.  A durable event carries its node_seq; the truncation warning *)
(* has none, and is written here with node_seq 0.                           *)

Envelope == [node_seq : Nat, session_id : Sessions]

Event(n, s) == [node_seq |-> n, session_id |-> s]

Warning(s) == [node_seq |-> 0, session_id |-> s]

IsWarning(env) == env.node_seq = 0

(* Where _flush_outbox is suspended: nowhere, in the send of a warning (with *)
(* the sessions still to warn about, and whether the socket took the frame), *)
(* or in the resend of an event (with the rest of the snapshot).             *)
FlushState ==
    [pc : {"idle"}]
        \cup [pc : {"warn"}, sid : Sessions, left : SUBSET Sessions,
              taken : BOOLEAN]
        \cup [pc : {"resend"}, tail : Seq(Envelope)]

Idle == [pc |-> "idle"]

Elements(s) == {s[i] : i \in 1 .. Len(s)}

TypeOK ==
    /\ nodeSeq \in Nat
    /\ outbox \in Seq(Envelope) /\ Len(outbox) <= OutboxMax
    /\ truncated \in SUBSET Sessions
    /\ ws \in {"none", "open", "dead"}
    /\ running \in BOOLEAN
    /\ flush \in FlushState
    /\ upWire \in Seq(Envelope)
    /\ downWire \in Seq(Nat)
    /\ conns \in Nat
    /\ relayLog \in Seq(Envelope)
    /\ trimmed \in SUBSET Envelope
    /\ signalled \in SUBSET Envelope
    /\ unwarned \in SUBSET Envelope
    /\ overtaking \in SUBSET Nat

Init ==
    /\ nodeSeq = 0
    /\ outbox = <<>>
    /\ truncated = {}
    /\ ws = "none"
    /\ running = TRUE
    /\ flush = Idle
    /\ upWire = <<>>
    /\ downWire = <<>>
    /\ conns = 0
    /\ relayLog = <<>>
    /\ trimmed = {}
    /\ signalled = {}
    /\ unwarned = {}
    /\ overtaking = {}

-----------------------------------------------------------------------------
(* The node. *)

(* _send_envelope: the frame joins the socket's stream, or is dropped when  *)
(* there is no usable socket.                                               *)
Transmit(env) == IF ws = "open" THEN Append(upWire, env) ELSE upWire

(* Fault: the bound is tested before the append, not after it. *)
OverflowLate(queue) ==
    IF Len(queue) > OutboxMax + 1 THEN Len(queue) - OutboxMax - 1 ELSE 0

(* Fault: >= for >, so the outbox never holds outbox_max envelopes. *)
OverflowEarly(queue) ==
    IF Len(queue) >= OutboxMax THEN Len(queue) + 1 - OutboxMax ELSE 0

(* _trim_outbox: how many envelopes overflow drops, ... *)
Overflow(queue) ==
    IF Len(queue) > OutboxMax THEN Len(queue) - OutboxMax ELSE 0

(* Fault: pop() for popleft(), dropping the newest. *)
KeepOldest(queue) == SubSeq(queue, 1, Len(queue) - Overflow(queue))

(* ... and what is left: the oldest go. *)
Kept(queue) == SubSeq(queue, Overflow(queue) + 1, Len(queue))

(* The warning of s whose send has yet to return has left the wire, so it   *)
(* is no sign of what overflow drops now; that send will drop the new flag. *)
WarnedTooEarly(s) ==
    flush.pc = "warn" /\ flush.taken /\ flush.sid = s /\ Warning(s) \notin Elements(upWire)

(* What the loss of all of the wire but left leaves without a warning: its  *)
(* flag is gone, or goes when the send of that warning returns.             *)
LostSigns(left) ==
    {e \in trimmed :
        /\ Warning(e.session_id) \in Elements(upWire) \ Elements(left)
        /\ \/ e.session_id \notin truncated
           \/ flush.pc = "warn" /\ flush.sid = e.session_id}

(* send_payload for a durable event of session s. *)
Emit(s) ==
    /\ nodeSeq < MaxEvents
    /\ LET env     == Event(nodeSeq + 1, s)
           queue   == Append(outbox, env)
           dropped == {queue[i] : i \in 1 .. Overflow(queue)}
       IN  /\ nodeSeq' = nodeSeq + 1
           /\ outbox' = Kept(queue)
           /\ truncated' = truncated \cup {e.session_id : e \in dropped}
           /\ upWire' = Transmit(env)
           /\ trimmed' = trimmed \cup dropped
           /\ unwarned' = unwarned \cup {e \in dropped : WarnedTooEarly(e.session_id)}
           /\ overtaking' = IF flush.pc = "idle" THEN overtaking
                                                 ELSE overtaking \cup {nodeSeq + 1}
    /\ UNCHANGED <<ws, running, flush, downWire, conns, relayLog, signalled>>

(* _flush_outbox up to its next suspension: the next warning, else the next *)
(* event of the snapshot, else the flush is over.  wire is the stream the   *)
(* frame joins, open tells whether the socket still takes frames.           *)
FlushOn(warn, tail, wire, open) ==
    \/ \E s \in warn :
        /\ flush' = [pc |-> "warn", sid |-> s, left |-> warn \ {s},
                     taken |-> open]
        /\ upWire' = IF open THEN Append(wire, Warning(s)) ELSE wire
    \/ /\ warn = {}
       /\ tail # <<>>
       /\ flush' = [pc |-> "resend", tail |-> Tail(tail)]
       /\ upWire' = IF open THEN Append(wire, Head(tail)) ELSE wire
    \/ /\ warn = {}
       /\ tail = <<>>
       /\ flush' = Idle
       /\ upWire' = wire

(* Fault: node_seq starts again with each connection. *)
ConnectResetsSeq ==
    /\ ws = "none"
    /\ running
    /\ conns < MaxConns
    /\ ws' = "open"
    /\ conns' = conns + 1
    /\ nodeSeq' = 0
    /\ downWire' = <<>>
    /\ FlushOn(truncated, outbox, <<>>, TRUE)
    /\ unwarned' = unwarned \cup LostSigns(<<>>)
    /\ UNCHANGED <<outbox, truncated, running, relayLog, trimmed, signalled, overtaking>>

(* Fault: the tail is resent newest first. *)
ConnectResendsBackwards ==
    /\ ws = "none"
    /\ running
    /\ conns < MaxConns
    /\ ws' = "open"
    /\ conns' = conns + 1
    /\ downWire' = <<>>
    /\ FlushOn(truncated, [i \in 1 .. Len(outbox) |-> outbox[Len(outbox) + 1 - i]],
               <<>>, TRUE)
    /\ unwarned' = unwarned \cup LostSigns(<<>>)
    /\ UNCHANGED <<nodeSeq, outbox, truncated, running, relayLog, trimmed, signalled, overtaking>>

(* _connect_once: publish the socket and start the flush.  Frames of the    *)
(* connection before, if the relay has not read them, are gone.  A stop()   *)
(* during the handshake is looked at only when this connection has ended.   *)
Connect ==
    /\ ws = "none"
    /\ running
    /\ conns < MaxConns
    /\ ws' = "open"
    /\ conns' = conns + 1
    /\ downWire' = <<>>
    /\ FlushOn(truncated, outbox, <<>>, TRUE)
    /\ unwarned' = unwarned \cup LostSigns(<<>>)
    /\ UNCHANGED <<nodeSeq, outbox, truncated, running, relayLog, trimmed, signalled, overtaking>>

(* Fault: the flag is discarded whether or not the warning went out. *)
WarningSentUnchecked ==
    /\ flush.pc = "warn"
    /\ truncated' = truncated \ {flush.sid}
    /\ FlushOn(flush.left, outbox, upWire, ws = "open")
    /\ UNCHANGED <<nodeSeq, outbox, ws, running, downWire, conns, relayLog>>
    /\ UNCHANGED historyVars

(* The send of a warning returns.  It reports success unless the socket     *)
(* broke before or during the send; a break after the frame was taken may   *)
(* be noticed by this send or only by a later one.                          *)
WarningSent ==
    /\ flush.pc = "warn"
    /\ \E delivered \in BOOLEAN :
        /\ delivered => flush.taken
        /\ ws = "open" => delivered = flush.taken
        /\ truncated' = IF delivered THEN truncated \ {flush.sid} ELSE truncated
    /\ FlushOn(flush.left, outbox, upWire, ws = "open")
    /\ UNCHANGED <<nodeSeq, outbox, ws, running, downWire, conns, relayLog>>
    /\ UNCHANGED historyVars

(* Fault: the flush returns after its first resend. *)
EventResentOnce ==
    /\ flush.pc = "resend"
    /\ FlushOn({}, <<>>, upWire, ws = "open")
    /\ UNCHANGED <<nodeSeq, outbox, truncated, ws, running, downWire, conns, relayLog>>
    /\ UNCHANGED historyVars

(* The resend of an event returns; its result is ignored. *)
EventResent ==
    /\ flush.pc = "resend"
    /\ FlushOn({}, flush.tail, upWire, ws = "open")
    /\ UNCHANGED <<nodeSeq, outbox, truncated, ws, running, downWire, conns, relayLog>>
    /\ UNCHANGED historyVars

(* Fault: the acknowledgement is taken for the next seq expected. *)
AckedPrefixBeyond(queue, upTo, k) ==
    /\ \A i \in 1 .. k : queue[i].node_seq <= upTo + 1
    /\ k < Len(queue) => queue[k + 1].node_seq > upTo + 1

(* Fault: < for <=, so the acknowledged event itself stays. *)
AckedPrefixShort(queue, upTo, k) ==
    /\ \A i \in 1 .. k : queue[i].node_seq < upTo
    /\ k < Len(queue) => queue[k + 1].node_seq >= upTo

(* _ack_outbox: k envelopes go, the longest prefix that is all covered. *)
AckedPrefix(queue, upTo, k) ==
    /\ \A i \in 1 .. k : queue[i].node_seq <= upTo
    /\ k < Len(queue) => queue[k + 1].node_seq > upTo

(* _on_raw for a node.ack.  A broken socket still yields what it had read. *)
ReceiveAck ==
    /\ ws # "none"
    /\ flush.pc = "idle"
    /\ downWire # <<>>
    /\ downWire' = Tail(downWire)
    /\ \E k \in 0 .. Len(outbox) :
        /\ AckedPrefix(outbox, Head(downWire), k)
        /\ outbox' = SubSeq(outbox, k + 1, Len(outbox))
    /\ UNCHANGED <<nodeSeq, truncated, ws, running, flush, upWire, conns, relayLog>>
    /\ UNCHANGED historyVars

(* The receive loop notices that the socket is closed.  run() connects again, *)
(* unless the relay closed with 4401 (AuthFailed) or stop() was called since. *)
Disconnect ==
    /\ ws = "dead"
    /\ flush.pc = "idle"
    /\ downWire = <<>>
    /\ ws' = "none"
    /\ \/ running' = FALSE
       \/ running' = running /\ conns < MaxConns
    /\ UNCHANGED <<nodeSeq, outbox, truncated, flush, conns, relayLog>>
    /\ UNCHANGED wireVars
    /\ UNCHANGED historyVars

(* Between two connections run() is over when the handshake is answered with *)
(* 401 or 403 (AuthFailed), or when it finds that stop() was called.         *)
RunEnds ==
    /\ ws = "none"
    /\ running
    /\ running' = FALSE
    /\ UNCHANGED <<nodeSeq, outbox, truncated, ws, flush, conns, relayLog>>
    /\ UNCHANGED wireVars
    /\ UNCHANGED historyVars

(* run() is cancelled, in a flush, a receive or a sleep; the socket is closed. *)
Cancelled ==
    /\ running
    /\ running' = FALSE
    /\ ws' = "none"
    /\ flush' = Idle
    /\ \E i \in 0 .. Len(upWire) : upWire' = SubSeq(upWire, 1, i)
    /\ downWire' = <<>>
    /\ unwarned' = unwarned \cup LostSigns(upWire')
    /\ UNCHANGED <<nodeSeq, outbox, truncated, conns, relayLog, trimmed, signalled, overtaking>>

-----------------------------------------------------------------------------
(* The network and the relay (external). *)

(* The connection breaks, or the relay closes it; a suffix of what it carried *)
(* each way is lost.                                                          *)
SocketBreaks ==
    /\ ws = "open"
    /\ ws' = "dead"
    /\ \E i \in 0 .. Len(upWire)   : upWire'   = SubSeq(upWire, 1, i)
    /\ \E i \in 0 .. Len(downWire) : downWire' = SubSeq(downWire, 1, i)
    /\ unwarned' = unwarned \cup LostSigns(upWire')
    /\ UNCHANGED <<nodeSeq, outbox, truncated, running, flush, conns, relayLog>>
    /\ UNCHANGED <<trimmed, signalled, overtaking>>

(* Every event up to k is in the log. *)
HoldsUpTo(log, k) ==
    \A n \in 1 .. k : \E i \in 1 .. Len(log) : log[i].node_seq = n

(* The relay reads an event: store it unless its envelope is there already, *)
(* and acknowledge the highest contiguous node_seq.                         *)
RelayStores ==
    /\ upWire # <<>>
    /\ ~ IsWarning(Head(upWire))
    /\ upWire' = Tail(upWire)
    /\ relayLog' = IF Head(upWire) \in Elements(relayLog)
                   THEN relayLog ELSE Append(relayLog, Head(upWire))
    /\ \E k \in 0 .. Len(relayLog') :
        /\ HoldsUpTo(relayLog', k)
        /\ ~ HoldsUpTo(relayLog', k + 1)
        /\ downWire' = IF ws = "open" THEN Append(downWire, k) ELSE downWire
    /\ UNCHANGED <<nodeVars, conns, historyVars>>

(* The relay reads a warning and forwards it; the browser reloads that      *)
(* session's history, which makes up for everything dropped so far.         *)
RelayWarns ==
    /\ upWire # <<>>
    /\ IsWarning(Head(upWire))
    /\ upWire' = Tail(upWire)
    /\ signalled' = signalled \cup
                    {e \in trimmed : e.session_id = Head(upWire).session_id}
    /\ UNCHANGED <<nodeVars, downWire, conns, relayLog, trimmed, unwarned, overtaking>>

-----------------------------------------------------------------------------
Next ==
    \/ \E s \in Sessions : Emit(s)
    \/ Connect
    \/ WarningSent
    \/ EventResent
    \/ ReceiveAck
    \/ Disconnect
    \/ RunEnds
    \/ Cancelled
    \/ SocketBreaks
    \/ RelayStores
    \/ RelayWarns

Spec == Init /\ [][Next]_vars

(* The loop runs what is ready, run() retries the connection until it ends, *)
(* and the relay reads what arrives.  Nothing obliges a session to emit, a  *)
(* connection to break or anyone to end run().                              *)
Fairness ==
    /\ WF_vars(Connect)
    /\ WF_vars(WarningSent)
    /\ WF_vars(EventResent)
    /\ WF_vars(ReceiveAck)
    /\ WF_vars(Disconnect)
    /\ WF_vars(RelayStores)
    /\ WF_vars(RelayWarns)

FairSpec == Spec /\ Fairness

-----------------------------------------------------------------------------
(* Properties. *)

Stored(n) == \E i \in 1 .. Len(relayLog) : relayLog[i].node_seq = n

Buffered(n) == \E i \in 1 .. Len(outbox) : outbox[i].node_seq = n

Dropped(n) == \E e \in trimmed : e.node_seq = n

(* A reconnect loses no event: every event is still buffered, or the relay  *)
(* has stored it, or the outbox overflowed and dropped it.  An ack that     *)
(* outran what the relay stored, or a trim that drops more than it records, *)
(* breaks it only after a disconnection.                                    *)
NothingForgotten ==
    \A n \in 1 .. nodeSeq : Buffered(n) \/ Stored(n) \/ Dropped(n)

(* The outbox is always the newest events, without a gap, so one number     *)
(* acknowledges exactly a prefix of it.                                     *)
OutboxIsNewest ==
    \A i \in 1 .. Len(outbox) :
        outbox[i].node_seq = nodeSeq - Len(outbox) + i

(* Resends after a lost acknowledgement never make the relay store an event *)
(* twice, and it stores only events that were emitted.                      *)
StoredOnce ==
    /\ \A i \in 1 .. Len(relayLog) : relayLog[i].node_seq \in 1 .. nodeSeq
    /\ \A i, j \in 1 .. Len(relayLog) :
        relayLog[i].node_seq = relayLog[j].node_seq => i = j

(* The relay's log is out of order only by events emitted while a flush was *)
(* resending: across every other loss and reconnection order is preserved.  *)
OnlyFlushReorders ==
    \A i, j \in 1 .. Len(relayLog) :
        (i < j /\ relayLog[i].node_seq > relayLog[j].node_seq)
            => relayLog[i].node_seq \in overtaking

(* What overflow drops is reported: its session stays flagged for the next   *)
(* connection, or the warning is on its way, or a browser got it; but for    *)
(* events whose warning was lost with the connection after ws.send returned, *)
(* and for events dropped while the warning of their session was suspended   *)
(* there, which drops their flag with the old one (_flush_outbox).           *)
OverflowReported ==
    \A e \in trimmed :
        \/ e.session_id \in truncated
        \/ Warning(e.session_id) \in Elements(upWire)
        \/ e \in signalled \cup unwarned

(* Design document, 6.2: "resend the unacked tail in order before new       *)
(* traffic"; goal 3: "Ordering is preserved per session".                   *)
OrderPerSession ==
    \A i, j \in 1 .. Len(relayLog) :
        (i < j /\ relayLog[i].session_id = relayLog[j].session_id)
            => relayLog[i].node_seq < relayLog[j].node_seq

OnWire(env) ==
    \/ env \in Elements(upWire)
    \/ flush.pc = "resend" /\ env \in Elements(flush.tail)

(* Design document, 6.2: after an overflow "Never a silent loss": a dropped *)
(* event still reaches the relay, or its session is flagged, or the warning *)
(* is on its way or was received.                                           *)
NoSilentLoss ==
    \A e \in trimmed :
        \/ Stored(e.node_seq)
        \/ OnWire(e)
        \/ e.session_id \in truncated
        \/ OnWire(Warning(e.session_id))
        \/ e \in signalled

(* Once connections stop breaking every emitted event is stored, unless it  *)
(* was dropped by overflow or run() has ended: on a rejected token, a stop  *)
(* or a cancel, after which nothing is sent any more.                       *)
EventuallyStored ==
    \A n \in 1 .. MaxEvents :
        (n <= nodeSeq) ~> (Stored(n) \/ Dropped(n) \/ ~ running)

(* Without overflow the outbox does not stay full: the acknowledgements     *)
(* empty it, lost ones being made up for by the next resend; until run()    *)
(* ends.                                                                    *)
OutboxDrains ==
    (outbox # <<>>) ~> (outbox = <<>> \/ trimmed # {} \/ ~ running)

(* The node with the relay implements the promise of EventDelivery. *)
Delivery == INSTANCE EventDelivery
    WITH Capacity  <- OutboxMax,
         emitted   <- nodeSeq,
         stored    <- relayLog,
         abandoned <- trimmed

DeliverySpec == Delivery!Spec
=============================================================================
