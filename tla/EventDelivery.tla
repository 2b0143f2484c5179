--------------------------- MODULE EventDelivery ---------------------------
(***************************************************************************)
(* What the node promises its owner's browsers about durable session       *)
(* events, without sockets, acknowledgements or retries.                   *)
(*                                                                         *)
(* Events are numbered in the order the sessions emit them.  The relay's   *)
(* log receives each event at most once.  The node may give an event up,   *)
(* but only one that has been followed by at least Capacity later events:  *)
(* the newest Capacity events are always kept until they are stored.       *)
(* No order is promised: see Outbox!OrderPerSession.                       *)
(***************************************************************************)
EXTENDS Naturals, Sequences

CONSTANTS
    Sessions,   \* the sessions whose events are delivered
    Capacity    \* how many of the newest events are never given up

VARIABLES
    emitted,    \* the number of events emitted so far
    stored,     \* the relay's log: the events, in the order it stored them
    abandoned   \* the events the node has given up

edVars == <<emitted, stored, abandoned>>

Event == [node_seq : Nat \ {0}, session_id : Sessions]

Init ==
    /\ emitted = 0
    /\ stored = <<>>
    /\ abandoned = {}

(* A session emits the next event; the node may have to give up old ones. *)
Emit ==
    /\ emitted' = emitted + 1
    /\ UNCHANGED stored
    /\ abandoned \subseteq abandoned'
    /\ \A e \in abandoned' \ abandoned :
        e \in Event /\ e.node_seq + Capacity <= emitted'

(* The relay stores an event it does not hold yet. *)
Store ==
    /\ \E n \in 1 .. emitted, s \in Sessions :
        /\ \A i \in 1 .. Len(stored) : stored[i].node_seq # n
        /\ stored' = Append(stored, [node_seq |-> n, session_id |-> s])
    /\ UNCHANGED <<emitted, abandoned>>

Next == Emit \/ Store

Spec == Init /\ [][Next]_edVars
=============================================================================
