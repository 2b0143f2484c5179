------------------------------- MODULE WeChat -------------------------------
(***************************************************************************)
(* The WeChat adapter (channels/wechat): the gateway pushes each message   *)
(* over a WebSocket while one is open, and a loop polls the gateway for    *)
(* what was stored after a cursor.  A bounded set of seen identities keeps *)
(* what both feeds bring to once, where it can: a row has the identity     *)
(* "conversation_id:id", a frame "target:msg_id", which is the row's only  *)
(* if the gateway fills both alike, or none, if it has no msg_id.          *)
(* The handler does not suspend: the messages of a frame, and those of one *)
(* poll, are handled in one step.                                          *)
(*                                                                         *)
(* The gateway stamps a message with the second it stores it in, and       *)
(* answers a poll with what is stamped later than the cursor               *)
(* (poll_messages).  Its clock is the node's.                              *)
(***************************************************************************)
EXTENDS Naturals, Sequences, FiniteSets, SequencesExt

CONSTANTS
    Forms,        \* whose identity a frame's message may have: its row's, its own, none
    MaxSeen,      \* the identities remembered (_MESSAGE_SEEN_MAX)
    MaxMsgs,      \* bound: the messages
    MaxSecond,    \* bound: the clock
    MaxGiven      \* bound: the messages handed on, by either feed

Msgs == 1 .. MaxMsgs

(* Identities: m is that of the row of message m, MaxMsgs + m one that only  *)
(* its frame has.                                                            *)
Identities == 1 .. 2 * MaxMsgs
NoIdentity == 0
FrameIds == Identities \cup {NoIdentity}
PushedAs(m) == {[row |-> m, own |-> MaxMsgs + m, none |-> NoIdentity][f] : f \in Forms}

VARIABLES
    stop,         \* the stop event, shared by the channels of a process
    second,       \* the clock
    stored,       \* the messages of the gateway: the second each was stored in
    wsPc, frames, \* _run_ws, and the identities of the frames under way to it
    pollPc,       \* _poll_loop
    rows, newest, \* the answer of the poll: the unseen rows, and the newest row's second
    cursor,       \* where the next poll starts
    seen,         \* _seen, in the order of _seen_order
    wxClosed,     \* aclose() has closed the client
    given,        \* History: the identities handed on, in order
    late,         \* History: stored while a poll's answer was being worked on
    unlisted      \* History: polled while their conversation was not listed

gatewayVars == <<second, stored, late>>
vars == <<stop, gatewayVars, wsPc, frames, pollPc, rows, newest, cursor, seen, wxClosed, given, unlisted>>

WxTypeOK ==
    /\ second \in 1 .. MaxSecond
    /\ stored \in Seq(1 .. MaxSecond) /\ Len(stored) <= MaxMsgs
    /\ wsPc \in {"connecting", "open", "backoff", "exited"}
    /\ frames \in Seq(FrameIds)
    /\ pollPc \in {"sleeping", "polling", "listing", "exited"}
    /\ rows \subseteq Msgs /\ newest \in 0 .. MaxSecond /\ cursor \in 0 .. MaxSecond
    /\ seen \in Seq(Identities) /\ Len(seen) <= MaxSeen
    /\ wxClosed \in BOOLEAN
    /\ given \in Seq(Identities) /\ late \subseteq Msgs /\ unlisted \subseteq Msgs

WxInit ==
    /\ second = 1 /\ stored = <<>> /\ late = {}
    /\ wsPc = "connecting" /\ frames = <<>>
    /\ pollPc = "sleeping" /\ rows = {} /\ newest = 0 /\ cursor = second - 1
    /\ seen = <<>> /\ wxClosed = FALSE /\ given = <<>> /\ unlisted = {}

-----------------------------------------------------------------------------
(* A message is stored, and pushed if a socket is open.  What happens at    *)
(* the gateway after both loops have ended is left out.                     *)
Arrives ==
    /\ wsPc # "exited" \/ pollPc # "exited"
    /\ Len(stored) < MaxMsgs
    /\ stored' = Append(stored, second)
    /\ IF wsPc = "open"
       THEN \E i \in PushedAs(Len(stored) + 1) : frames' = Append(frames, i)
       ELSE UNCHANGED frames
    /\ late' = IF pollPc = "listing" THEN late \cup {Len(stored) + 1} ELSE late
    /\ UNCHANGED <<stop, second, wsPc, pollPc, rows, newest, cursor, seen, wxClosed, given, unlisted>>

SecondPasses ==
    /\ wsPc # "exited" \/ pollPc # "exited"
    /\ second < MaxSecond
    /\ second' = second + 1
    /\ UNCHANGED <<stop, stored, late, wsPc, frames, pollPc, rows, newest, cursor, seen, wxClosed, given, unlisted>>

-----------------------------------------------------------------------------
(* _dispatch, for several messages in turn. *)

(* Fault: what a poll found unseen is handed on unchecked. *)
NewAlways(i, remembered) == TRUE

New(i, remembered) == ~ Contains(remembered, i)

Remembered(i, remembered) ==
    LET all == Append(remembered, i)
    IN  IF Len(all) > MaxSeen THEN Tail(all) ELSE all

Step(state, i) ==
    IF New(i, state.seen)
    THEN [seen |-> Remembered(i, state.seen), given |-> Append(state.given, i)]
    ELSE state

Dispatched(ids) ==
    LET after[n \in 0 .. Len(ids)] ==
            IF n = 0 THEN [seen |-> seen, given |-> given] ELSE Step(after[n - 1], ids[n])
    IN  seen' = after[Len(ids)].seen /\ given' = after[Len(ids)].given

(* A message without an identity is handed on unchecked, and not remembered. *)
DispatchedUnnamed == UNCHANGED <<seen, given>>

Room(n) == Len(given) + n <= MaxGiven

-----------------------------------------------------------------------------
(* The WebSocket. *)

Connects ==
    /\ wsPc = "connecting"
    /\ wsPc' = "open"
    /\ UNCHANGED <<stop, gatewayVars, frames, pollPc, rows, newest, cursor, seen, wxClosed, given, unlisted>>

(* A frame; a stop is looked at only when one arrives. *)
FrameArrives ==
    /\ wsPc = "open"
    /\ frames # <<>>
    /\ frames' = Tail(frames)
    /\ IF stop
       THEN wsPc' = "exited" /\ UNCHANGED <<seen, given>>
       ELSE /\ wsPc' = wsPc
            /\ IF Head(frames) = NoIdentity
               THEN DispatchedUnnamed
               ELSE Room(1) /\ Dispatched(<<Head(frames)>>)
    /\ UNCHANGED <<stop, gatewayVars, pollPc, rows, newest, cursor, wxClosed, unlisted>>

(* The connection cannot be made or ends, and its frames are lost.  One     *)
(* that ends without an error is made again at once.                        *)
SocketEnds ==
    /\ wsPc \in {"connecting", "open"}
    /\ frames' = <<>>
    /\ wsPc' \in IF stop THEN {"exited"} ELSE IF wsPc = "open" THEN {"connecting", "backoff"} ELSE {"backoff"}
    /\ UNCHANGED <<stop, gatewayVars, pollPc, rows, newest, cursor, seen, wxClosed, given, unlisted>>

WsBackoffEnds ==
    /\ wsPc = "backoff"
    /\ wsPc' = IF stop THEN "exited" ELSE "connecting"
    /\ UNCHANGED <<stop, gatewayVars, frames, pollPc, rows, newest, cursor, seen, wxClosed, given, unlisted>>

-----------------------------------------------------------------------------
(* The poll. *)

PollWakes ==
    /\ pollPc = "sleeping"
    /\ pollPc' = IF stop THEN "exited" ELSE "polling"
    /\ UNCHANGED <<stop, gatewayVars, wsPc, frames, rows, newest, cursor, seen, wxClosed, given, unlisted>>

Later(a, b) == IF a >= b THEN a ELSE b

(* Fault: the cursor moves to the newest row, though its second may go on. *)
CursorAtNewest(row) == row

(* It never enters the second that is not over yet, and never moves back.   *)
CursorAfter(row) == Later(cursor, IF row <= second - 1 THEN row ELSE second - 1)

(* poll_messages: the gateway's rows since a second. *)
Since(t) == {m \in DOMAIN stored : stored[m] > t}

(* The answer; conversations are listed only if some row is unseen. *)
PollAnswered ==
    /\ pollPc = "polling" /\ ~ wxClosed
    /\ LET found == Since(cursor)
           unseen == {m \in found : ~ Contains(seen, m)}
           last == IF found = {} THEN cursor ELSE Max({stored[m] : m \in found})
       IN  IF unseen = {}
           THEN cursor' = CursorAfter(last) /\ pollPc' = "sleeping" /\ UNCHANGED <<rows, newest>>
           ELSE rows' = unseen /\ newest' = last /\ pollPc' = "listing" /\ UNCHANGED cursor
    /\ UNCHANGED <<stop, gatewayVars, wsPc, frames, seen, wxClosed, given, unlisted>>

(* list_conversations and _parse_polled_message: a row of a conversation    *)
(* that is not listed, or is listed without a name, is dropped.             *)
Parsed(ms) == SUBSET ms

(* The rows that are left are handed on by time.  A row another feed has    *)
(* handed on meanwhile is skipped.                                          *)
Listed ==
    /\ pollPc = "listing" /\ ~ wxClosed
    /\ Room(Cardinality(rows))
    /\ \E known \in Parsed(rows) :
        \E order \in {o \in SetToSeqs(known) :
                        \A i, j \in DOMAIN o : i < j => stored[o[i]] <= stored[o[j]]} :
            Dispatched(order)
        /\ unlisted' = unlisted \cup (rows \ known)
    /\ cursor' = CursorAfter(newest)
    /\ rows' = {} /\ newest' = 0
    /\ pollPc' = "sleeping"
    /\ UNCHANGED <<stop, gatewayVars, wsPc, frames, wxClosed>>

(* Either request fails; the loop waits longer. *)
PollFailed ==
    /\ pollPc \in {"polling", "listing"}
    /\ rows' = {} /\ newest' = 0
    /\ pollPc' = "sleeping"
    /\ UNCHANGED <<stop, gatewayVars, wsPc, frames, cursor, seen, wxClosed, given, unlisted>>

-----------------------------------------------------------------------------
(* aclose(): the open socket and the client are closed.  A connection that  *)
(* is still being made is not.                                              *)
WxClose ==
    /\ wxClosed' = TRUE
    /\ IF wsPc = "open" THEN wsPc' = "exited" /\ frames' = <<>> ELSE UNCHANGED <<wsPc, frames>>
    /\ UNCHANGED <<stop, gatewayVars, pollPc, rows, newest, cursor, seen, given, unlisted>>

(* The end of run(): the poll loop is cancelled with it. *)
PollCancelled ==
    /\ wsPc = "exited"
    /\ pollPc # "exited"
    /\ pollPc' = "exited"
    /\ rows' = {} /\ newest' = 0
    /\ UNCHANGED <<stop, gatewayVars, wsPc, frames, cursor, seen, wxClosed, given, unlisted>>

(* The runner is cancelled. *)
WxCancelled ==
    /\ wsPc # "exited"
    /\ wsPc' = "exited"
    /\ frames' = <<>>
    /\ UNCHANGED <<stop, gatewayVars, pollPc, rows, newest, cursor, seen, wxClosed, given, unlisted>>

PollStep == PollWakes \/ PollAnswered \/ Listed \/ PollFailed

WxNext ==
    \/ Arrives \/ SecondPasses
    \/ Connects \/ FrameArrives \/ SocketEnds \/ WsBackoffEnds
    \/ PollStep \/ PollCancelled

-----------------------------------------------------------------------------
(* A message is not handed on twice under one identity, whichever feeds     *)
(* bring it and how often, until as many others were handed on since as the *)
(* adapter remembers (_dispatch).  One that is pushed under no identity, or *)
(* another than its row has, both feeds hand on.                            *)
HandledOnce ==
    \A i, j \in DOMAIN given : (i < j /\ given[i] = given[j]) => j - i > MaxSeen

(* The cursor passes over no message that was not handed on, but for those  *)
(* whose conversation was not listed, and those stored while a poll was     *)
(* worked on: the gateway may store a message in the second of the newest   *)
(* row of an answer already given, and that second may be over when the     *)
(* cursor moves (_poll_loop).                                               *)
NothingPassedOver ==
    \A m \in DOMAIN stored :
        stored[m] <= cursor => Contains(given, m) \/ m \in late \cup unlisted
=============================================================================
