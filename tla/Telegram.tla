------------------------------ MODULE Telegram ------------------------------
(***************************************************************************)
(* The Telegram adapter (channels/telegram): one long poll at a time, that *)
(* asks for the updates from an offset on and thereby confirms, and lets   *)
(* Telegram forget, those before it.  The handler behind the adapter, the  *)
(* policy gate with the dispatcher, starts a task and does not suspend, so *)
(* the updates of one answer are handled in one step of the event loop.    *)
(***************************************************************************)
EXTENDS Naturals, Sequences, SequencesExt

CONSTANT
    MaxUpdates    \* bound: the updates

VARIABLES
    stop,         \* the stop event, shared by the channels of a process
    updates,      \* what users write to the bot, by id: TRUE for a text message
    confirmed,    \* the updates Telegram has forgotten, those up to this one
    offset,       \* the next update to ask for
    tgPc,         \* where run() is
    handed        \* History: the updates the handler got, in order

serverVars == <<updates, confirmed>>
vars == <<stop, serverVars, offset, tgPc, handed>>

TgTypeOK ==
    /\ stop \in BOOLEAN
    /\ updates \in Seq(BOOLEAN) /\ Len(updates) <= MaxUpdates
    /\ confirmed \in 0 .. MaxUpdates
    /\ offset \in 0 .. MaxUpdates + 1
    /\ tgPc \in {"asking", "backoff", "exited"}
    /\ handed \in Seq(1 .. MaxUpdates)

TgInit ==
    /\ updates \in [1 .. MaxUpdates -> BOOLEAN] /\ confirmed = 0
    /\ offset = 0 /\ tgPc = "asking"
    /\ handed = <<>>

(* The request reaches Telegram. *)
Confirmed == IF offset > confirmed + 1 THEN offset - 1 ELSE confirmed

(* Fault: one update too many is acknowledged. *)
OffsetBeyond(last) == last + 2

OffsetAfter(last) == last + 1

(* The next turn of the loop, or its end. *)
Looped == IF stop THEN "exited" ELSE "asking"

(* _parse_update: only a text message is handed on. *)
Parsed(i) == updates[i]

(* The answer: the updates from the offset on that were written by then and *)
(* fit it, at least one unless the poll timed out.  They are handled in order; once the stop is set the *)
(* first of them ends the loop, its offset already moved.                   *)
Answered ==
    /\ tgPc = "asking"
    /\ confirmed' = Confirmed
    /\ \E last \in Confirmed .. Len(updates) :
        LET from == Confirmed + 1
            texts == {i \in from .. last : Parsed(i)}
        IN  /\ offset' = IF last < from THEN offset
                         ELSE OffsetAfter(IF stop THEN from ELSE last)
            /\ \E order \in {o \in SetToSeqs(texts) :
                               \A i, j \in DOMAIN o : i < j => o[i] < o[j]} :
                  handed' = IF stop THEN handed ELSE handed \o order
    /\ tgPc' = Looped
    /\ UNCHANGED <<stop, updates>>

(* What a failing call may say, and the loop does: a rejected token ends it, *)
(* a conflict removes the webhook and polls on, anything else waits first.  *)
Outcomes == {"exited", "asking", "backoff"}

(* A poll that fails, whether Telegram saw it or not. *)
PollFails ==
    /\ tgPc = "asking"
    /\ confirmed' \in {confirmed, Confirmed}
    /\ tgPc' \in IF stop THEN {"exited"} ELSE Outcomes
    /\ UNCHANGED <<stop, updates, offset, handed>>

(* _sleep_or_stop *)
BackoffEnds ==
    /\ tgPc = "backoff"
    /\ tgPc' = Looped
    /\ UNCHANGED <<stop, serverVars, offset, handed>>

(* The runner is cancelled. *)
TgCancelled ==
    /\ tgPc # "exited"
    /\ tgPc' = "exited"
    /\ UNCHANGED <<stop, serverVars, offset, handed>>

TgNext == Answered \/ PollFails \/ BackoffEnds

-----------------------------------------------------------------------------
(* Telegram forgets an update only when the handler had it, if it is a      *)
(* text; and the handler has each at most once and in order, however many   *)
(* answers are lost (offset in run()).                                      *)
ConfirmedIsHandled ==
    /\ \A u \in DOMAIN updates : u <= confirmed /\ updates[u] => \E i \in DOMAIN handed : handed[i] = u
    /\ \A i, j \in DOMAIN handed : i < j => handed[i] < handed[j]
=============================================================================
