----------------------------- MODULE Admission -----------------------------
(***************************************************************************)
(* What the policy of a channel decides about the messages it is given,    *)
(* told from the full log of its decisions: no windows, no queues, no      *)
(* eviction of what is no longer needed.                                   *)
(*                                                                         *)
(* A message is a duplicate when its id was remembered in the last         *)
(* DedupWindow and is among the last DedupMax ids remembered.  A sender is *)
(* limited when RateLimit of its messages were forwarded in the last       *)
(* RateWindow.  With more than MaxSenders senders active at a time the     *)
(* policy may forget one, and then that one's count starts again.          *)
(***************************************************************************)
EXTENDS Integers, Sequences, FiniteSets

CONSTANTS Senders, Ids, NoId,
          RateLimit, RateWindow, DedupWindow, DedupMax, MaxSenders

VARIABLES
    clock,  \* the time
    log,    \* the decisions, in order
    since   \* for a sender, the length of the log when it was last forgotten

adVars == <<clock, log, since>>

Verdicts == {"duplicate", "rate_limited", "forwarded"}

Entry == [id : Ids \cup {NoId}, sender : Senders, at : Nat, verdict : Verdicts]

Init ==
    /\ clock = 0
    /\ log = <<>>
    /\ since = [s \in Senders |-> 0]

(* Every message with an id that was no duplicate is remembered, whatever   *)
(* became of it.                                                            *)
Remembered ==
    {i \in 1 .. Len(log) : log[i].id # NoId /\ log[i].verdict # "duplicate"}

IsDuplicate(id) ==
    /\ DedupWindow > 0
    /\ id # NoId
    /\ \E i \in Remembered :
        /\ log[i].id = id
        /\ log[i].at >= clock - DedupWindow
        /\ Cardinality({j \in Remembered : j > i}) < DedupMax

Counted(s) ==
    {i \in since[s] + 1 .. Len(log) :
        /\ log[i].sender = s
        /\ log[i].verdict = "forwarded"
        /\ log[i].at >= clock - RateWindow}

Verdict(id, s) ==
    IF IsDuplicate(id) THEN "duplicate"
    ELSE IF RateLimit > 0 /\ Cardinality(Counted(s)) >= RateLimit
    THEN "rate_limited"
    ELSE "forwarded"

(* The entries that reached the rate limit. *)
Touches(s) == {i \in 1 .. Len(log) : log[i].sender = s /\ log[i].verdict # "duplicate"}

RecentlyActive(s) == \E i \in Touches(s) : log[i].at >= clock - 2 * RateWindow

(* s may be forgotten for the sake of another when MaxSenders others are    *)
(* active, of which s was the first to fall silent.                         *)
MayForget(s, for) ==
    /\ s # for
    /\ RecentlyActive(s)
    /\ Cardinality({u \in Senders \ {for, s} :
           \E i \in Touches(u) :
               \A j \in Touches(s) : log[j].at <= log[i].at}) >= MaxSenders - 1

Decide(id, s) ==
    /\ log' = Append(log, [id |-> id, sender |-> s, at |-> clock,
                           verdict |-> Verdict(id, s)])
    /\ \/ UNCHANGED since
       \/ \E u \in Senders : MayForget(u, s) /\ since' = [since EXCEPT ![u] = Len(log)]
    /\ UNCHANGED clock

Tick ==
    /\ clock' = clock + 1
    /\ UNCHANGED <<log, since>>

Next == Tick \/ \E id \in Ids \cup {NoId}, s \in Senders : Decide(id, s)

Spec == Init /\ [][Next]_adVars
=============================================================================
