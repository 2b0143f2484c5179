----------------------------- MODULE PolicyGate -----------------------------
(***************************************************************************)
(* The abuse control in front of a channel's dispatcher (channels/         *)
(* policy.py): drop what was seen already, then limit each sender's rate.  *)
(* Both work with bounded memory: a queue of remembered ids, and for each  *)
(* sender a window of time stamps that is dropped when it has been idle    *)
(* for two windows, or when there are too many of them.                    *)
(*                                                                         *)
(* handle() holds a lock around both checks and does not suspend inside,   *)
(* so a message is decided in one step.  The checks before them (prefix,   *)
(* group, sender allowlist) read nothing but the message and leave no      *)
(* trace: the messages here are those that passed.  Time is a counter; the *)
(* code's 60 seconds are RateWindow.                                       *)
(***************************************************************************)
EXTENDS Integers, Sequences, FiniteSets

CONSTANTS
    Senders,      \* sender ids
    Ids,          \* upstream message ids
    NoId,         \* no upstream id
    SenderOf,     \* whose message an id is
    RateLimit,    \* rate_limit_per_min
    RateWindow,   \* the 60 s of a sliding window
    DedupWindow,  \* dedup_window_seconds
    DedupMax,     \* dedup_max_ids
    MaxSenders,   \* rate_limit_max_senders
    MaxClock,     \* bound: the clock
    MaxDecisions  \* bound: messages handled

ASSUME PolicyGateAssumption ==
    /\ NoId \notin Ids
    /\ SenderOf \in [Ids -> Senders]
    /\ {RateLimit, DedupWindow} \subseteq Nat
    /\ {RateWindow, DedupMax, MaxSenders} \subseteq Nat \ {0}

VARIABLES
    clock,    \* _clock()
    dedup,    \* _dedup_order, each id with its time in _dedup_seen
    windows,  \* _windows
    log,      \* history: the decisions
    since     \* history: where in the log a sender's window was last dropped

gateVars == <<clock, dedup, windows, log, since>>

-----------------------------------------------------------------------------
Message ==
    {m \in [id : Ids \cup {NoId}, sender : Senders] :
        m.id # NoId => m.sender = SenderOf[m.id]}

Window == [stamps : Seq(Nat), last_touch : Nat]

Verdicts == {"duplicate", "rate_limited", "forwarded"}

(* The queues and maps keep within their bounds. *)
GateTypeOK ==
    /\ clock \in Nat
    /\ dedup \in Seq([id : Ids, at : Nat]) /\ Len(dedup) <= DedupMax
    /\ DOMAIN windows \subseteq Senders /\ Cardinality(DOMAIN windows) <= MaxSenders
    /\ \A s \in DOMAIN windows :
        windows[s] \in Window /\ Len(windows[s].stamps) <= RateLimit
    /\ log \in Seq([id : Ids \cup {NoId}, sender : Senders, at : Nat, verdict : Verdicts])
    /\ since \in [Senders -> 0 .. Len(log)]

GateInit ==
    /\ clock = 0
    /\ dedup = <<>>
    /\ windows = [s \in {} |-> 0]
    /\ log = <<>>
    /\ since = [s \in Senders |-> 0]

-----------------------------------------------------------------------------
(* The queue without the entries at its head that are older than cutoff;    *)
(* times are the entries' times.                                            *)
WithoutOld(queue, times, cutoff) ==
    LET old == CHOOSE k \in 0 .. Len(queue) :
                   /\ \A i \in 1 .. k : times[i] < cutoff
                   /\ k < Len(queue) => times[k + 1] >= cutoff
    IN  SubSeq(queue, old + 1, Len(queue))

(* Fault: the cutoff is one dedup window too late. *)
PrunedAll == WithoutOld(dedup, [i \in 1 .. Len(dedup) |-> dedup[i].at], clock)

(* _prune_dedup. *)
Pruned ==
    IF DedupWindow > 0
    THEN WithoutOld(dedup, [i \in 1 .. Len(dedup) |-> dedup[i].at], clock - DedupWindow)
    ELSE dedup

(* Fault: the cap is tested with > for >=. *)
RememberOneMore(queue, id) ==
    Append(SubSeq(queue, IF Len(queue) > DedupMax THEN 2 ELSE 1, Len(queue)),
           [id |-> id, at |-> clock])

(* _remember: the oldest make room below the cap. *)
Remember(queue, id) ==
    Append(SubSeq(queue, IF Len(queue) >= DedupMax THEN Len(queue) - DedupMax + 2 ELSE 1,
                  Len(queue)),
           [id |-> id, at |-> clock])

Checked(m) == DedupWindow > 0 /\ m.id # NoId

Seen(m) == Checked(m) /\ \E i \in 1 .. Len(Pruned) : Pruned[i].id = m.id

(* Fault: a window is stale as soon as its sender pauses. *)
FreshOnlyNow == {s \in DOMAIN windows : windows[s].last_touch >= clock}

(* _evict_stale_windows: the windows it keeps. *)
FreshWindows == {s \in DOMAIN windows : windows[s].last_touch >= clock - 2 * RateWindow}

(* Fault: max for min. *)
MostRecent(kept) ==
    {s \in kept : \A u \in kept : windows[u].last_touch <= windows[s].last_touch}

(* _drop_lru_window drops one of these. *)
LeastRecent(kept) ==
    {s \in kept : \A u \in kept : windows[s].last_touch <= windows[u].last_touch}

(* The senders whose windows make room for a window of s. *)
Dropped(s) ==
    IF s \in FreshWindows \/ Cardinality(FreshWindows) < MaxSenders
    THEN {{}} ELSE {{u} : u \in LeastRecent(FreshWindows)}

(* The stamps of s that still count. *)
Stamps(s) ==
    IF s \in FreshWindows
    THEN WithoutOld(windows[s].stamps, windows[s].stamps, clock - RateWindow)
    ELSE <<>>

(* _SlidingWindow.allow. *)
Allows(s) == Len(Stamps(s)) < RateLimit

Touched(s) ==
    [stamps |-> IF Allows(s) THEN Append(Stamps(s), clock) ELSE Stamps(s),
     last_touch |-> clock]

Record(m, verdict) ==
    log' = Append(log, [id |-> m.id, sender |-> m.sender, at |-> clock,
                        verdict |-> verdict])

(* handle() drops a message it has seen. *)
Reject(m) ==
    /\ Seen(m)
    /\ dedup' = Pruned
    /\ Record(m, "duplicate")
    /\ UNCHANGED <<clock, windows, since>>

(* handle() remembers a new message, and forwards it if the rate allows. *)
Admit(m) ==
    /\ ~ Seen(m)
    /\ dedup' = IF Checked(m) THEN Remember(Pruned, m.id) ELSE dedup
    /\ IF RateLimit = 0
       THEN /\ Record(m, "forwarded")
            /\ UNCHANGED <<windows, since>>
       ELSE \E dropped \in Dropped(m.sender) :
            /\ windows' = [s \in (FreshWindows \ dropped) \cup {m.sender} |->
                              IF s = m.sender THEN Touched(s) ELSE windows[s]]
            /\ since' = [s \in Senders |-> IF s \in dropped THEN Len(log) ELSE since[s]]
            /\ Record(m, IF Allows(m.sender) THEN "forwarded" ELSE "rate_limited")
    /\ UNCHANGED clock

Tick ==
    /\ clock < MaxClock
    /\ clock' = clock + 1
    /\ UNCHANGED <<dedup, windows, log, since>>

GateNext ==
    \/ Tick
    \/ /\ Len(log) < MaxDecisions
       /\ \E m \in Message : Reject(m) \/ Admit(m)

GateSpec == GateInit /\ [][GateNext]_gateVars

-----------------------------------------------------------------------------
(* Properties. *)

Forwarded(s) == {i \in 1 .. Len(log) : log[i].sender = s /\ log[i].verdict = "forwarded"}

(* policy.py promises "at most rate_limit_per_min messages from one         *)
(* sender_id in the last 60 s": so it is at every moment, as long as that   *)
(* sender's window is not dropped for want of room.                         *)
RateHolds ==
    RateLimit > 0 =>
        \A s \in Senders : \A i \in Forwarded(s) :
            Cardinality({j \in Forwarded(s) :
                            /\ since[s] < j /\ j <= i
                            /\ log[j].at >= log[i].at - RateWindow}) <= RateLimit

(* The agent gets a message a second time only when the window has passed,  *)
(* or DedupMax other ids were remembered in between; a window of 0 turns    *)
(* the check off.                                                           *)
NoEarlyRepeat ==
    DedupWindow > 0 => \A i, j \in 1 .. Len(log) :
        (/\ i < j
         /\ log[i].id # NoId /\ log[i].id = log[j].id
         /\ log[i].verdict = "forwarded" /\ log[j].verdict = "forwarded")
            => \/ log[j].at - log[i].at > DedupWindow
               \/ Cardinality({k \in i + 1 .. j - 1 :
                      log[k].id # NoId /\ log[k].verdict # "duplicate"}) >= DedupMax

(* With its bounded memory the gate decides every message as Admission does *)
(* from the full log.                                                       *)
Log == INSTANCE Admission

AdmissionSpec == Log!Spec
=============================================================================
