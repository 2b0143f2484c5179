----------------------------- MODULE ReadMarks -----------------------------
(***************************************************************************)
(* The read marks of the history drawer (reads.py): one file that holds a  *)
(* mark per session, the updated_at of the last output a user has seen,    *)
(* and a baseline below which everything counts as read.                   *)
(*                                                                         *)
(* Stamps are milliseconds, small numbers here; 0 stands for a missing     *)
(* stamp, as _as_ms has it.  A file that is missing, or that holds no      *)
(* marks that can be parsed, is a file that is not there.                  *)
(***************************************************************************)
EXTENDS Naturals, FiniteSets

CONSTANTS
    Sessions,     \* the sessions of the history: provider and id together
    MaxEntries    \* the marks the file holds at most (_MAX_ENTRIES)

ASSUME MaxEntriesAssumption == MaxEntries \in Nat \ {0}

Higher(a, b) == IF a >= b THEN a ELSE b

Unmarked == [s \in Sessions |-> 0]

NoFile == [there |-> FALSE, baseline |-> 0, marks |-> Unmarked]

Seed(now) == [there |-> TRUE, baseline |-> now, marks |-> Unmarked]

(* _load_or_seed, what it returns *)
LoadOrSeed(file, now) == IF file.there THEN file ELSE Seed(now)

(* _evict: a mark too many costs the smallest one, of equal ones any.       *)
Evicted(marks) ==
    LET held == {s \in Sessions : marks[s] > 0}
        smallest == {s \in held : \A t \in held : marks[s] <= marks[t]}
    IN  IF Cardinality(held) <= MaxEntries
        THEN {marks}
        ELSE {[marks EXCEPT ![s] = 0] : s \in smallest}

(* Fault: the mark is what the browser says, also where that is lower. *)
Replaced(mark, stamp) == stamp

(* An existing mark is never lowered. *)
Raised(mark, stamp) == Higher(mark, stamp)

(* Fault: a mark is stamped with the time it arrives at. *)
StampNow(seen, now) == now

(* The mark is the stamp the browser rendered; without one, the time.       *)
Stamp(seen, now) == IF seen = 0 THEN now ELSE seen

(* mark(), the files it may write from the one it has loaded. *)
Marked(file, s, seen, now) ==
    {[file EXCEPT !.marks = marks] :
        marks \in Evicted([file.marks EXCEPT ![s] = Raised(@, Stamp(seen, now))])}

(* annotate(), for one row. *)
Unread(file, s, at, running) ==
    ~ running /\ at > Higher(file.marks[s], file.baseline)
=============================================================================
