---------------------------- MODULE ChannelProofs ----------------------------
(***************************************************************************)
(* Proofs about the channels, for every value of the constants: PolicyGate *)
(* (any senders, ids, caps and windows), Dispatcher (any conversations,    *)
(* requests and number of messages), Portal, and the daemon of Channels    *)
(* with both its adapters (any number of updates, messages and remembered  *)
(* identities).                                                            *)
(*                                                                         *)
(* PolicyGate.  Admission decides from the whole log, the gate from queues *)
(* that forget.  The invariant says where in the log each entry of a queue *)
(* comes from (CoversAt, StampsAt), and that an entry of the log which is  *)
(* in no queue would not count if it were: it is too old, or as many as    *)
(* the cap came after it.  So the two count the same (SeenIsDuplicate,     *)
(* CountIs), and a step of the gate is a step of Admission.                *)
(*                                                                         *)
(* Dispatcher.  Beside the types and TurnLeavesNothing, which is inductive *)
(* with them, the invariant has two parts.  FileIsPortals says of a        *)
(* decision file what AllowOnlyByPortal says of the request it settles.    *)
(* InflightIsLive says that until the shutdown a turn that is not over is  *)
(* the one its conversation is busy with, and that only such a turn has an *)
(* agent.                                                                  *)
(*                                                                         *)
(* Channels.  What WeChat's adapter remembers is the end of what it handed *)
(* on (SeenIsLast); that several messages handed on in turn leave it so is *)
(* an induction, done over a set of numbers (UpTo).  The rows of a poll    *)
(* are all that the cursor will pass over (RowsComplete).  Telegram's      *)
(* offset is never ahead of the handler while the loop polls               *)
(* (AskedIsHandled).                                                       *)
(***************************************************************************)
EXTENDS PolicyGate, Dispatcher, Portal, Channels, SequenceTheorems, FiniteSetTheorems, TLAPS

(* What of a queue is left without its old head, when there is a first      *)
(* entry that is not old.                                                   *)
LEMMA OldIsCut ==
    ASSUME NEW queue, Len(queue) \in Nat, NEW times, NEW cutoff \in Int,
           \A i \in 1 .. Len(queue) : times[i] \in Int
    PROVE  \E k \in 0 .. Len(queue) :
              /\ WithoutOld(queue, times, cutoff) = SubSeq(queue, k + 1, Len(queue))
              /\ \A i \in 1 .. k : times[i] < cutoff
              /\ k < Len(queue) => times[k + 1] >= cutoff
<1> DEFINE n == Len(queue)
           young == {k \in 0 .. n : k < n => times[k + 1] >= cutoff}
           isCut(k) == /\ \A i \in 1 .. k : times[i] < cutoff
                       /\ k < n => times[k + 1] >= cutoff
<1>1. young \subseteq Nat /\ n \in young
  OBVIOUS
<1>2. PICK k \in young : \A j \in young : ~ (<<j, k>> \in OpToRel(<, Nat))
  BY <1>1, NatLessThanWellFounded, WFMin
<1>3. \A j \in young : ~ (j < k)
  BY <1>1, <1>2 DEF OpToRel
<1>4. isCut(k)
  <2>1. ASSUME NEW i \in 1 .. k PROVE times[i] < cutoff
    <3>1. i - 1 \in 0 .. n /\ i - 1 < k /\ i - 1 < n /\ (i - 1) + 1 = i
      OBVIOUS
    <3>2. ~ (i - 1 \in young)
      BY <1>3, <3>1
    <3> QED BY <3>1, <3>2
  <2> QED BY <2>1
<1>5. \E x \in 0 .. n : isCut(x)
  BY <1>4
<1> DEFINE old == CHOOSE x \in 0 .. n : isCut(x)
<1>6. old \in 0 .. n /\ isCut(old)
  BY <1>5
<1>7. WithoutOld(queue, times, cutoff) = SubSeq(queue, old + 1, n)
  BY DEF WithoutOld
<1> QED BY <1>6, <1>7

Increasing(pos, n) == \A k, l \in 1 .. n : k < l => pos[k] < pos[l]

(* An increasing function names each number once. *)
LEMMA CountedOnce ==
    ASSUME NEW n \in Nat, NEW k \in 0 .. n, NEW pos \in [1 .. n -> Nat], Increasing(pos, n)
    PROVE  /\ IsFiniteSet({pos[l] : l \in k + 1 .. n})
           /\ Cardinality({pos[l] : l \in k + 1 .. n}) = n - k
<1> DEFINE some == k + 1 .. n
           image == {pos[l] : l \in some}
           f == [l \in some |-> pos[l]]
<1>1. IsFiniteSet(some) /\ Cardinality(some) = n - k
  <2>1. k + 1 \in Int /\ n \in Int
    OBVIOUS
  <2>2. IsFiniteSet(k + 1 .. n) /\ Cardinality(k + 1 .. n) = IF k + 1 > n THEN 0 ELSE n - (k + 1) + 1
    BY <2>1, FS_Interval
  <2>3. (IF k + 1 > n THEN 0 ELSE n - (k + 1) + 1) = n - k
    OBVIOUS
  <2> QED BY <2>2, <2>3
<1>2. f \in Bijection(some, image)
  <2>1. \A x, y \in some : f[x] = f[y] => x = y
    BY DEF Increasing
  <2>2. f \in [some -> image] /\ \A y \in image : \E x \in some : f[x] = y
    OBVIOUS
  <2> HIDE DEF f, some, image
  <2>4. f \in Injection(some, image)
    BY <2>1, <2>2 DEF Injection, IsInjective
  <2>5. f \in Surjection(some, image)
    BY <2>2 DEF Surjection
  <2> QED BY <2>4, <2>5 DEF Bijection
<1>3. ExistsBijection(some, image)
  BY <1>2 DEF ExistsBijection
<1> QED BY <1>1, <1>3, FS_Bijection

(* The same of a queue of any kind of entries. *)
LEMMA RestIs ==
    ASSUME NEW S, NEW queue \in Seq(S), NEW times, NEW cutoff \in Int,
           \A i \in 1 .. Len(queue) : times[i] \in Int
    PROVE  \E k \in 0 .. Len(queue) :
              /\ WithoutOld(queue, times, cutoff) \in Seq(S)
              /\ Len(WithoutOld(queue, times, cutoff)) = Len(queue) - k
              /\ \A l \in 1 .. Len(queue) - k : WithoutOld(queue, times, cutoff)[l] = queue[k + l]
              /\ \A l \in 1 .. k : times[l] < cutoff
              /\ k < Len(queue) => times[k + 1] >= cutoff
<1> DEFINE n == Len(queue)
           rest == WithoutOld(queue, times, cutoff)
<1>1. n \in Nat /\ \A i \in 1 .. n : queue[i] \in S
  BY LenProperties, ElementOfSeq
<1>2. PICK k \in 0 .. n :
         /\ rest = SubSeq(queue, k + 1, n)
         /\ \A i \in 1 .. k : times[i] < cutoff
         /\ k < n => times[k + 1] >= cutoff
  BY <1>1, OldIsCut
<1> HIDE DEF rest, n
<1>3. /\ SubSeq(queue, k + 1, n) \in Seq(S)
      /\ Len(SubSeq(queue, k + 1, n)) = IF k + 1 <= n THEN n - (k + 1) + 1 ELSE 0
      /\ \A i \in 1 .. n - (k + 1) + 1 : SubSeq(queue, k + 1, n)[i] = queue[k + 1 + i - 1]
  <2>1. k + 1 \in Int /\ n \in Int /\ k + 1 .. n \subseteq 1 .. n
    BY <1>1
  <2>2. \A i \in k + 1 .. n : queue[i] \in S
    BY <1>1, <2>1
  <2> QED BY <2>1, <2>2, SubSeqProperties
<1>4. Len(rest) = n - k
  BY <1>1, <1>2, <1>3
<1>5. \A l \in 1 .. n - k : rest[l] = queue[k + l]
  BY <1>1, <1>2, <1>3
<1> QED BY <1>2, <1>3, <1>4, <1>5 DEF rest, n

-----------------------------------------------------------------------------
Entry == [id : Ids \cup {NoId}, sender : Senders, at : Nat, verdict : Verdicts]

Remembered == Log!Remembered

(* The log is in the order of time. *)
TimesOrdered ==
    /\ \A i \in 1 .. Len(log) : log[i].at <= clock
    /\ \A i, j \in 1 .. Len(log) : i < j => log[i].at <= log[j].at

(* i is too old to be a duplicate's original, or too many ids ago. *)
Forgettable(i) ==
    \/ log[i].at < clock - DedupWindow
    \/ Cardinality({j \in Remembered : j > i}) >= DedupMax

(* The entries of queue are those of the log at pos, and what was           *)
(* remembered before them can be forgotten.                                 *)
CoversAt(queue, pos) ==
    /\ pos \in [1 .. Len(queue) -> Remembered]
    /\ Increasing(pos, Len(queue))
    /\ \A k \in 1 .. Len(queue) : queue[k] = [id |-> log[pos[k]].id, at |-> log[pos[k]].at]
    /\ \A i \in Remembered :
          \/ \E k \in 1 .. Len(queue) : pos[k] = i
          \/ /\ \A k \in 1 .. Len(queue) : i < pos[k]
             /\ Forgettable(i)

Covers(queue) == \E pos : CoversAt(queue, pos)

DedupIsLog == DedupWindow > 0 => Covers(dedup)

LEMMA Constants ==
    /\ RateLimit \in Nat /\ DedupWindow \in Nat
    /\ RateWindow \in Nat \ {0} /\ DedupMax \in Nat \ {0} /\ MaxSenders \in Nat \ {0}
    /\ NoId \notin Ids /\ \A id \in Ids : SenderOf[id] \in Senders
BY PolicyGateAssumption

LEMMA LogTyped ==
    ASSUME GateTypeOK
    PROVE  /\ log \in Seq(Entry) /\ Len(log) \in Nat
           /\ \A i \in 1 .. Len(log) :
                 /\ log[i] \in Entry /\ log[i].at \in Nat
                 /\ log[i].id \in Ids \cup {NoId} /\ log[i].sender \in Senders
<1>1. log \in Seq(Entry)
  BY DEF GateTypeOK, Entry
<1>2. Len(log) \in Nat /\ \A i \in 1 .. Len(log) : log[i] \in Entry
  BY <1>1, LenProperties, ElementOfSeq
<1>3. \A e \in Entry : e.at \in Nat /\ e.id \in Ids \cup {NoId} /\ e.sender \in Senders
  BY DEF Entry
<1> QED BY <1>1, <1>2, <1>3

LEMMA RememberedIs ==
    Remembered = {i \in 1 .. Len(log) : log[i].id # NoId /\ log[i].verdict # "duplicate"}
BY DEF Remembered, Log!Remembered

LEMMA LaterFinite ==
    ASSUME GateTypeOK, NEW i
    PROVE  /\ IsFiniteSet({j \in Remembered : j > i})
           /\ Cardinality({j \in Remembered : j > i}) \in Nat
<1>1. IsFiniteSet(1 .. Len(log))
  BY LogTyped, FS_Interval
<1>2. {j \in Remembered : j > i} \in SUBSET (1 .. Len(log))
  BY RememberedIs
<1>3. IsFiniteSet({j \in Remembered : j > i})
  BY <1>1, <1>2, FS_Subset
<1> QED BY <1>3, FS_CardinalityType

(* What pruning leaves is the rest of the queue, and none of it is old. *)
LEMMA PrunedIs ==
    ASSUME GateTypeOK, DedupWindow > 0
    PROVE  \E k \in 0 .. Len(dedup) :
              /\ Pruned \in Seq([id : Ids, at : Nat])
              /\ Len(Pruned) = Len(dedup) - k
              /\ \A l \in 1 .. Len(dedup) - k : Pruned[l] = dedup[k + l]
              /\ \A l \in 1 .. k : dedup[l].at < clock - DedupWindow
              /\ k < Len(dedup) => dedup[k + 1].at >= clock - DedupWindow
<1> DEFINE n == Len(dedup)
           times == [i \in 1 .. n |-> dedup[i].at]
<1>1. dedup \in Seq([id : Ids, at : Nat]) /\ n \in Nat /\ clock \in Nat
  BY DEF GateTypeOK
<1>2. \A i \in 1 .. n : dedup[i] \in [id : Ids, at : Nat] /\ times[i] = dedup[i].at /\ times[i] \in Int
  <2>1. \A i \in 1 .. n : dedup[i] \in [id : Ids, at : Nat]
    BY <1>1, ElementOfSeq
  <2>2. \A e \in [id : Ids, at : Nat] : e.at \in Int
    OBVIOUS
  <2> QED BY <2>1, <2>2
<1>3. clock - DedupWindow \in Int
  BY <1>1, Constants
<1>4. Pruned = WithoutOld(dedup, times, clock - DedupWindow)
  BY DEF Pruned
<1>5. PICK k \in 0 .. n :
         /\ Pruned \in Seq([id : Ids, at : Nat])
         /\ Len(Pruned) = n - k
         /\ \A l \in 1 .. n - k : Pruned[l] = dedup[k + l]
         /\ \A l \in 1 .. k : times[l] < clock - DedupWindow
         /\ k < n => times[k + 1] >= clock - DedupWindow
  <2> DEFINE cutoff == clock - DedupWindow
  <2>1. dedup \in Seq([id : Ids, at : Nat]) /\ cutoff \in Int /\ \A i \in 1 .. Len(dedup) : times[i] \in Int
    BY <1>1, <1>2, <1>3
  <2>2. Pruned = WithoutOld(dedup, times, cutoff)
    BY <1>4
  <2> HIDE DEF times, cutoff
  <2>3. \E k \in 0 .. Len(dedup) :
           /\ WithoutOld(dedup, times, cutoff) \in Seq([id : Ids, at : Nat])
           /\ Len(WithoutOld(dedup, times, cutoff)) = Len(dedup) - k
           /\ \A l \in 1 .. Len(dedup) - k : WithoutOld(dedup, times, cutoff)[l] = dedup[k + l]
           /\ \A l \in 1 .. k : times[l] < cutoff
           /\ k < Len(dedup) => times[k + 1] >= cutoff
    BY <2>1, RestIs
  <2> QED BY <2>2, <2>3 DEF cutoff
<1>6. \A l \in 1 .. k : dedup[l].at < clock - DedupWindow
  <2>1. 1 .. k \subseteq 1 .. n
    BY <1>1
  <2> QED BY <1>2, <1>5, <2>1
<1>7. k < n => dedup[k + 1].at >= clock - DedupWindow
  BY <1>1, <1>2, <1>5
<1> QED BY <1>5, <1>6, <1>7

LEMMA PrunedCovers ==
    ASSUME GateTypeOK, TimesOrdered, DedupWindow > 0, Covers(dedup)
    PROVE  /\ Covers(Pruned)
           /\ \A l \in 1 .. Len(Pruned) : Pruned[l].at >= clock - DedupWindow
<1>1. PICK k \in 0 .. Len(dedup) :
         /\ Pruned \in Seq([id : Ids, at : Nat])
         /\ Len(Pruned) = Len(dedup) - k
         /\ \A l \in 1 .. Len(dedup) - k : Pruned[l] = dedup[k + l]
         /\ \A l \in 1 .. k : dedup[l].at < clock - DedupWindow
         /\ k < Len(dedup) => dedup[k + 1].at >= clock - DedupWindow
  BY PrunedIs
<1>2. PICK pos : CoversAt(dedup, pos)
  BY DEF Covers
<1> DEFINE n == Len(dedup)
           new == [l \in 1 .. n - k |-> pos[k + l]]
<1>3. n \in Nat /\ clock \in Nat /\ dedup \in Seq([id : Ids, at : Nat])
  BY DEF GateTypeOK
<1>4. /\ pos \in [1 .. n -> Remembered] /\ Increasing(pos, n)
      /\ \A l \in 1 .. n : dedup[l].id = log[pos[l]].id /\ dedup[l].at = log[pos[l]].at
      /\ \A l \in 1 .. n : dedup[l] = [id |-> log[pos[l]].id, at |-> log[pos[l]].at]
  <2>1. \A l \in 1 .. n : dedup[l] = [id |-> log[pos[l]].id, at |-> log[pos[l]].at]
    BY <1>2 DEF CoversAt
  <2>2. ASSUME NEW l \in 1 .. n PROVE dedup[l].id = log[pos[l]].id /\ dedup[l].at = log[pos[l]].at
    <3>1. dedup[l] = [id |-> log[pos[l]].id, at |-> log[pos[l]].at]
      BY <2>1
    <3> QED BY <3>1
  <2> QED BY <1>2, <2>1, <2>2 DEF CoversAt
<1>5. Remembered \subseteq 1 .. Len(log)
  BY RememberedIs
<1>6. \A l \in 1 .. n - k : new[l] = pos[k + l] /\ k + l \in 1 .. n
  BY <1>3
<1>7. new \in [1 .. n - k -> Remembered] /\ Increasing(new, n - k)
  BY <1>3, <1>4, <1>6 DEF Increasing
<1>8. \A l \in 1 .. n - k : Pruned[l] = [id |-> log[new[l]].id, at |-> log[new[l]].at]
  BY <1>1, <1>4, <1>6
<1>9. ASSUME NEW i \in Remembered
      PROVE  \/ \E l \in 1 .. n - k : new[l] = i
             \/ (\A l \in 1 .. n - k : i < new[l]) /\ Forgettable(i)
  <2>1. CASE \E l \in 1 .. n : pos[l] = i
    <3>1. PICK l \in 1 .. n : pos[l] = i
      BY <2>1
    <3>2. CASE l > k
      <4>1. l - k \in 1 .. n - k /\ k + (l - k) = l
        BY <1>3, <3>2
      <4> QED BY <1>6, <3>1, <4>1
    <3>3. CASE l <= k
      <4>1. log[i].at < clock - DedupWindow
        BY <1>1, <1>4, <3>1, <3>3
      <4>2. \A x \in 1 .. n - k : i < new[x]
        BY <1>3, <1>4, <1>6, <3>1, <3>3 DEF Increasing
      <4> QED BY <4>1, <4>2 DEF Forgettable
    <3> QED BY <1>3, <3>2, <3>3
  <2>2. CASE (\A l \in 1 .. n : i < pos[l]) /\ Forgettable(i)
    BY <1>6, <2>2
  <2> QED BY <1>2, <2>1, <2>2 DEF CoversAt
<1>10. CoversAt(Pruned, new)
  <2> HIDE DEF new
  <2> QED BY <1>1, <1>7, <1>8, <1>9 DEF CoversAt
<1>11. ASSUME NEW l \in 1 .. Len(Pruned) PROVE Pruned[l].at >= clock - DedupWindow
  <2>1. l \in 1 .. n - k /\ k < n /\ k + 1 \in 1 .. n /\ k + l \in 1 .. n
    BY <1>1, <1>3
  <2>2. Pruned[l].at = log[pos[k + l]].at /\ dedup[k + 1].at = log[pos[k + 1]].at
    BY <1>1, <1>4, <2>1
  <2>3. pos[k + 1] \in 1 .. Len(log) /\ pos[k + l] \in 1 .. Len(log)
    BY <1>4, <1>5, <2>1
  <2>4. pos[k + 1] = pos[k + l] \/ pos[k + 1] < pos[k + l]
    BY <1>3, <1>4, <2>1 DEF Increasing
  <2>5. log[pos[k + 1]].at <= log[pos[k + l]].at
    BY <2>3, <2>4, LogTyped DEF TimesOrdered
  <2>6. log[pos[k + 1]].at >= clock - DedupWindow
    BY <1>1, <2>1, <2>2
  <2>7. clock - DedupWindow \in Int /\ log[pos[k + 1]].at \in Int /\ log[pos[k + l]].at \in Int
    BY <1>3, <2>3, LogTyped, Constants
  <2> QED BY <2>2, <2>5, <2>6, <2>7
<1> QED BY <1>10, <1>11 DEF Covers

(* Of the entries remembered after the k-th in the queue none is missing.   *)
LEMMA LaterCount ==
    ASSUME GateTypeOK, NEW queue, Len(queue) \in Nat, NEW pos, CoversAt(queue, pos),
           NEW k \in 1 .. Len(queue)
    PROVE  Cardinality({j \in Remembered : j > pos[k]}) = Len(queue) - k
<1> DEFINE n == Len(queue)
<1>1. /\ pos \in [1 .. n -> Remembered] /\ Increasing(pos, n)
      /\ \A i \in Remembered : (\E l \in 1 .. n : pos[l] = i) \/ \A l \in 1 .. n : i < pos[l]
  BY DEF CoversAt
<1>2. Remembered \subseteq Nat
  BY RememberedIs, LogTyped
<1>3. {j \in Remembered : j > pos[k]} = {pos[l] : l \in k + 1 .. n}
  <2>1. ASSUME NEW j \in Remembered, j > pos[k] PROVE \E l \in k + 1 .. n : pos[l] = j
    <3>1. pos[k] \in Nat /\ j \in Nat
      BY <1>1, <1>2
    <3>2. PICK l \in 1 .. n : pos[l] = j
      BY <1>1, <2>1, <3>1
    <3>3. l > k
      BY <1>1, <2>1, <3>1, <3>2 DEF Increasing
    <3> QED BY <3>2, <3>3
  <2>2. ASSUME NEW l \in k + 1 .. n PROVE pos[l] \in Remembered /\ pos[l] > pos[k]
    <3>1. l \in 1 .. n /\ k < l
      OBVIOUS
    <3>2. pos[l] \in Nat /\ pos[k] \in Nat /\ pos[k] < pos[l]
      BY <1>1, <1>2, <3>1 DEF Increasing
    <3> QED BY <1>1, <3>1, <3>2
  <2> QED BY <2>1, <2>2
<1>4. pos \in [1 .. n -> Nat] /\ k \in 0 .. n /\ n \in Nat
  <2>1. n \in Nat /\ k \in 0 .. n
    OBVIOUS
  <2>2. \A l \in 1 .. n : pos[l] \in Nat
    BY <1>1, <1>2
  <2> QED BY <1>1, <2>1, <2>2
<1> QED BY <1>1, <1>3, <1>4, CountedOnce

(* Admission has a copy of FiniteSets of its own. *)
LEMMA SameCardinality == ASSUME NEW S PROVE Log!Cardinality(S) = Cardinality(S)
BY DEF Log!Cardinality, Cardinality

(* The queue answers as the log does. *)
LEMMA SeenIsDuplicate ==
    ASSUME GateTypeOK, TimesOrdered, DedupIsLog, NEW m \in Message
    PROVE  Seen(m) <=> Log!IsDuplicate(m.id)
<1> DEFINE cutoff == clock - DedupWindow
           original(i) ==
               /\ log[i].id = m.id /\ log[i].at >= cutoff
               /\ Cardinality({j \in Remembered : j > i}) < DedupMax
<1>1. Log!IsDuplicate(m.id) <=>
          DedupWindow > 0 /\ m.id # NoId /\ \E i \in Remembered : original(i)
  BY SameCardinality DEF Log!IsDuplicate, Remembered
<1>2. Seen(m) <=>
          DedupWindow > 0 /\ m.id # NoId /\ \E l \in 1 .. Len(Pruned) : Pruned[l].id = m.id
  BY DEF Seen, Checked
<1> SUFFICES ASSUME DedupWindow > 0
             PROVE  (\E l \in 1 .. Len(Pruned) : Pruned[l].id = m.id)
                        <=> (\E i \in Remembered : original(i))
  BY <1>1, <1>2
<1>3. Covers(Pruned) /\ \A l \in 1 .. Len(Pruned) : Pruned[l].at >= cutoff
  BY PrunedCovers DEF DedupIsLog
<1>4. PICK pos : CoversAt(Pruned, pos)
  BY <1>3 DEF Covers
<1>5. Len(Pruned) \in Nat /\ Len(Pruned) <= DedupMax
  <2>1. Len(dedup) \in Nat /\ Len(dedup) <= DedupMax
    BY LenProperties DEF GateTypeOK
  <2> QED BY <2>1, PrunedIs, Constants
<1>6. \A l \in 1 .. Len(Pruned) :
          pos[l] \in Remembered /\ Pruned[l].id = log[pos[l]].id /\ Pruned[l].at = log[pos[l]].at
  <2> SUFFICES ASSUME NEW l \in 1 .. Len(Pruned)
               PROVE  pos[l] \in Remembered /\ Pruned[l].id = log[pos[l]].id
                          /\ Pruned[l].at = log[pos[l]].at
    OBVIOUS
  <2>1. Pruned[l] = [id |-> log[pos[l]].id, at |-> log[pos[l]].at] /\ pos[l] \in Remembered
    BY <1>4 DEF CoversAt
  <2> QED BY <2>1
<1>7. ASSUME NEW l \in 1 .. Len(Pruned), Pruned[l].id = m.id PROVE original(pos[l])
  <2>1. log[pos[l]].id = m.id /\ log[pos[l]].at >= cutoff
    BY <1>3, <1>6, <1>7
  <2>2. Cardinality({j \in Remembered : j > pos[l]}) = Len(Pruned) - l
    BY <1>4, <1>5, LaterCount
  <2> QED BY <1>5, <2>1, <2>2, Constants
<1>8. ASSUME NEW i \in Remembered, original(i)
      PROVE  \E l \in 1 .. Len(Pruned) : Pruned[l].id = m.id
  <2>1. ~ Forgettable(i)
    <3>1. clock \in Nat /\ log[i].at \in Nat
      BY LogTyped, RememberedIs DEF GateTypeOK
    <3>2. ~ (log[i].at < clock - DedupWindow)
      <4>1. log[i].at >= clock - DedupWindow /\ DedupWindow \in Nat
        BY <1>8, Constants
      <4> QED BY <3>1, <4>1
    <3>3. ~ (Cardinality({j \in Remembered : j > i}) >= DedupMax)
      <4>1. Cardinality({j \in Remembered : j > i}) < DedupMax /\ DedupMax \in Nat
        BY <1>8, Constants
      <4>2. Cardinality({j \in Remembered : j > i}) \in Nat
        BY LaterFinite
      <4> QED BY <4>1, <4>2
    <3> QED BY <3>2, <3>3 DEF Forgettable
  <2>2. PICK l \in 1 .. Len(Pruned) : pos[l] = i
    BY <1>4, <2>1 DEF CoversAt
  <2> QED BY <1>6, <1>8, <2>2
<1> QED BY <1>6, <1>7, <1>8

-----------------------------------------------------------------------------
(* A decision adds an entry to the log. *)
Decided(e) == e \in Entry /\ e.at = clock /\ log' = Append(log, e) /\ clock' = clock

LEMMA LogGrows ==
    ASSUME GateTypeOK, NEW e, Decided(e)
    PROVE  /\ log' \in Seq(Entry) /\ Len(log') = Len(log) + 1
           /\ log'[Len(log) + 1] = e
           /\ \A i \in 1 .. Len(log) : log'[i] = log[i]
           /\ 1 .. Len(log') = 1 .. Len(log) \cup {Len(log) + 1}
<1>1. log \in Seq(Entry) /\ Len(log) \in Nat /\ e \in Entry /\ log' = Append(log, e)
  BY LogTyped DEF Decided
<1>2. /\ log' \in Seq(Entry) /\ Len(log') = Len(log) + 1
      /\ log'[Len(log) + 1] = e
      /\ \A i \in 1 .. Len(log) : log'[i] = log[i]
  BY <1>1, AppendProperties
<1> QED BY <1>1, <1>2

LEMMA RememberedGrows ==
    ASSUME GateTypeOK, NEW e, Decided(e)
    PROVE  /\ Remembered' = Remembered \cup
                  (IF e.id # NoId /\ e.verdict # "duplicate" THEN {Len(log) + 1} ELSE {})
           /\ Remembered \subseteq 1 .. Len(log)
           /\ \A i \in Remembered : log'[i] = log[i]
<1>1. Remembered' = {i \in 1 .. Len(log') : log'[i].id # NoId /\ log'[i].verdict # "duplicate"}
  BY DEF Remembered, Log!Remembered
<1> QED BY <1>1, RememberedIs, LogGrows

LEMMA TimesStep ==
    ASSUME GateTypeOK, TimesOrdered, NEW e, Decided(e)
    PROVE  TimesOrdered'
<1>1. /\ Len(log) \in Nat /\ clock \in Nat /\ clock' = clock /\ e.at = clock
      /\ \A i \in 1 .. Len(log) : log[i].at \in Nat
  BY LogTyped DEF GateTypeOK, Decided
<1>2. ASSUME NEW i \in 1 .. Len(log') PROVE log'[i].at <= clock'
  BY <1>1, <1>2, LogGrows DEF TimesOrdered
<1>3. ASSUME NEW i \in 1 .. Len(log'), NEW j \in 1 .. Len(log'), i < j
      PROVE  log'[i].at <= log'[j].at
  <2>1. i \in 1 .. Len(log)
    BY <1>1, <1>3, LogGrows
  <2>2. CASE j \in 1 .. Len(log)
    BY <1>1, <1>3, <2>1, <2>2, LogGrows DEF TimesOrdered
  <2>3. CASE j = Len(log) + 1
    BY <1>1, <2>1, <2>3, LogGrows DEF TimesOrdered
  <2> QED BY <2>2, <2>3, LogGrows
<1> QED BY <1>2, <1>3 DEF TimesOrdered

(* Nothing but the passing of time makes a remembered entry forgettable,    *)
(* and nothing undoes it.                                                   *)
LEMMA ForgettableStays ==
    ASSUME GateTypeOK, GateTypeOK', clock' >= clock, Remembered \subseteq Remembered',
           \A i \in Remembered : log'[i] = log[i],
           NEW i \in Remembered, Forgettable(i)
    PROVE  Forgettable(i)'
<1>1. CASE log[i].at < clock - DedupWindow
  <2>1. log[i].at \in Nat /\ clock \in Nat /\ clock' \in Nat /\ log'[i].at = log[i].at
    BY LogTyped, RememberedIs DEF GateTypeOK
  <2>2. log'[i].at < clock' - DedupWindow
    BY <1>1, <2>1, Constants
  <2> QED BY <2>2 DEF Forgettable
<1>2. CASE Cardinality({j \in Remembered : j > i}) >= DedupMax
  <2> DEFINE later == {j \in Remembered : j > i}
             laterThen == {j \in Remembered' : j > i}
  <2>1. IsFiniteSet(laterThen) /\ Cardinality(laterThen) \in Nat
    <3>1. log' \in Seq(Entry) /\ Len(log') \in Nat
      <4>1. log' \in Seq(Entry)
        BY DEF GateTypeOK, Entry
      <4> QED BY <4>1, LenProperties
    <3>2. IsFiniteSet(1 .. Len(log'))
      BY <3>1, FS_Interval
    <3>3. laterThen \in SUBSET (1 .. Len(log'))
      BY DEF Remembered, Log!Remembered
    <3>4. IsFiniteSet(laterThen)
      BY <3>2, <3>3, FS_Subset
    <3> QED BY <3>4, FS_CardinalityType
  <2>2. later \in SUBSET laterThen
    OBVIOUS
  <2>3. Cardinality(later) <= Cardinality(laterThen)
    <3> HIDE DEF later, laterThen
    <3> QED BY <2>1, <2>2, FS_Subset
  <2>4. Cardinality(later) \in Nat /\ Cardinality(later) >= DedupMax
    BY <1>2, LaterFinite
  <2>5. Cardinality(laterThen) >= DedupMax
    <3> HIDE DEF later, laterThen
    <3> QED BY <2>1, <2>3, <2>4, Constants
  <2> QED BY <2>5 DEF Forgettable
<1> QED BY <1>1, <1>2 DEF Forgettable

LEMMA CoversStays ==
    ASSUME GateTypeOK, GateTypeOK', clock' >= clock, Remembered' = Remembered,
           \A i \in Remembered : log'[i] = log[i],
           NEW queue, Covers(queue)
    PROVE  Covers(queue)'
<1>1. PICK pos : CoversAt(queue, pos)
  BY DEF Covers
<1>2. /\ pos \in [1 .. Len(queue) -> Remembered']
      /\ Increasing(pos, Len(queue))
      /\ \A i \in Remembered' :
            \/ \E k \in 1 .. Len(queue) : pos[k] = i
            \/ (\A k \in 1 .. Len(queue) : i < pos[k]) /\ Forgettable(i)'
  BY <1>1, ForgettableStays DEF CoversAt
<1>3. ASSUME NEW k \in 1 .. Len(queue)
      PROVE  queue[k] = [id |-> log'[pos[k]].id, at |-> log'[pos[k]].at]
  <2>1. pos[k] \in Remembered /\ log'[pos[k]] = log[pos[k]]
    BY <1>1 DEF CoversAt
  <2> QED BY <1>1, <2>1 DEF CoversAt
<1>4. CoversAt(queue, pos)'
  BY <1>2, <1>3 DEF CoversAt
<1> QED BY <1>4 DEF Covers

LEMMA RememberIs ==
    ASSUME GateTypeOK, NEW queue \in Seq([id : Ids, at : Nat]), Len(queue) <= DedupMax,
           NEW id \in Ids
    PROVE  \E k \in 0 .. Len(queue) :
              /\ Remember(queue, id) \in Seq([id : Ids, at : Nat])
              /\ Len(Remember(queue, id)) = Len(queue) - k + 1
              /\ \A l \in 1 .. Len(queue) - k : Remember(queue, id)[l] = queue[k + l]
              /\ Remember(queue, id)[Len(queue) - k + 1] = [id |-> id, at |-> clock]
              /\ Len(queue) - k + 1 <= DedupMax
              /\ k > 0 => Len(queue) - k + 1 = DedupMax
<1> DEFINE n == Len(queue)
           k == IF n >= DedupMax THEN n - DedupMax + 1 ELSE 0
           rest == SubSeq(queue, k + 1, n)
           entry == [id |-> id, at |-> clock]
<1>1. n \in Nat /\ n <= DedupMax /\ DedupMax \in Nat \ {0}
  BY LenProperties, Constants
<1>2. k \in 0 .. n /\ n - k + 1 <= DedupMax /\ (k > 0 => n - k + 1 = DedupMax)
  BY <1>1
<1>3. Remember(queue, id) = Append(rest, entry)
  <2>1. (IF n >= DedupMax THEN n - DedupMax + 2 ELSE 1) = k + 1
    BY <1>1
  <2> QED BY <2>1 DEF Remember
<1> HIDE DEF k
<1>4. /\ rest \in Seq([id : Ids, at : Nat])
      /\ Len(rest) = n - k
      /\ \A l \in 1 .. n - k : rest[l] = queue[k + l]
  <2>1. k + 1 \in Int /\ n \in Int /\ \A i \in k + 1 .. n : queue[i] \in [id : Ids, at : Nat]
    <3>1. \A i \in 1 .. n : queue[i] \in [id : Ids, at : Nat]
      BY ElementOfSeq
    <3>2. k + 1 \in Int /\ n \in Int /\ k + 1 .. n \subseteq 1 .. n
      BY <1>1, <1>2
    <3> QED BY <3>1, <3>2
  <2>2. /\ rest \in Seq([id : Ids, at : Nat])
        /\ Len(rest) = IF k + 1 <= n THEN n - (k + 1) + 1 ELSE 0
        /\ \A i \in 1 .. n - (k + 1) + 1 : rest[i] = queue[k + 1 + i - 1]
    BY <2>1, SubSeqProperties
  <2>3. Len(rest) = n - k
    BY <1>1, <1>2, <2>2
  <2>4. \A l \in 1 .. n - k : rest[l] = queue[k + l]
    BY <1>1, <1>2, <2>2
  <2> QED BY <2>2, <2>3, <2>4
<1>5. entry \in [id : Ids, at : Nat]
  BY DEF GateTypeOK
<1> HIDE DEF rest, entry
<1>6. /\ Append(rest, entry) \in Seq([id : Ids, at : Nat])
      /\ Len(Append(rest, entry)) = n - k + 1
      /\ \A l \in 1 .. n - k : Append(rest, entry)[l] = rest[l]
      /\ Append(rest, entry)[n - k + 1] = entry
  BY <1>4, <1>5, AppendProperties
<1> QED BY <1>2, <1>3, <1>4, <1>6 DEF entry

LEMMA RememberCovers ==
    ASSUME GateTypeOK, GateTypeOK', NEW e, Decided(e), e.id \in Ids, e.verdict # "duplicate",
           NEW queue \in Seq([id : Ids, at : Nat]), Len(queue) <= DedupMax, Covers(queue),
           NEW new, new = Remember(queue, e.id)
    PROVE  Covers(new)'
<1>1. PICK pos : CoversAt(queue, pos)
  BY DEF Covers
<1>2. PICK k \in 0 .. Len(queue) :
         /\ Len(new) = Len(queue) - k + 1
         /\ \A l \in 1 .. Len(queue) - k : new[l] = queue[k + l]
         /\ new[Len(queue) - k + 1] = [id |-> e.id, at |-> clock]
         /\ Len(new) <= DedupMax
         /\ k > 0 => Len(new) = DedupMax
  <2> DEFINE after == Remember(queue, e.id)
  <2>1. \E k \in 0 .. Len(queue) :
           /\ after \in Seq([id : Ids, at : Nat])
           /\ Len(after) = Len(queue) - k + 1
           /\ \A l \in 1 .. Len(queue) - k : after[l] = queue[k + l]
           /\ after[Len(queue) - k + 1] = [id |-> e.id, at |-> clock]
           /\ Len(queue) - k + 1 <= DedupMax
           /\ k > 0 => Len(queue) - k + 1 = DedupMax
    BY RememberIs
  <2>2. after = new
    OBVIOUS
  <2> HIDE DEF after
  <2> QED BY <2>1, <2>2
<1>0. PICK N : N = Len(log) + 1
  OBVIOUS
<1> DEFINE n == Len(queue)
           p == n - k + 1
           then == [l \in 1 .. p |-> IF l = p THEN N ELSE pos[k + l]]
<1>3. n \in Nat /\ Len(log) \in Nat /\ DedupMax \in Nat \ {0}
  BY LenProperties, LogTyped, Constants
<1>4. /\ Remembered' = Remembered \cup {N} /\ Remembered \subseteq 1 .. Len(log)
      /\ \A i \in Remembered : log'[i] = log[i]
      /\ log'[N] = e /\ clock' = clock /\ e.at = clock
  <2>1. e.id # NoId
    BY Constants
  <2> QED BY <1>0, <2>1, RememberedGrows, LogGrows DEF Decided
<1>5. pos \in [1 .. n -> Remembered] /\ Increasing(pos, n)
  BY <1>1 DEF CoversAt
<1>6. /\ p \in Nat \ {0} /\ p \in 1 .. p /\ p = n - k + 1
      /\ \A l \in 1 .. p : l # p => l \in 1 .. n - k /\ k + l \in 1 .. n /\ l < p
      /\ N \in Nat /\ N = Len(log) + 1 /\ \A i \in 1 .. Len(log) : i \in Nat /\ i < N
  BY <1>0, <1>3
<1>7. \A l \in 1 .. p : then[l] = IF l = p THEN N ELSE pos[k + l]
  OBVIOUS
<1>8. then \in [1 .. p -> Remembered']
  BY <1>4, <1>5, <1>6
<1> HIDE DEF then, p, n
<1>13. /\ Len(queue) = n /\ Len(new) = p
       /\ \A l \in 1 .. n - k : new[l] = queue[k + l]
       /\ new[p] = [id |-> e.id, at |-> clock]
       /\ k \in 0 .. n
  BY <1>2 DEF n, p
<1>9. Increasing(then, p)
  <2> SUFFICES ASSUME NEW l \in 1 .. p, NEW x \in 1 .. p, l < x PROVE then[l] < then[x]
    BY DEF Increasing
  <2>1. l # p
    BY <1>6
  <2>4. then[l] = pos[k + l] /\ k + l \in 1 .. n
    BY <1>6, <1>7, <2>1
  <2>5. pos[k + l] \in 1 .. Len(log)
    BY <1>4, <1>5, <2>4
  <2>2. CASE x = p
    BY <1>6, <1>7, <2>2, <2>4, <2>5
  <2>3. CASE x # p
    <3>1. then[x] = pos[k + x] /\ k + x \in 1 .. n /\ k + l < k + x
      BY <1>3, <1>6, <1>7, <2>3
    <3> QED BY <1>5, <2>4, <3>1 DEF Increasing
  <2> QED BY <2>2, <2>3
<1>10. ASSUME NEW l \in 1 .. p
       PROVE  new[l] = [id |-> log'[then[l]].id, at |-> log'[then[l]].at]
  <2>1. CASE l = p
    BY <1>4, <1>7, <1>13, <2>1
  <2>2. CASE l # p
    <3>1. l \in 1 .. n - k /\ k + l \in 1 .. n /\ then[l] = pos[k + l]
      BY <1>6, <1>7, <2>2
    <3>2. new[l] = queue[k + l]
      BY <1>13, <3>1
    <3>3. queue[k + l] = [id |-> log[pos[k + l]].id, at |-> log[pos[k + l]].at]
      BY <1>1, <1>13, <3>1 DEF CoversAt
    <3>4. log'[pos[k + l]] = log[pos[k + l]]
      BY <1>4, <1>5, <3>1
    <3> QED BY <3>1, <3>2, <3>3, <3>4
  <2> QED BY <2>1, <2>2
<1>11. ASSUME NEW i \in Remembered'
       PROVE  \/ \E l \in 1 .. p : then[l] = i
              \/ (\A l \in 1 .. p : i < then[l]) /\ Forgettable(i)'
  <2>1. CASE i = N
    BY <1>6, <1>7, <2>1
  <2>2. CASE i \in Remembered /\ (\A l \in 1 .. n : i < pos[l]) /\ Forgettable(i)
    <3>1. \A l \in 1 .. p : i < then[l]
      <4> SUFFICES ASSUME NEW l \in 1 .. p PROVE i < then[l]
        OBVIOUS
      <4>1. CASE l = p
        BY <1>4, <1>6, <1>7, <2>2, <4>1
      <4>2. CASE l # p
        BY <1>6, <1>7, <2>2, <4>2
      <4> QED BY <4>1, <4>2
    <3>2. Forgettable(i)'
      <4>1. clock' >= clock
        BY <1>4 DEF GateTypeOK
      <4> QED BY <1>4, <2>2, <4>1, ForgettableStays
    <3> QED BY <3>1, <3>2
  <2>3. CASE i \in Remembered /\ \E l \in 1 .. n : pos[l] = i
    <3>1. PICK x \in 1 .. n : pos[x] = i
      BY <2>3
    <3>2. CASE x > k
      <4>1. x - k \in 1 .. p /\ x - k # p /\ k + (x - k) = x
        BY <1>6, <1>13, <3>2
      <4> QED BY <1>7, <3>1, <4>1
    <3>3. CASE x <= k
      <4>1. \A l \in 1 .. p : i < then[l]
        <5> SUFFICES ASSUME NEW l \in 1 .. p PROVE i < then[l]
          OBVIOUS
        <5>1. CASE l = p
          BY <1>4, <1>6, <1>7, <2>3, <5>1
        <5>2. CASE l # p
          <6>1. k + l \in 1 .. n /\ then[l] = pos[k + l]
            BY <1>6, <1>7, <5>2
          <6>2. x < k + l
            BY <3>3
          <6> QED BY <1>5, <3>1, <6>1, <6>2 DEF Increasing
        <5> QED BY <5>1, <5>2
      <4>2. p = DedupMax
        BY <1>2, <1>13, <3>3
      <4> DEFINE newer == {then[l] : l \in 0 + 1 .. p}
                 later == {j \in Remembered' : j > i}
      <4>3. IsFiniteSet(newer) /\ Cardinality(newer) = p
        <5>1. p \in Nat /\ 0 \in 0 .. p /\ p - 0 = p
          BY <1>6
        <5>2. then \in [1 .. p -> Nat]
          <6>1. Remembered' \subseteq Nat
            BY <1>4, <1>6
          <6> QED BY <1>8, <6>1
        <5> QED BY <1>9, <5>1, <5>2, CountedOnce
      <4>4. newer \in SUBSET later
        <5>1. ASSUME NEW l \in 0 + 1 .. p PROVE then[l] \in Remembered' /\ then[l] > i
          <6>1. l \in 1 .. p
            OBVIOUS
          <6>2. then[l] \in Nat /\ i \in Nat
            BY <1>4, <1>6, <1>8, <6>1
          <6> QED BY <1>8, <4>1, <6>1, <6>2
        <5> QED BY <5>1
      <4>5. IsFiniteSet(later) /\ Cardinality(later) \in Nat
        <5>1. later \in SUBSET (1 .. N) /\ N \in Int /\ 1 \in Int
          <6>1. N \in Int /\ 1 \in Int
            BY <1>6
          <6>2. ASSUME NEW j \in later PROVE j \in 1 .. N
            <7>1. j = N \/ j \in 1 .. Len(log)
              BY <1>4
            <7>2. CASE j = N
              BY <1>0, <1>3, <7>2
            <7>3. CASE j \in 1 .. Len(log)
              BY <1>0, <1>3, <7>3
            <7> QED BY <7>1, <7>2, <7>3
          <6> QED BY <6>1, <6>2
        <5>2. IsFiniteSet(later)
          BY <5>1, FS_Interval, FS_Subset
        <5> QED BY <5>2, FS_CardinalityType
      <4>6. Cardinality(newer) <= Cardinality(later)
        <5> HIDE DEF newer, later
        <5> QED BY <4>4, <4>5, FS_Subset
      <4>7. Cardinality(later) >= DedupMax
        <5> HIDE DEF newer, later
        <5> QED BY <1>3, <4>2, <4>3, <4>5, <4>6
      <4>8. Forgettable(i)'
        BY <4>7 DEF Forgettable
      <4> QED BY <4>1, <4>8
    <3> QED BY <1>3, <3>2, <3>3
  <2> QED BY <1>1, <1>4, <1>13, <2>1, <2>2, <2>3 DEF CoversAt
<1>12. CoversAt(new, then)'
  BY <1>8, <1>9, <1>10, <1>11, <1>13 DEF CoversAt
<1> QED BY <1>12 DEF Covers

-----------------------------------------------------------------------------
(* The forwarded messages of s since its window was last dropped. *)
Sent(s) ==
    {i \in 1 .. Len(log) :
        since[s] < i /\ log[i].sender = s /\ log[i].verdict = "forwarded"}

(* The entries of a window of s are those of the log at pos, and what else  *)
(* was sent is older.                                                       *)
StampsAt(s, stamps, pos) ==
    /\ pos \in [1 .. Len(stamps) -> Sent(s)]
    /\ Increasing(pos, Len(stamps))
    /\ \A k \in 1 .. Len(stamps) : stamps[k] = log[pos[k]].at
    /\ \A i \in Sent(s) :
          \/ \E k \in 1 .. Len(stamps) : pos[k] = i
          \/ log[i].at < clock - RateWindow

(* touch is when s was last heard. *)
LastTouch(s, touch) ==
    /\ \E i \in Log!Touches(s) : log[i].at = touch
    /\ \A i \in Log!Touches(s) : log[i].at <= touch

Silent(s) == \A i \in Sent(s) : log[i].at < clock - RateWindow

WindowIsLog(s) ==
    IF s \in DOMAIN windows
    THEN /\ \E pos : StampsAt(s, windows[s].stamps, pos)
         /\ LastTouch(s, windows[s].last_touch)
    ELSE Silent(s)

RateIsLog == RateLimit > 0 => \A s \in Senders : WindowIsLog(s)

LEMMA WindowTyped ==
    ASSUME GateTypeOK, NEW s \in DOMAIN windows
    PROVE  /\ s \in Senders /\ windows[s].last_touch \in Nat
           /\ windows[s].stamps \in Seq(Nat) /\ Len(windows[s].stamps) \in Nat
           /\ Len(windows[s].stamps) <= RateLimit
           /\ \A i \in 1 .. Len(windows[s].stamps) : windows[s].stamps[i] \in Nat
<1>1. s \in Senders /\ windows[s] \in Window /\ Len(windows[s].stamps) <= RateLimit
  BY DEF GateTypeOK
<1>2. windows[s].stamps \in Seq(Nat) /\ windows[s].last_touch \in Nat
  BY <1>1 DEF Window
<1> QED BY <1>1, <1>2, LenProperties, ElementOfSeq

LEMMA CountedIs ==
    ASSUME GateTypeOK, NEW s \in Senders
    PROVE  Log!Counted(s) = {i \in Sent(s) : log[i].at >= clock - RateWindow}
<1>1. since[s] \in Nat /\ Len(log) \in Nat
  BY LogTyped DEF GateTypeOK
<1>2. since[s] + 1 .. Len(log) = {i \in 1 .. Len(log) : since[s] < i}
  BY <1>1
<1> QED BY <1>2 DEF Log!Counted, Sent

LEMMA SentIs ==
    ASSUME GateTypeOK, NEW s \in Senders
    PROVE  /\ Sent(s) \subseteq Log!Touches(s)
           /\ Sent(s) \subseteq 1 .. Len(log) /\ Log!Touches(s) \subseteq 1 .. Len(log)
           /\ \A i \in Log!Touches(s) : log[i].at \in Nat /\ log[i].sender = s
BY LogTyped DEF Sent, Log!Touches

(* The stamps that count are at pos in the log, and all of them are there. *)
CountsAt(s, pos) ==
    /\ pos \in [1 .. Len(Stamps(s)) -> Log!Counted(s)]
    /\ Increasing(pos, Len(Stamps(s)))
    /\ \A k \in 1 .. Len(Stamps(s)) : Stamps(s)[k] = log[pos[k]].at
    /\ \A i \in Log!Counted(s) : \E k \in 1 .. Len(Stamps(s)) : pos[k] = i

LEMMA FreshStamps ==
    ASSUME GateTypeOK, NEW s \in FreshWindows
    PROVE  \E k \in 0 .. Len(windows[s].stamps) :
              /\ Stamps(s) \in Seq(Nat)
              /\ Len(Stamps(s)) = Len(windows[s].stamps) - k
              /\ \A l \in 1 .. Len(windows[s].stamps) - k : Stamps(s)[l] = windows[s].stamps[k + l]
              /\ \A l \in 1 .. k : windows[s].stamps[l] < clock - RateWindow
              /\ k < Len(windows[s].stamps) => windows[s].stamps[k + 1] >= clock - RateWindow
<1>1. s \in DOMAIN windows
  BY DEF FreshWindows
<1>2. Stamps(s) = WithoutOld(windows[s].stamps, windows[s].stamps, clock - RateWindow)
  BY DEF Stamps
<1>3. clock - RateWindow \in Int
  BY Constants DEF GateTypeOK
<1>4. /\ windows[s].stamps \in Seq(Nat)
      /\ \A i \in 1 .. Len(windows[s].stamps) : windows[s].stamps[i] \in Int
  BY <1>1, WindowTyped
<1> DEFINE stamps == windows[s].stamps
           cutoff == clock - RateWindow
<1>5. stamps \in Seq(Nat) /\ cutoff \in Int /\ \A i \in 1 .. Len(stamps) : stamps[i] \in Int
  BY <1>3, <1>4
<1>6. Stamps(s) = WithoutOld(stamps, stamps, cutoff)
  BY <1>2
<1> HIDE DEF stamps, cutoff
<1>7. \E k \in 0 .. Len(stamps) :
         /\ WithoutOld(stamps, stamps, cutoff) \in Seq(Nat)
         /\ Len(WithoutOld(stamps, stamps, cutoff)) = Len(stamps) - k
         /\ \A l \in 1 .. Len(stamps) - k : WithoutOld(stamps, stamps, cutoff)[l] = stamps[k + l]
         /\ \A l \in 1 .. k : stamps[l] < cutoff
         /\ k < Len(stamps) => stamps[k + 1] >= cutoff
  BY <1>5, RestIs
<1> QED BY <1>6, <1>7 DEF stamps, cutoff

LEMMA StampsTyped ==
    ASSUME GateTypeOK, NEW s \in Senders
    PROVE  /\ Stamps(s) \in Seq(Nat) /\ Len(Stamps(s)) \in Nat /\ Len(Stamps(s)) <= RateLimit
           /\ \A l \in 1 .. Len(Stamps(s)) : Stamps(s)[l] \in Nat
<1>1. CASE s \in FreshWindows
  <2>1. s \in DOMAIN windows
    BY <1>1 DEF FreshWindows
  <2>2. Stamps(s) \in Seq(Nat) /\ Len(Stamps(s)) <= Len(windows[s].stamps)
    BY <1>1, <2>1, FreshStamps, WindowTyped
  <2>3. Len(Stamps(s)) \in Nat /\ \A l \in 1 .. Len(Stamps(s)) : Stamps(s)[l] \in Nat
    BY <2>2, LenProperties, ElementOfSeq
  <2>4. Len(windows[s].stamps) <= RateLimit /\ Len(windows[s].stamps) \in Nat
    BY <2>1, WindowTyped
  <2> QED BY <2>2, <2>3, <2>4, Constants
<1>2. CASE s \notin FreshWindows
  <2>1. Stamps(s) = <<>>
    BY <1>2 DEF Stamps
  <2>2. <<>> \in Seq(Nat) /\ Len(<<>>) = 0
    BY EmptySeq
  <2> QED BY <2>1, <2>2, Constants
<1> QED BY <1>1, <1>2

LEMMA SilentCountsNone ==
    ASSUME GateTypeOK, NEW s \in Senders, Silent(s)
    PROVE  Log!Counted(s) = {}
<1>1. \A i \in Sent(s) : log[i].at \in Nat
  BY SentIs
<1>2. clock - RateWindow \in Int
  BY Constants DEF GateTypeOK
<1> QED BY <1>1, <1>2, CountedIs DEF Silent

(* A window dropped for its age had nothing left to count. *)
LEMMA StaleIsSilent ==
    ASSUME GateTypeOK, NEW s \in DOMAIN windows, WindowIsLog(s), s \notin FreshWindows
    PROVE  Silent(s)
<1>1. windows[s].last_touch < clock - 2 * RateWindow
  <2>1. ~ (windows[s].last_touch >= clock - 2 * RateWindow)
    BY DEF FreshWindows
  <2>2. windows[s].last_touch \in Nat /\ clock - 2 * RateWindow \in Int
    BY WindowTyped, Constants DEF GateTypeOK
  <2> QED BY <2>1, <2>2
<1>2. s \in Senders /\ windows[s].last_touch \in Nat
  BY WindowTyped
<1>4. clock \in Nat /\ RateWindow \in Nat
  BY Constants DEF GateTypeOK
<1>3. ASSUME NEW i \in Sent(s) PROVE log[i].at < clock - RateWindow
  <2>1. i \in Log!Touches(s) /\ log[i].at \in Nat
    BY <1>2, SentIs
  <2>2. log[i].at <= windows[s].last_touch
    BY <2>1 DEF WindowIsLog, LastTouch
  <2> QED BY <1>1, <1>2, <1>4, <2>1, <2>2
<1> QED BY <1>3 DEF Silent

LEMMA WindowCounts ==
    ASSUME GateTypeOK, TimesOrdered, NEW s \in Senders, WindowIsLog(s)
    PROVE  \E pos : CountsAt(s, pos)
<1>1. CASE s \in FreshWindows
  <2>1. s \in DOMAIN windows
    BY <1>1 DEF FreshWindows
  <2>2. PICK pos : StampsAt(s, windows[s].stamps, pos)
    BY <2>1 DEF WindowIsLog
  <2> DEFINE n == Len(windows[s].stamps)
             cutoff == clock - RateWindow
  <2>3. PICK k \in 0 .. n :
           /\ Len(Stamps(s)) = n - k
           /\ \A l \in 1 .. n - k : Stamps(s)[l] = windows[s].stamps[k + l]
           /\ \A l \in 1 .. k : windows[s].stamps[l] < cutoff
           /\ k < n => windows[s].stamps[k + 1] >= cutoff
    BY <1>1, FreshStamps
  <2> DEFINE p == n - k
             new == [l \in 1 .. p |-> pos[k + l]]
  <2>4. n \in Nat /\ p \in Nat /\ cutoff \in Int
    BY <2>1, WindowTyped, Constants DEF GateTypeOK
  <2>5. /\ pos \in [1 .. n -> Sent(s)] /\ Increasing(pos, n)
        /\ \A l \in 1 .. n : windows[s].stamps[l] = log[pos[l]].at
        /\ \A i \in Sent(s) : (\E l \in 1 .. n : pos[l] = i) \/ log[i].at < cutoff
    BY <2>2 DEF StampsAt
  <2>6. \A l \in 1 .. p : new[l] = pos[k + l] /\ k + l \in 1 .. n
    BY <2>4
  <2>7. \A i \in Sent(s) : i \in 1 .. Len(log) /\ log[i].at \in Nat
    BY SentIs
  <2> HIDE DEF new
  <2>8. ASSUME NEW l \in 1 .. p PROVE log[pos[k + l]].at >= cutoff
    <3>1. k < n /\ k + 1 \in 1 .. n /\ k + l \in 1 .. n /\ (k + 1 = k + l \/ k + 1 < k + l)
      BY <2>4
    <3>2. log[pos[k + 1]].at >= cutoff
      BY <2>3, <2>5, <3>1
    <3>3. pos[k + 1] \in Sent(s) /\ pos[k + l] \in Sent(s)
      BY <2>5, <3>1
    <3>4. pos[k + 1] = pos[k + l] \/ pos[k + 1] < pos[k + l]
      BY <2>5, <3>1 DEF Increasing
    <3>5. log[pos[k + 1]].at <= log[pos[k + l]].at
      BY <2>7, <3>3, <3>4 DEF TimesOrdered
    <3> QED BY <2>4, <2>7, <3>2, <3>3, <3>5
  <2>9. \A l \in 1 .. p : new[l] \in Log!Counted(s)
    BY <2>5, <2>6, <2>8, CountedIs
  <2>10. new \in [1 .. p -> Log!Counted(s)]
    BY <2>9 DEF new
  <2>11. Increasing(new, p)
    <3> SUFFICES ASSUME NEW l \in 1 .. p, NEW x \in 1 .. p, l < x PROVE new[l] < new[x]
      BY DEF Increasing
    <3>1. k + l \in 1 .. n /\ k + x \in 1 .. n /\ k + l < k + x
      BY <2>4
    <3> QED BY <2>5, <2>6, <3>1 DEF Increasing
  <2>12. \A l \in 1 .. p : Stamps(s)[l] = log[new[l]].at
    BY <2>3, <2>5, <2>6
  <2>13. ASSUME NEW i \in Log!Counted(s) PROVE \E l \in 1 .. p : new[l] = i
    <3>1. i \in Sent(s) /\ log[i].at >= cutoff /\ log[i].at \in Nat
      BY <2>7, CountedIs
    <3>2. PICK x \in 1 .. n : pos[x] = i
      BY <2>4, <2>5, <3>1
    <3>3. x > k
      <4>1. x <= k => windows[s].stamps[x] < cutoff
        BY <2>3
      <4> QED BY <2>4, <2>5, <3>1, <3>2, <4>1
    <3>4. x - k \in 1 .. p /\ k + (x - k) = x
      BY <2>4, <3>3
    <3> QED BY <2>6, <3>2, <3>4
  <2>14. Len(Stamps(s)) = p
    BY <2>3
  <2> HIDE DEF p
  <2> QED BY <2>10, <2>11, <2>12, <2>13, <2>14 DEF CountsAt
<1>2. CASE s \notin FreshWindows
  <2>1. Silent(s)
    BY <1>2, StaleIsSilent DEF WindowIsLog
  <2>2. Log!Counted(s) = {}
    BY <2>1, SilentCountsNone
  <2>3. Len(Stamps(s)) = 0
    BY <1>2, EmptySeq DEF Stamps
  <2>4. 1 .. 0 = {}
    OBVIOUS
  <2>5. CountsAt(s, [l \in {} |-> 0])
    BY <2>2, <2>3, <2>4 DEF CountsAt, Increasing
  <2> QED BY <2>5
<1> QED BY <1>1, <1>2

(* A window has as many entries that count as the log. *)
LEMMA CountIs ==
    ASSUME GateTypeOK, TimesOrdered, NEW s \in Senders, WindowIsLog(s)
    PROVE  /\ IsFiniteSet(Log!Counted(s))
           /\ Cardinality(Log!Counted(s)) = Len(Stamps(s))
<1>1. PICK pos : CountsAt(s, pos)
  BY WindowCounts
<1> DEFINE n == Len(Stamps(s))
<1>2. n \in Nat /\ 0 \in 0 .. n /\ n - 0 = n
  BY StampsTyped
<1>3. Log!Counted(s) \subseteq Nat
  BY CountedIs, SentIs
<1>4. pos \in [1 .. n -> Nat] /\ Increasing(pos, n)
  BY <1>1, <1>3 DEF CountsAt
<1>5. Log!Counted(s) = {pos[l] : l \in 0 + 1 .. n}
  BY <1>1 DEF CountsAt
<1> HIDE DEF n
<1> QED BY <1>2, <1>4, <1>5, CountedOnce DEF n

(* The gate decides as Admission does. *)
LEMMA VerdictIs ==
    ASSUME GateTypeOK, TimesOrdered, DedupIsLog, RateIsLog, NEW m \in Message
    PROVE  /\ Seen(m) => Log!Verdict(m.id, m.sender) = "duplicate"
           /\ ~ Seen(m) => Log!Verdict(m.id, m.sender) =
                 IF RateLimit = 0 \/ Allows(m.sender) THEN "forwarded" ELSE "rate_limited"
<1>1. Seen(m) <=> Log!IsDuplicate(m.id)
  BY SeenIsDuplicate
<1>2. m.sender \in Senders
  BY DEF Message
<1>3. CASE RateLimit > 0
  <2>1. Cardinality(Log!Counted(m.sender)) = Len(Stamps(m.sender)) /\ Len(Stamps(m.sender)) \in Nat
    BY <1>2, <1>3, CountIs, StampsTyped DEF RateIsLog
  <2>2. Allows(m.sender) <=> ~ (Log!Cardinality(Log!Counted(m.sender)) >= RateLimit)
    BY <2>1, SameCardinality, Constants DEF Allows
  <2>3. RateLimit # 0
    BY <1>3, Constants
  <2> QED BY <1>1, <1>3, <2>2, <2>3 DEF Log!Verdict
<1>4. CASE ~ (RateLimit > 0)
  <2>1. RateLimit = 0
    BY <1>4, Constants
  <2> QED BY <1>1, <1>4, <2>1 DEF Log!Verdict
<1> QED BY <1>3, <1>4

-----------------------------------------------------------------------------
(* What a step does to the log of one sender. *)
LEMMA SenderGrows ==
    ASSUME GateTypeOK, NEW e, Decided(e), NEW s \in Senders, since'[s] = since[s]
    PROVE  /\ Sent(s)' = Sent(s) \cup
                  (IF e.sender = s /\ e.verdict = "forwarded" THEN {Len(log) + 1} ELSE {})
           /\ Log!Touches(s)' = Log!Touches(s) \cup
                  (IF e.sender = s /\ e.verdict # "duplicate" THEN {Len(log) + 1} ELSE {})
           /\ \A i \in Log!Touches(s) : log'[i] = log[i]
<1>1. /\ 1 .. Len(log') = 1 .. Len(log) \cup {Len(log) + 1}
      /\ log'[Len(log) + 1] = e /\ \A i \in 1 .. Len(log) : log'[i] = log[i]
  BY LogGrows
<1>2. Sent(s)' = {i \in 1 .. Len(log') :
          since[s] < i /\ log'[i].sender = s /\ log'[i].verdict = "forwarded"}
  BY DEF Sent
<1>3. Log!Touches(s)' = {i \in 1 .. Len(log') : log'[i].sender = s /\ log'[i].verdict # "duplicate"}
  BY DEF Log!Touches
<1>4. \A i \in Log!Touches(s) : i \in 1 .. Len(log)
  BY DEF Log!Touches
<1>5. Len(log) \in Nat /\ since[s] \in Nat /\ since[s] <= Len(log)
  BY LogTyped DEF GateTypeOK
<1>6. Sent(s)' = Sent(s) \cup
          (IF e.sender = s /\ e.verdict = "forwarded" THEN {Len(log) + 1} ELSE {})
  <2>1. since[s] < Len(log) + 1
    BY <1>5
  <2>2. \A i \in 1 .. Len(log) : i \in Sent(s)' <=> i \in Sent(s)
    BY <1>1, <1>2 DEF Sent
  <2>3. Len(log) + 1 \in Sent(s)' <=> e.sender = s /\ e.verdict = "forwarded"
    BY <1>1, <1>2, <2>1
  <2>4. Sent(s)' \subseteq 1 .. Len(log) \cup {Len(log) + 1} /\ Sent(s) \subseteq 1 .. Len(log)
    BY <1>1, <1>2 DEF Sent
  <2> QED BY <2>2, <2>3, <2>4
<1>7. Log!Touches(s)' = Log!Touches(s) \cup
          (IF e.sender = s /\ e.verdict # "duplicate" THEN {Len(log) + 1} ELSE {})
  BY <1>1, <1>3 DEF Log!Touches
<1> QED BY <1>1, <1>4, <1>6, <1>7

(* A window nobody touches stays what it is. *)
LEMMA QuietStays ==
    ASSUME GateTypeOK, GateTypeOK', clock' >= clock, NEW s \in Senders,
           Sent(s)' = Sent(s), Log!Touches(s)' = Log!Touches(s),
           \A i \in Log!Touches(s) : log'[i] = log[i],
           s \in DOMAIN windows' <=> s \in DOMAIN windows,
           s \in DOMAIN windows => windows'[s] = windows[s],
           WindowIsLog(s)
    PROVE  WindowIsLog(s)'
<1>1. /\ clock \in Nat /\ clock' \in Nat
      /\ \A i \in Sent(s) : i \in Log!Touches(s) /\ log[i].at \in Nat /\ log'[i] = log[i]
  BY SentIs DEF GateTypeOK
<1>2. \A i \in Sent(s) : log[i].at < clock - RateWindow => log'[i].at < clock' - RateWindow
  BY <1>1, Constants
<1>3. CASE s \in DOMAIN windows
  <2>1. PICK stamps, touch : stamps = windows[s].stamps /\ touch = windows[s].last_touch
    OBVIOUS
  <2>2. s \in DOMAIN windows' /\ windows'[s].stamps = stamps /\ windows'[s].last_touch = touch
    BY <1>3, <2>1
  <2>3. PICK pos : StampsAt(s, stamps, pos)
    BY <1>3, <2>1 DEF WindowIsLog
  <2>4. StampsAt(s, stamps, pos)'
    <3>1. \A k \in 1 .. Len(stamps) : pos[k] \in Sent(s) /\ stamps[k] = log'[pos[k]].at
      BY <1>1, <2>3 DEF StampsAt
    <3>2. \A i \in Sent(s) : (\E k \in 1 .. Len(stamps) : pos[k] = i) \/ log'[i].at < clock' - RateWindow
      BY <1>2, <2>3 DEF StampsAt
    <3> QED BY <2>3, <3>1, <3>2 DEF StampsAt
  <2>5. LastTouch(s, touch)'
    <3>1. LastTouch(s, touch)
      BY <1>3, <2>1 DEF WindowIsLog
    <3> QED BY <3>1 DEF LastTouch
  <2> QED BY <2>2, <2>4, <2>5 DEF WindowIsLog
<1>4. CASE s \notin DOMAIN windows
  <2>1. Silent(s)
    BY <1>4 DEF WindowIsLog
  <2>2. \A i \in Sent(s) : log'[i].at < clock' - RateWindow
    BY <1>2, <2>1 DEF Silent
  <2> QED BY <1>4, <2>2 DEF WindowIsLog, Silent
<1> QED BY <1>3, <1>4

(* The window of the sender whose message was decided. *)
LEMMA TouchedStays ==
    ASSUME GateTypeOK, GateTypeOK', TimesOrdered, NEW e, Decided(e), NEW s \in Senders,
           e.sender = s, since'[s] = since[s], RateLimit > 0,
           e.verdict = IF Allows(s) THEN "forwarded" ELSE "rate_limited",
           s \in DOMAIN windows', windows'[s] = Touched(s), WindowIsLog(s)
    PROVE  WindowIsLog(s)'
<1>0. PICK N : N = Len(log) + 1
  OBVIOUS
<1>1. /\ Sent(s)' = Sent(s) \cup (IF Allows(s) THEN {N} ELSE {})
      /\ Log!Touches(s)' = Log!Touches(s) \cup {N}
      /\ \A i \in Log!Touches(s) : log'[i] = log[i]
      /\ log'[N] = e /\ e.at = clock /\ clock' = clock
  BY <1>0, SenderGrows, LogGrows DEF Decided
<1>2. /\ Len(log) \in Nat /\ N \in Nat /\ clock \in Nat
      /\ \A i \in Sent(s) : i \in Log!Touches(s) /\ i \in 1 .. Len(log) /\ i \in Nat /\ i < N
      /\ \A i \in Log!Touches(s) : i \in 1 .. Len(log) /\ log[i].at <= clock
  <2>1. Len(log) \in Nat /\ N \in Nat /\ clock \in Nat
    BY <1>0, LogTyped DEF GateTypeOK
  <2>2. \A i \in 1 .. Len(log) : i \in Nat /\ i < N
    BY <1>0, <2>1
  <2> QED BY <2>1, <2>2, SentIs DEF TimesOrdered
<1>3. PICK pos : CountsAt(s, pos)
  BY WindowCounts
<1>4. PICK old : old = Stamps(s)
  OBVIOUS
<1> DEFINE n == Len(old)
<1>5. old \in Seq(Nat) /\ n \in Nat
  BY <1>4, StampsTyped
<1>6. /\ pos \in [1 .. n -> Log!Counted(s)] /\ Increasing(pos, n)
      /\ \A k \in 1 .. n : old[k] = log[pos[k]].at
      /\ \A i \in Log!Counted(s) : \E k \in 1 .. n : pos[k] = i
  BY <1>3, <1>4 DEF CountsAt
<1>7. \A i \in Log!Counted(s) : i \in Sent(s) /\ log'[i] = log[i]
  BY <1>1, <1>2, CountedIs
<1>8. ASSUME NEW i \in Sent(s), i \notin Log!Counted(s) PROVE log'[i].at < clock' - RateWindow
  <2>1. ~ (log[i].at >= clock - RateWindow) /\ log[i].at \in Nat /\ log'[i] = log[i]
    BY <1>1, <1>2, <1>8, CountedIs, SentIs
  <2> QED BY <1>1, <1>2, <2>1, Constants
<1>9. PICK touch, stamps : touch = windows'[s].last_touch /\ stamps = windows'[s].stamps
  OBVIOUS
<1>10. touch = clock /\ stamps = IF Allows(s) THEN Append(old, clock) ELSE old
  BY <1>4, <1>9 DEF Touched
<1>11. LastTouch(s, touch)'
  <2>1. \A i \in Log!Touches(s)' : log'[i].at <= touch
    BY <1>1, <1>2, <1>10
  <2> QED BY <1>1, <1>10, <2>1 DEF LastTouch
<1>12. \E then : StampsAt(s, stamps, then)'
  <2>1. CASE ~ Allows(s)
    <3>1. stamps = old /\ Sent(s)' = Sent(s)
      BY <1>1, <1>10, <2>1
    <3>2. \A k \in 1 .. n : pos[k] \in Sent(s)' /\ old[k] = log'[pos[k]].at
      BY <1>6, <1>7, <3>1
    <3>3. StampsAt(s, old, pos)'
      BY <1>6, <1>8, <3>1, <3>2 DEF StampsAt
    <3> QED BY <3>1, <3>3
  <2>2. CASE Allows(s)
    <3> DEFINE p == n + 1
               then == [l \in 1 .. p |-> IF l = p THEN N ELSE pos[l]]
    <3>1. /\ Len(stamps) = p /\ stamps[p] = clock
          /\ \A l \in 1 .. n : stamps[l] = old[l]
      BY <1>2, <1>5, <1>10, <2>2, AppendProperties
    <3>2. p \in Nat /\ p \in 1 .. p /\ \A l \in 1 .. p : l # p => l \in 1 .. n /\ l < p
      BY <1>5
    <3>3. Sent(s)' = Sent(s) \cup {N}
      BY <1>1, <2>2
    <3>4. \A l \in 1 .. p : then[l] = IF l = p THEN N ELSE pos[l]
      OBVIOUS
    <3>5. \A l \in 1 .. n : pos[l] \in Sent(s) /\ old[l] = log'[pos[l]].at
      BY <1>6, <1>7
    <3> HIDE DEF then, p
    <3>6. then \in [1 .. p -> Sent(s)']
      <4>1. \A l \in 1 .. p : then[l] \in Sent(s)'
        BY <3>2, <3>3, <3>4, <3>5
      <4> QED BY <4>1 DEF then
    <3>7. Increasing(then, p)
      <4> SUFFICES ASSUME NEW l \in 1 .. p, NEW x \in 1 .. p, l < x PROVE then[l] < then[x]
        BY DEF Increasing
      <4>1. l # p
        BY <3>2
      <4>2. l \in 1 .. n /\ then[l] = pos[l] /\ pos[l] \in Sent(s)
        BY <3>2, <3>4, <3>5, <4>1
      <4>3. CASE x = p
        BY <1>2, <3>4, <4>2, <4>3
      <4>4. CASE x # p
        BY <1>6, <3>2, <3>4, <4>2, <4>4 DEF Increasing
      <4> QED BY <4>3, <4>4
    <3>8. \A l \in 1 .. p : stamps[l] = log'[then[l]].at
      BY <1>1, <3>1, <3>2, <3>4, <3>5
    <3>9. ASSUME NEW i \in Sent(s)'
          PROVE  (\E l \in 1 .. p : then[l] = i) \/ log'[i].at < clock' - RateWindow
      <4>1. CASE i = N
        BY <3>2, <3>4, <4>1
      <4>2. CASE i \in Log!Counted(s)
        <5>1. PICK l \in 1 .. n : pos[l] = i
          BY <1>6, <4>2
        <5>2. l \in 1 .. p /\ l # p
          BY <1>5 DEF p
        <5> QED BY <3>4, <5>1, <5>2
      <4>3. CASE i \in Sent(s) /\ i \notin Log!Counted(s)
        BY <1>8, <4>3
      <4> QED BY <3>3, <4>1, <4>2, <4>3
    <3>10. StampsAt(s, stamps, then)'
      BY <3>1, <3>6, <3>7, <3>8, <3>9 DEF StampsAt
    <3> QED BY <3>10
  <2> QED BY <2>1, <2>2
<1> QED BY <1>9, <1>11, <1>12 DEF WindowIsLog

-----------------------------------------------------------------------------
(* The steps. *)
VerdictOf(m) ==
    IF Seen(m) THEN "duplicate"
    ELSE IF RateLimit = 0 \/ Allows(m.sender) THEN "forwarded" ELSE "rate_limited"

LEMMA DecisionIs ==
    ASSUME GateTypeOK, NEW m \in Message, Reject(m) \/ Admit(m)
    PROVE  \E e : Decided(e) /\ e.id = m.id /\ e.sender = m.sender /\ e.verdict = VerdictOf(m)
<1> DEFINE e == [id |-> m.id, sender |-> m.sender, at |-> clock, verdict |-> VerdictOf(m)]
<1>1. VerdictOf(m) \in Verdicts
  BY DEF VerdictOf, Verdicts
<1>2. e \in Entry
  <2>1. m.id \in Ids \cup {NoId} /\ m.sender \in Senders /\ clock \in Nat
    BY DEF Message, GateTypeOK
  <2> QED BY <1>1, <2>1 DEF Entry
<1>3. log' = Append(log, e) /\ clock' = clock
  <2>1. CASE Reject(m)
    BY <2>1 DEF Reject, Record, VerdictOf
  <2>2. CASE Admit(m)
    <3>1. ~ Seen(m) /\ clock' = clock
      BY <2>2 DEF Admit
    <3>2. CASE RateLimit = 0
      BY <2>2, <3>1, <3>2 DEF Admit, Record, VerdictOf
    <3>3. CASE RateLimit # 0
      <4>1. Record(m, IF Allows(m.sender) THEN "forwarded" ELSE "rate_limited")
        BY <2>2, <3>3 DEF Admit
      <4>2. VerdictOf(m) = IF Allows(m.sender) THEN "forwarded" ELSE "rate_limited"
        BY <3>1, <3>3 DEF VerdictOf
      <4> QED BY <3>1, <4>1, <4>2 DEF Record
    <3> QED BY <3>2, <3>3
  <2> QED BY <2>1, <2>2
<1>4. e.id = m.id /\ e.sender = m.sender /\ e.verdict = VerdictOf(m) /\ e.at = clock
  OBVIOUS
<1> HIDE DEF e
<1> QED BY <1>2, <1>3, <1>4 DEF Decided

FiniteWindows == IsFiniteSet(DOMAIN windows)

LEMMA FreshFinite ==
    ASSUME GateTypeOK, FiniteWindows
    PROVE  /\ IsFiniteSet(FreshWindows) /\ Cardinality(FreshWindows) \in Nat
           /\ Cardinality(FreshWindows) <= MaxSenders
           /\ FreshWindows \subseteq DOMAIN windows
<1>1. FreshWindows \in SUBSET DOMAIN windows
  BY DEF FreshWindows
<1>2. /\ IsFiniteSet(FreshWindows)
      /\ Cardinality(FreshWindows) <= Cardinality(DOMAIN windows)
  BY <1>1, FS_Subset DEF FiniteWindows
<1>3. Cardinality(FreshWindows) \in Nat /\ Cardinality(DOMAIN windows) \in Nat
  BY <1>2, FS_CardinalityType DEF FiniteWindows
<1>4. Cardinality(DOMAIN windows) <= MaxSenders
  BY DEF GateTypeOK
<1> QED BY <1>1, <1>2, <1>3, <1>4, Constants

(* Room is made for one window, and never for more. *)
LEMMA RoomIsMade ==
    ASSUME GateTypeOK, FiniteWindows, NEW s, NEW dropped \in Dropped(s)
    PROVE  /\ IsFiniteSet((FreshWindows \ dropped) \cup {s})
           /\ Cardinality((FreshWindows \ dropped) \cup {s}) <= MaxSenders
           /\ s \notin dropped
           /\ dropped # {} =>
                 \E u \in LeastRecent(FreshWindows) :
                    /\ dropped = {u} /\ s \notin FreshWindows
                    /\ Cardinality(FreshWindows) >= MaxSenders
<1>1. CASE s \in FreshWindows
  <2>1. dropped = {}
    BY <1>1 DEF Dropped
  <2>2. (FreshWindows \ dropped) \cup {s} = FreshWindows
    BY <1>1, <2>1
  <2> QED BY <2>1, <2>2, FreshFinite
<1>2. CASE s \notin FreshWindows /\ Cardinality(FreshWindows) < MaxSenders
  <2>1. dropped = {}
    BY <1>2 DEF Dropped
  <2>2. (FreshWindows \ dropped) \cup {s} = FreshWindows \cup {s}
    BY <2>1
  <2>3. /\ IsFiniteSet(FreshWindows \cup {s})
        /\ Cardinality(FreshWindows \cup {s}) = Cardinality(FreshWindows) + 1
    BY <1>2, FreshFinite, FS_AddElement
  <2> QED BY <1>2, <2>1, <2>2, <2>3, FreshFinite, Constants
<1>3. CASE s \notin FreshWindows /\ ~ (Cardinality(FreshWindows) < MaxSenders)
  <2>1. PICK u \in LeastRecent(FreshWindows) : dropped = {u}
    BY <1>3 DEF Dropped
  <2>2. u \in FreshWindows
    BY DEF LeastRecent
  <2>3. /\ IsFiniteSet(FreshWindows \ {u})
        /\ Cardinality(FreshWindows \ {u}) = Cardinality(FreshWindows) - 1
    BY <2>2, FreshFinite, FS_RemoveElement
  <2>4. s \notin FreshWindows \ {u}
    BY <1>3
  <2>5. /\ IsFiniteSet((FreshWindows \ {u}) \cup {s})
        /\ Cardinality((FreshWindows \ {u}) \cup {s}) = Cardinality(FreshWindows \ {u}) + 1
    BY <2>3, <2>4, FS_AddElement
  <2>6. Cardinality((FreshWindows \ {u}) \cup {s}) <= MaxSenders
    BY <2>3, <2>5, FreshFinite, Constants
  <2>7. Cardinality(FreshWindows) >= MaxSenders
    BY <1>3, FreshFinite, Constants
  <2> QED BY <1>3, <2>1, <2>2, <2>5, <2>6, <2>7
<1> QED BY <1>1, <1>2, <1>3

LEMMA TouchedTyped ==
    ASSUME GateTypeOK, NEW s \in Senders
    PROVE  Touched(s) \in Window /\ Len(Touched(s).stamps) <= RateLimit
<1>1. clock \in Nat /\ Stamps(s) \in Seq(Nat) /\ Len(Stamps(s)) \in Nat /\ Len(Stamps(s)) <= RateLimit
  BY StampsTyped DEF GateTypeOK
<1> DEFINE stamps == IF Allows(s) THEN Append(Stamps(s), clock) ELSE Stamps(s)
<1>2. stamps \in Seq(Nat) /\ Len(stamps) <= RateLimit
  <2>1. CASE Allows(s)
    <3>1. Len(Stamps(s)) < RateLimit
      BY <2>1 DEF Allows
    <3>2. Append(Stamps(s), clock) \in Seq(Nat) /\ Len(Append(Stamps(s), clock)) = Len(Stamps(s)) + 1
      BY <1>1, AppendProperties
    <3> QED BY <1>1, <2>1, <3>1, <3>2, Constants
  <2>2. CASE ~ Allows(s)
    BY <1>1, <2>2
  <2> QED BY <2>1, <2>2
<1>3. Touched(s) = [stamps |-> stamps, last_touch |-> clock]
  BY DEF Touched
<1> HIDE DEF stamps
<1> QED BY <1>1, <1>2, <1>3 DEF Window

LEMMA TypeDedup ==
    ASSUME GateTypeOK, NEW m \in Message, Reject(m) \/ Admit(m)
    PROVE  dedup' \in Seq([id : Ids, at : Nat]) /\ Len(dedup') <= DedupMax
<1>1. Len(dedup) \in Nat /\ Len(dedup) <= DedupMax /\ dedup \in Seq([id : Ids, at : Nat])
  BY LenProperties DEF GateTypeOK
<1>2. DedupWindow > 0 => Pruned \in Seq([id : Ids, at : Nat]) /\ Len(Pruned) <= DedupMax
  BY <1>1, PrunedIs, Constants
<1>3. CASE Reject(m)
  BY <1>2, <1>3 DEF Reject, Seen, Checked
<1>4. CASE Admit(m) /\ ~ Checked(m)
  BY <1>1, <1>4 DEF Admit
<1>5. CASE Admit(m) /\ Checked(m)
  <2>1. m.id \in Ids /\ DedupWindow > 0
    BY <1>5 DEF Checked, Message
  <2>2. dedup' = Remember(Pruned, m.id)
    BY <1>5 DEF Admit
  <2>3. /\ Remember(Pruned, m.id) \in Seq([id : Ids, at : Nat])
        /\ Len(Remember(Pruned, m.id)) <= DedupMax
    BY <1>2, <2>1, RememberIs
  <2> QED BY <2>2, <2>3
<1> QED BY <1>3, <1>4, <1>5

LEMMA TypeWindows ==
    ASSUME GateTypeOK, FiniteWindows, NEW m \in Message, Reject(m) \/ Admit(m)
    PROVE  /\ DOMAIN windows' \subseteq Senders /\ IsFiniteSet(DOMAIN windows')
           /\ Cardinality(DOMAIN windows') <= MaxSenders
           /\ \A s \in DOMAIN windows' :
                 windows'[s] \in Window /\ Len(windows'[s].stamps) <= RateLimit
           /\ since' \in [Senders -> 0 .. Len(log)]
<1>1. m.sender \in Senders
  BY DEF Message
<1>2. CASE UNCHANGED <<windows, since>>
  BY <1>2 DEF GateTypeOK, FiniteWindows
<1>3. CASE Admit(m) /\ RateLimit # 0
  <2>1. PICK dropped \in Dropped(m.sender) :
           /\ windows' = [s \in (FreshWindows \ dropped) \cup {m.sender} |->
                             IF s = m.sender THEN Touched(s) ELSE windows[s]]
           /\ since' = [s \in Senders |-> IF s \in dropped THEN Len(log) ELSE since[s]]
    BY <1>3 DEF Admit
  <2>2. DOMAIN windows' = (FreshWindows \ dropped) \cup {m.sender}
    BY <2>1
  <2>3. DOMAIN windows' \subseteq Senders
    BY <1>1, <2>2, FreshFinite DEF GateTypeOK
  <2>4. IsFiniteSet(DOMAIN windows') /\ Cardinality(DOMAIN windows') <= MaxSenders
    BY <2>2, RoomIsMade
  <2>5. ASSUME NEW s \in DOMAIN windows'
        PROVE  windows'[s] \in Window /\ Len(windows'[s].stamps) <= RateLimit
    <3>1. CASE s = m.sender
      BY <1>1, <2>1, <2>2, <3>1, TouchedTyped
    <3>2. CASE s # m.sender
      <4>1. s \in DOMAIN windows /\ windows'[s] = windows[s]
        BY <2>1, <2>2, <3>2, FreshFinite
      <4> QED BY <4>1 DEF GateTypeOK
    <3> QED BY <3>1, <3>2
  <2>6. since' \in [Senders -> 0 .. Len(log)]
    BY <2>1, LogTyped DEF GateTypeOK
  <2> QED BY <2>3, <2>4, <2>5, <2>6
<1> QED BY <1>2, <1>3 DEF Reject, Admit

LEMMA TypeDecision ==
    ASSUME GateTypeOK, FiniteWindows, NEW m \in Message, Reject(m) \/ Admit(m)
    PROVE  GateTypeOK' /\ FiniteWindows'
<1>1. PICK e : Decided(e)
  BY DecisionIs
<1>2. log' \in Seq(Entry) /\ Len(log') = Len(log) + 1 /\ Len(log) \in Nat /\ clock' = clock
  BY <1>1, LogGrows, LogTyped DEF Decided
<1>3. since' \in [Senders -> 0 .. Len(log')]
  <2>1. 0 .. Len(log) \subseteq 0 .. Len(log')
    BY <1>2
  <2> QED BY <2>1, TypeWindows
<1> QED BY <1>2, <1>3, TypeDedup, TypeWindows DEF GateTypeOK, FiniteWindows, Entry

LEMMA DedupDecision ==
    ASSUME GateTypeOK, FiniteWindows, TimesOrdered, DedupIsLog,
           NEW m \in Message, Reject(m) \/ Admit(m)
    PROVE  DedupIsLog'
<1> SUFFICES ASSUME DedupWindow > 0 PROVE Covers(dedup)'
  BY DEF DedupIsLog
<1>1. PICK e : Decided(e) /\ e.id = m.id /\ e.verdict = VerdictOf(m)
  BY DecisionIs
<1>2. GateTypeOK' /\ clock' = clock /\ clock \in Nat /\ clock' >= clock
  <2>1. GateTypeOK'
    BY TypeDecision
  <2>2. clock' = clock /\ clock \in Nat
    BY <1>1 DEF Decided, GateTypeOK
  <2> QED BY <2>1, <2>2
<1>3. Covers(dedup) /\ Covers(Pruned)
  BY PrunedCovers DEF DedupIsLog
<1>4. Remembered' = Remembered \cup
          (IF e.id # NoId /\ e.verdict # "duplicate" THEN {Len(log) + 1} ELSE {})
      /\ \A i \in Remembered : log'[i] = log[i]
  BY <1>1, RememberedGrows
<1>5. PICK new : new = dedup'
  OBVIOUS
<1>6. Covers(new)'
  <2>1. CASE Reject(m)
    <3>1. new = Pruned /\ Remembered' = Remembered
      BY <1>1, <1>4, <1>5, <2>1 DEF Reject, VerdictOf
    <3>2. Covers(new)
      BY <1>3, <3>1
    <3> QED BY <1>2, <1>4, <3>1, <3>2, CoversStays
  <2>2. CASE Admit(m) /\ ~ Checked(m)
    <3>1. new = dedup /\ Remembered' = Remembered
      BY <1>1, <1>4, <1>5, <2>2 DEF Admit, Checked
    <3>2. Covers(new)
      BY <1>3, <3>1
    <3> QED BY <1>2, <1>4, <3>1, <3>2, CoversStays
  <2>3. CASE Admit(m) /\ Checked(m)
    <3>1. PICK queue : queue = Pruned
      OBVIOUS
    <3>2. Covers(queue) /\ queue \in Seq([id : Ids, at : Nat]) /\ Len(queue) <= DedupMax
      <4>1. Len(dedup) \in Nat /\ Len(dedup) <= DedupMax
        BY LenProperties DEF GateTypeOK
      <4>2. Pruned \in Seq([id : Ids, at : Nat]) /\ Len(Pruned) <= Len(dedup) /\ Len(Pruned) \in Nat
        <5>1. \E k \in 0 .. Len(dedup) :
                 Pruned \in Seq([id : Ids, at : Nat]) /\ Len(Pruned) = Len(dedup) - k
          BY PrunedIs
        <5> QED BY <4>1, <5>1
      <4> QED BY <1>3, <3>1, <4>1, <4>2, Constants
    <3>3. e.id \in Ids /\ e.verdict # "duplicate" /\ new = Remember(queue, e.id)
      BY <1>1, <1>5, <2>3, <3>1 DEF Admit, Checked, Message, VerdictOf
    <3> QED BY <1>1, <1>2, <3>2, <3>3, RememberCovers
  <2> QED BY <2>1, <2>2, <2>3
<1> QED BY <1>5, <1>6 DEF Covers, CoversAt

LEMMA RateDecision ==
    ASSUME GateTypeOK, FiniteWindows, TimesOrdered, RateIsLog,
           NEW m \in Message, Reject(m) \/ Admit(m)
    PROVE  RateIsLog'
<1> SUFFICES ASSUME RateLimit > 0, NEW s \in Senders PROVE WindowIsLog(s)'
  BY DEF RateIsLog
<1>1. PICK e : Decided(e) /\ e.sender = m.sender /\ e.verdict = VerdictOf(m)
  BY DecisionIs
<1>2. GateTypeOK' /\ clock' = clock /\ clock \in Nat /\ clock' >= clock
  <2>1. GateTypeOK'
    BY TypeDecision
  <2>2. clock' = clock /\ clock \in Nat
    BY <1>1 DEF Decided, GateTypeOK
  <2> QED BY <2>1, <2>2
<1>3. WindowIsLog(s) /\ m.sender \in Senders
  BY DEF RateIsLog, Message
<1>4. CASE Reject(m)
  <2>1. since'[s] = since[s] /\ windows' = windows /\ e.verdict = "duplicate"
    BY <1>1, <1>4 DEF Reject, VerdictOf
  <2>2. /\ Sent(s)' = Sent(s) /\ Log!Touches(s)' = Log!Touches(s)
        /\ \A i \in Log!Touches(s) : log'[i] = log[i]
    BY <1>1, <2>1, SenderGrows
  <2> QED BY <1>2, <1>3, <2>1, <2>2, QuietStays
<1>5. CASE Admit(m)
  <2>1. RateLimit # 0 /\ ~ Seen(m)
    BY <1>5, Constants DEF Admit
  <2>2. PICK dropped \in Dropped(m.sender) :
           /\ windows' = [x \in (FreshWindows \ dropped) \cup {m.sender} |->
                             IF x = m.sender THEN Touched(x) ELSE windows[x]]
           /\ since' = [x \in Senders |-> IF x \in dropped THEN Len(log) ELSE since[x]]
    BY <1>5, <2>1 DEF Admit
  <2>3. m.sender \notin dropped
    BY RoomIsMade
  <2>4. CASE s = m.sender
    <3>1. since'[s] = since[s] /\ s \in DOMAIN windows' /\ windows'[s] = Touched(s)
      BY <2>2, <2>3, <2>4
    <3>2. e.sender = s /\ e.verdict = IF Allows(s) THEN "forwarded" ELSE "rate_limited"
      BY <1>1, <2>1, <2>4 DEF VerdictOf
    <3> QED BY <1>1, <1>2, <1>3, <3>1, <3>2, TouchedStays
  <2>5. CASE s # m.sender /\ s \in dropped
    <3>1. s \notin DOMAIN windows'
      BY <2>2, <2>5
    <3>2. since'[s] = Len(log)
      BY <2>2, <2>5
    <3>3. ASSUME NEW i \in Sent(s)' PROVE FALSE
      <4>1. i \in 1 .. Len(log') /\ Len(log) < i /\ log'[i].sender = s
        BY <3>2 DEF Sent
      <4>2. i = Len(log) + 1
        BY <1>1, <4>1, LogGrows, LogTyped
      <4> QED BY <1>1, <2>5, <4>1, <4>2, LogGrows
    <3> QED BY <3>1, <3>3 DEF WindowIsLog, Silent
  <2>6. CASE s # m.sender /\ s \notin dropped
    <3>1. since'[s] = since[s]
      BY <2>2, <2>6
    <3>2. /\ Sent(s)' = Sent(s) /\ Log!Touches(s)' = Log!Touches(s)
          /\ \A i \in Log!Touches(s) : log'[i] = log[i]
      BY <1>1, <2>6, <3>1, SenderGrows
    <3>3. CASE s \in FreshWindows \/ s \notin DOMAIN windows
      <4>1. /\ s \in DOMAIN windows' <=> s \in DOMAIN windows
            /\ s \in DOMAIN windows => windows'[s] = windows[s]
        BY <2>2, <2>6, <3>3, FreshFinite
      <4> QED BY <1>2, <1>3, <3>2, <4>1, QuietStays
    <3>4. CASE s \notin FreshWindows /\ s \in DOMAIN windows
      <4>1. s \notin DOMAIN windows' /\ Silent(s)
        BY <1>3, <2>2, <2>6, <3>4, StaleIsSilent
      <4>2. \A i \in Sent(s)' : log'[i].at < clock' - RateWindow
        BY <1>2, <3>2, <4>1, SentIs DEF Silent
      <4> QED BY <4>1, <4>2 DEF WindowIsLog, Silent
    <3> QED BY <3>3, <3>4
  <2> QED BY <2>4, <2>5, <2>6
<1> QED BY <1>4, <1>5

(* Time passes, or nothing happens. *)
LEMMA Idle ==
    ASSUME GateTypeOK, FiniteWindows, TimesOrdered, DedupIsLog, RateIsLog,
           Tick \/ UNCHANGED gateVars
    PROVE  GateTypeOK' /\ FiniteWindows' /\ TimesOrdered' /\ DedupIsLog' /\ RateIsLog'
<1>1. /\ clock \in Nat /\ clock' \in Nat /\ clock' >= clock
      /\ UNCHANGED <<dedup, windows, log, since>>
  BY DEF Tick, gateVars, GateTypeOK
<1>2. GateTypeOK' /\ FiniteWindows'
  BY <1>1 DEF GateTypeOK, FiniteWindows
<1>3. TimesOrdered'
  <2>1. \A i \in 1 .. Len(log) : log[i].at <= clock'
    BY <1>1, LogTyped DEF TimesOrdered
  <2> QED BY <1>1, <2>1 DEF TimesOrdered
<1>4. DedupIsLog'
  <2>1. PICK queue : queue = dedup
    OBVIOUS
  <2>2. Remembered' = Remembered
    BY <1>1 DEF Remembered, Log!Remembered
  <2>3. DedupWindow > 0 => Covers(queue)'
    BY <1>1, <1>2, <2>1, <2>2, CoversStays DEF DedupIsLog
  <2>4. queue = dedup'
    BY <1>1, <2>1
  <2> QED BY <2>3, <2>4 DEF DedupIsLog, Covers, CoversAt
<1>5. RateIsLog'
  <2> SUFFICES ASSUME RateLimit > 0, NEW s \in Senders PROVE WindowIsLog(s)'
    BY DEF RateIsLog
  <2>1. Sent(s)' = Sent(s) /\ Log!Touches(s)' = Log!Touches(s)
    BY <1>1 DEF Sent, Log!Touches
  <2> QED BY <1>1, <1>2, <2>1, QuietStays DEF RateIsLog
<1> QED BY <1>2, <1>3, <1>4, <1>5

-----------------------------------------------------------------------------
(* The properties. *)
LEMMA RateNext ==
    ASSUME GateTypeOK, FiniteWindows, TimesOrdered, RateIsLog, RateHolds,
           NEW m \in Message, Reject(m) \/ Admit(m)
    PROVE  RateHolds'
<1>1. PICK e : Decided(e) /\ e.sender = m.sender /\ e.verdict = VerdictOf(m)
  BY DecisionIs
<1>2. PICK N : N = Len(log) + 1
  OBVIOUS
<1>3. /\ 1 .. Len(log') = 1 .. Len(log) \cup {N}
      /\ log'[N] = e /\ e.at = clock /\ \A i \in 1 .. Len(log) : log'[i] = log[i]
      /\ N \in Nat /\ \A i \in 1 .. Len(log) : i \in Nat /\ i < N
  <2>1. Len(log) \in Nat
    BY LogTyped
  <2> QED BY <1>1, <1>2, <2>1, LogGrows DEF Decided
<1> SUFFICES ASSUME RateLimit > 0, NEW s \in Senders, NEW i \in Forwarded(s)'
             PROVE  Cardinality({j \in Forwarded(s)' :
                        /\ since'[s] < j /\ j <= i
                        /\ log'[j].at >= log'[i].at - RateWindow}) <= RateLimit
  BY DEF RateHolds
<1> DEFINE then == {j \in Forwarded(s)' :
                       /\ since'[s] < j /\ j <= i
                       /\ log'[j].at >= log'[i].at - RateWindow}
<1>4. /\ Forwarded(s) \subseteq 1 .. Len(log)
      /\ \A j \in Forwarded(s)' : j \in Forwarded(s) \/ j = N
      /\ N \in Forwarded(s)' => e.sender = s /\ e.verdict = "forwarded"
  BY <1>3 DEF Forwarded
<1>5. since'[s] = since[s] \/ since'[s] = Len(log)
  <2>1. CASE RateLimit = 0 \/ Reject(m)
    BY <2>1, Constants DEF Reject
  <2>2. CASE RateLimit # 0 /\ Admit(m)
    BY <2>2 DEF Admit
  <2> QED BY <2>1, <2>2
<1>6. s = m.sender => since'[s] = since[s]
  <2>1. CASE RateLimit = 0 \/ Reject(m)
    BY <2>1, Constants DEF Reject
  <2>2. CASE RateLimit # 0 /\ Admit(m)
    <3>1. PICK dropped \in Dropped(m.sender) :
             since' = [x \in Senders |-> IF x \in dropped THEN Len(log) ELSE since[x]]
      BY <2>2 DEF Admit
    <3> QED BY <3>1, RoomIsMade
  <2> QED BY <2>1, <2>2
<1>7. since[s] \in Nat /\ since[s] <= Len(log) /\ Len(log) \in Nat
  BY LogTyped DEF GateTypeOK
<1>8. CASE i # N
  <2> DEFINE before == {j \in Forwarded(s) :
                           /\ since[s] < j /\ j <= i
                           /\ log[j].at >= log[i].at - RateWindow}
  <2>1. i \in Forwarded(s) /\ i \in 1 .. Len(log)
    BY <1>4, <1>8
  <2>2. then \subseteq before
    <3> SUFFICES ASSUME NEW j \in then PROVE j \in before
      OBVIOUS
    <3>1. j \in Forwarded(s) /\ j \in 1 .. Len(log)
      BY <1>3, <1>4, <2>1
    <3>2. since[s] < j
      BY <1>5, <1>7, <3>1
    <3> QED BY <1>3, <2>1, <3>1, <3>2
  <2>3. IsFiniteSet(before)
    <3>1. before \in SUBSET (1 .. Len(log)) /\ IsFiniteSet(1 .. Len(log))
      BY <1>4, <1>7, FS_Interval
    <3> HIDE DEF before
    <3> QED BY <3>1, FS_Subset
  <2>4. Cardinality(before) <= RateLimit
    BY <2>1 DEF RateHolds
  <2> HIDE DEF before, then
  <2>5. then \in SUBSET before
    BY <2>2
  <2>6. IsFiniteSet(then) /\ Cardinality(then) <= Cardinality(before)
    BY <2>3, <2>5, FS_Subset
  <2>7. Cardinality(then) \in Nat /\ Cardinality(before) \in Nat
    BY <2>3, <2>6, FS_CardinalityType
  <2>8. Cardinality(then) <= RateLimit
    BY <2>4, <2>6, <2>7, Constants
  <2> QED BY <2>8 DEF then
<1>9. CASE i = N
  <2>1. s = m.sender /\ VerdictOf(m) = "forwarded"
    BY <1>1, <1>4, <1>9
  <2>2. Len(Stamps(s)) < RateLimit
    BY <2>1, Constants DEF VerdictOf, Allows
  <2>3. /\ IsFiniteSet(Log!Counted(s))
        /\ Cardinality(Log!Counted(s)) < RateLimit /\ Cardinality(Log!Counted(s)) \in Nat
    BY <2>2, CountIs, StampsTyped DEF RateIsLog
  <2>4. then \subseteq Log!Counted(s) \cup {N}
    <3> SUFFICES ASSUME NEW j \in then, j # N PROVE j \in Log!Counted(s)
      OBVIOUS
    <3>1. j \in Forwarded(s) /\ j \in 1 .. Len(log) /\ log'[j] = log[j]
      BY <1>3, <1>4
    <3>2. since[s] < j /\ log[j].at >= clock - RateWindow
      BY <1>3, <1>6, <1>9, <2>1, <3>1
    <3> QED BY <3>1, <3>2, CountedIs DEF Sent, Forwarded
  <2> HIDE DEF then
  <2>5. then \in SUBSET (Log!Counted(s) \cup {N})
    BY <2>4
  <2>6. /\ IsFiniteSet(Log!Counted(s) \cup {N})
        /\ Cardinality(Log!Counted(s) \cup {N}) <= RateLimit
        /\ Cardinality(Log!Counted(s) \cup {N}) \in Nat
    <3> DEFINE counted == Log!Counted(s)
    <3> HIDE DEF counted
    <3>1. IsFiniteSet(counted) /\ Cardinality(counted) < RateLimit /\ Cardinality(counted) \in Nat
      BY <2>3 DEF counted
    <3>2. /\ IsFiniteSet(counted \cup {N})
          /\ Cardinality(counted \cup {N}) =
                IF N \in counted THEN Cardinality(counted) ELSE Cardinality(counted) + 1
      BY <3>1, FS_AddElement
    <3>3. /\ IsFiniteSet(counted \cup {N})
          /\ Cardinality(counted \cup {N}) <= RateLimit
          /\ Cardinality(counted \cup {N}) \in Nat
      BY <3>1, <3>2, Constants
    <3> QED BY <3>3 DEF counted
  <2>7. IsFiniteSet(then) /\ Cardinality(then) <= Cardinality(Log!Counted(s) \cup {N})
    BY <2>5, <2>6, FS_Subset
  <2>8. Cardinality(then) \in Nat
    BY <2>7, FS_CardinalityType
  <2>9. Cardinality(then) <= RateLimit
    BY <2>6, <2>7, <2>8, Constants
  <2> QED BY <2>9 DEF then
<1> QED BY <1>8, <1>9

LEMMA RepeatNext ==
    ASSUME GateTypeOK, TimesOrdered, DedupIsLog, NoEarlyRepeat,
           NEW m \in Message, Reject(m) \/ Admit(m)
    PROVE  NoEarlyRepeat'
<1>1. PICK e : Decided(e) /\ e.id = m.id /\ e.verdict = VerdictOf(m)
  BY DecisionIs
<1>2. PICK N : N = Len(log) + 1
  OBVIOUS
<1>3. /\ 1 .. Len(log') = 1 .. Len(log) \cup {N}
      /\ log'[N] = e /\ e.at = clock /\ \A i \in 1 .. Len(log) : log'[i] = log[i]
      /\ Len(log) \in Nat /\ N \in Nat /\ \A i \in 1 .. Len(log) : i \in Nat /\ i < N
  <2>1. Len(log) \in Nat
    BY LogTyped
  <2> QED BY <1>1, <1>2, <2>1, LogGrows DEF Decided
<1> SUFFICES ASSUME DedupWindow > 0, NEW i \in 1 .. Len(log'), NEW j \in 1 .. Len(log'),
                    i < j, log'[i].id # NoId, log'[i].id = log'[j].id,
                    log'[i].verdict = "forwarded", log'[j].verdict = "forwarded"
             PROVE  \/ log'[j].at - log'[i].at > DedupWindow
                    \/ Cardinality({k \in i + 1 .. j - 1 :
                           log'[k].id # NoId /\ log'[k].verdict # "duplicate"}) >= DedupMax
  BY DEF NoEarlyRepeat
<1> DEFINE between == {k \in i + 1 .. j - 1 : log'[k].id # NoId /\ log'[k].verdict # "duplicate"}
<1>4. i \in 1 .. Len(log)
  BY <1>3
<1>5. CASE j # N
  <2>1. j \in 1 .. Len(log)
    BY <1>3, <1>5
  <2>2. i + 1 .. j - 1 \subseteq 1 .. Len(log)
    BY <1>3, <1>4, <2>1
  <2>3. between = {k \in i + 1 .. j - 1 : log[k].id # NoId /\ log[k].verdict # "duplicate"}
    BY <1>3, <2>2
  <2>4. log'[i] = log[i] /\ log'[j] = log[j]
    BY <1>3, <1>4, <2>1
  <2> QED BY <1>4, <2>1, <2>3, <2>4 DEF NoEarlyRepeat
<1>6. CASE j = N
  <2>1. VerdictOf(m) = "forwarded" /\ log[i].id = m.id /\ m.id # NoId
    BY <1>1, <1>3, <1>4, <1>6
  <2>2. ~ Log!IsDuplicate(m.id)
    BY <2>1, SeenIsDuplicate DEF VerdictOf
  <2>3. i \in Remembered
    BY <1>3, <1>4, <2>1, RememberedIs
  <2>4. \/ ~ (log[i].at >= clock - DedupWindow)
        \/ ~ (Cardinality({k \in Remembered : k > i}) < DedupMax)
    BY <2>1, <2>2, <2>3, SameCardinality DEF Log!IsDuplicate, Remembered
  <2>5. {k \in Remembered : k > i} = between
    <3>1. i + 1 .. j - 1 = {k \in 1 .. Len(log) : k > i}
      BY <1>2, <1>3, <1>4, <1>6
    <3>2. Remembered = {k \in 1 .. Len(log) : log'[k].id # NoId /\ log'[k].verdict # "duplicate"}
      BY <1>3, RememberedIs
    <3> QED BY <3>1, <3>2
  <2>6. clock \in Nat /\ log[i].at \in Nat /\ log'[i] = log[i] /\ log'[j].at = clock
    BY <1>3, <1>4, <1>6, LogTyped DEF GateTypeOK
  <2>7. Cardinality({k \in Remembered : k > i}) \in Nat
    BY LaterFinite
  <2>8. CASE ~ (log[i].at >= clock - DedupWindow)
    BY <2>6, <2>8, Constants
  <2>9. CASE ~ (Cardinality({k \in Remembered : k > i}) < DedupMax)
    <3>1. Cardinality({k \in Remembered : k > i}) >= DedupMax
      BY <2>7, <2>9, Constants
    <3> QED BY <2>5, <3>1
  <2> QED BY <2>4, <2>8, <2>9
<1> QED BY <1>5, <1>6

-----------------------------------------------------------------------------
GateInv ==
    /\ GateTypeOK
    /\ FiniteWindows
    /\ TimesOrdered
    /\ DedupIsLog
    /\ RateIsLog
    /\ RateHolds
    /\ NoEarlyRepeat

LEMMA GateInvInit == GateInit => GateInv
<1> SUFFICES ASSUME GateInit PROVE GateInv
  OBVIOUS
<1>1. /\ clock = 0 /\ dedup = <<>> /\ DOMAIN windows = {} /\ log = <<>>
      /\ since = [s \in Senders |-> 0] /\ Len(log) = 0 /\ 1 .. Len(log) = {} /\ Len(dedup) = 0
  BY EmptySeq DEF GateInit
<1>2. GateTypeOK
  <2>1. log \in Seq([id : Ids \cup {NoId}, sender : Senders, at : Nat, verdict : Verdicts])
    BY <1>1, EmptySeq
  <2>2. dedup \in Seq([id : Ids, at : Nat]) /\ Len(dedup) <= DedupMax
    BY <1>1, EmptySeq, Constants
  <2>3. Cardinality(DOMAIN windows) <= MaxSenders
    BY <1>1, FS_EmptySet, Constants
  <2>4. since \in [Senders -> 0 .. Len(log)]
    BY <1>1
  <2> QED BY <1>1, <2>1, <2>2, <2>3, <2>4 DEF GateTypeOK
<1>3. FiniteWindows
  BY <1>1, FS_EmptySet DEF FiniteWindows
<1>4. TimesOrdered
  BY <1>1 DEF TimesOrdered
<1>5. DedupIsLog
  <2>1. Remembered = {} /\ 1 .. 0 = {}
    BY <1>1, RememberedIs
  <2>2. CoversAt(dedup, [l \in {} |-> 0])
    BY <1>1, <2>1 DEF CoversAt, Increasing
  <2> QED BY <2>2 DEF DedupIsLog, Covers
<1>6. RateIsLog
  BY <1>1 DEF RateIsLog, WindowIsLog, Silent, Sent
<1>7. RateHolds
  BY <1>1 DEF RateHolds, Forwarded
<1>8. NoEarlyRepeat
  BY <1>1 DEF NoEarlyRepeat
<1> QED BY <1>2, <1>3, <1>4, <1>5, <1>6, <1>7, <1>8 DEF GateInv

LEMMA GateInvNext == GateInv /\ [GateNext]_gateVars => GateInv'
<1> SUFFICES ASSUME GateInv, [GateNext]_gateVars PROVE GateInv'
  OBVIOUS
<1> USE DEF GateInv
<1>1. CASE Tick \/ UNCHANGED gateVars
  <2>1. UNCHANGED <<log, since>>
    BY <1>1 DEF Tick, gateVars
  <2>2. RateHolds' /\ NoEarlyRepeat'
    BY <2>1 DEF RateHolds, NoEarlyRepeat, Forwarded
  <2> QED BY <1>1, <2>2, Idle
<1>2. ASSUME NEW m \in Message, Reject(m) \/ Admit(m) PROVE GateInv'
  <2>1. GateTypeOK' /\ FiniteWindows'
    BY <1>2, TypeDecision
  <2>2. TimesOrdered'
    <3>1. PICK e : Decided(e)
      BY <1>2, DecisionIs
    <3> QED BY <3>1, TimesStep
  <2>3. DedupIsLog'
    BY <1>2, DedupDecision
  <2>4. RateIsLog'
    BY <1>2, RateDecision
  <2>5. RateHolds'
    BY <1>2, RateNext
  <2>6. NoEarlyRepeat'
    BY <1>2, RepeatNext
  <2> QED BY <2>1, <2>2, <2>3, <2>4, <2>5, <2>6
<1> QED BY <1>1, <1>2 DEF GateNext

LEMMA GateInvariant == GateSpec => []GateInv
BY GateInvInit, GateInvNext, PTL DEF GateSpec

(* The type invariant: the queue of ids and the windows keep within their   *)
(* caps (_remember, _evict_stale_windows, _drop_lru_window).                *)
THEOREM GateTypeCorrect == GateSpec => []GateTypeOK
<1>1. GateInv => GateTypeOK
  BY DEF GateInv
<1> QED BY <1>1, GateInvariant, PTL

(* At most RateLimit of a sender's messages are forwarded in any window of  *)
(* time in which its count is not dropped (_SlidingWindow.allow).           *)
THEOREM RateLimited == GateSpec => []RateHolds
<1>1. GateInv => RateHolds
  BY DEF GateInv
<1> QED BY <1>1, GateInvariant, PTL

(* A repeated id is forwarded only after the window, or after DedupMax      *)
(* other ids (_prune_dedup, _remember).                                     *)
THEOREM RepeatsDropped == GateSpec => []NoEarlyRepeat
<1>1. GateInv => NoEarlyRepeat
  BY DEF GateInv
<1> QED BY <1>1, GateInvariant, PTL

(* The window that is dropped is one Admission may forget. *)
LEMMA DroppedMayBeForgotten ==
    ASSUME GateInv, NEW s \in Senders, RateLimit > 0, NEW u \in LeastRecent(FreshWindows),
           s \notin FreshWindows, Cardinality(FreshWindows) >= MaxSenders
    PROVE  u \in Senders /\ Log!MayForget(u, s)
<1> USE DEF GateInv
<1>1. u \in FreshWindows /\ \A x \in FreshWindows : windows[u].last_touch <= windows[x].last_touch
  BY DEF LeastRecent
<1>2. \A x \in FreshWindows :
          /\ x \in DOMAIN windows /\ x \in Senders
          /\ windows[x].last_touch \in Nat
          /\ windows[x].last_touch >= clock - 2 * RateWindow
          /\ LastTouch(x, windows[x].last_touch)
  <2> SUFFICES ASSUME NEW x \in FreshWindows
               PROVE  /\ x \in DOMAIN windows /\ x \in Senders
                      /\ windows[x].last_touch \in Nat
                      /\ windows[x].last_touch >= clock - 2 * RateWindow
                      /\ LastTouch(x, windows[x].last_touch)
    OBVIOUS
  <2>1. x \in DOMAIN windows /\ windows[x].last_touch >= clock - 2 * RateWindow
    BY DEF FreshWindows
  <2>2. x \in Senders /\ windows[x].last_touch \in Nat
    BY <2>1, WindowTyped
  <2>3. LastTouch(x, windows[x].last_touch)
    BY <2>1, <2>2 DEF RateIsLog, WindowIsLog
  <2> QED BY <2>1, <2>2, <2>3
<1>3. u # s /\ u \in Senders
  BY <1>1, <1>2
<1>4. Log!RecentlyActive(u)
  <2>1. PICK i \in Log!Touches(u) : log[i].at = windows[u].last_touch
    BY <1>1, <1>2 DEF LastTouch
  <2> QED BY <1>1, <1>2, <2>1 DEF Log!RecentlyActive
<1> DEFINE later == {x \in Senders \ {s, u} :
                        \E i \in Log!Touches(x) : \A j \in Log!Touches(u) : log[j].at <= log[i].at}
<1>5. FreshWindows \ {u} \subseteq later
  <2> SUFFICES ASSUME NEW x \in FreshWindows, x # u PROVE x \in later
    OBVIOUS
  <2>1. PICK i \in Log!Touches(x) : log[i].at = windows[x].last_touch
    BY <1>2 DEF LastTouch
  <2>2. ASSUME NEW j \in Log!Touches(u) PROVE log[j].at <= log[i].at
    <3>1. log[j].at \in Nat /\ log[j].at <= windows[u].last_touch
      BY <1>1, <1>2, <1>3, SentIs DEF LastTouch
    <3>2. windows[u].last_touch <= windows[x].last_touch
      BY <1>1
    <3> QED BY <1>1, <1>2, <2>1, <3>1, <3>2
  <2> QED BY <1>2, <2>2
<1>6. IsFiniteSet(later)
  <2> DEFINE who == [i \in 1 .. Len(log) |-> log[i].sender]
             senders == {log[i].sender : i \in 1 .. Len(log)}
  <2>1. who \in Surjection(1 .. Len(log), senders)
    BY DEF Surjection
  <2>2. IsFiniteSet(1 .. Len(log))
    BY LogTyped, FS_Interval
  <2>3. later \in SUBSET senders
    BY SentIs
  <2> HIDE DEF who, senders, later
  <2>4. IsFiniteSet(senders)
    BY <2>1, <2>2, FS_Surjection
  <2> QED BY <2>3, <2>4, FS_Subset
<1>7. Cardinality(later) >= MaxSenders - 1
  <2>1. /\ IsFiniteSet(FreshWindows \ {u})
        /\ Cardinality(FreshWindows \ {u}) = Cardinality(FreshWindows) - 1
        /\ Cardinality(FreshWindows) \in Nat
    BY <1>1, FreshFinite, FS_RemoveElement
  <2>2. FreshWindows \ {u} \in SUBSET later
    BY <1>5
  <2> HIDE DEF later
  <2>3. Cardinality(FreshWindows \ {u}) <= Cardinality(later)
    BY <1>6, <2>2, FS_Subset
  <2>4. Cardinality(later) \in Nat
    BY <1>6, FS_CardinalityType
  <2> QED BY <2>1, <2>3, <2>4, Constants
<1> QED BY <1>3, <1>4, <1>7, SameCardinality DEF Log!MayForget

(* Every step of the gate is one of Admission. *)
LEMMA DecisionDecides ==
    ASSUME GateInv, NEW m \in Message, Reject(m) \/ Admit(m)
    PROVE  Log!Decide(m.id, m.sender)
<1> USE DEF GateInv
<1>1. PICK e : Decided(e) /\ e.id = m.id /\ e.sender = m.sender /\ e.verdict = VerdictOf(m)
  BY DecisionIs
<1>2. m.sender \in Senders
  BY DEF Message
<1>3. Log!Verdict(m.id, m.sender) = VerdictOf(m)
  BY VerdictIs DEF VerdictOf
<1>4. e = [id |-> m.id, sender |-> m.sender, at |-> clock, verdict |-> VerdictOf(m)]
  BY <1>1 DEF Decided, Entry
<1>5. /\ log' = Append(log, [id |-> m.id, sender |-> m.sender, at |-> clock,
                             verdict |-> Log!Verdict(m.id, m.sender)])
      /\ clock' = clock
  BY <1>1, <1>3, <1>4 DEF Decided
<1>6. \/ UNCHANGED since
      \/ \E u \in Senders : Log!MayForget(u, m.sender) /\ since' = [since EXCEPT ![u] = Len(log)]
  <2>1. CASE RateLimit = 0 \/ Reject(m)
    BY <2>1 DEF Reject, Admit
  <2>2. CASE RateLimit # 0 /\ Admit(m)
    <3>1. PICK dropped \in Dropped(m.sender) :
             since' = [x \in Senders |-> IF x \in dropped THEN Len(log) ELSE since[x]]
      BY <2>2 DEF Admit
    <3>2. since = [x \in Senders |-> since[x]]
      BY DEF GateTypeOK
    <3>3. CASE dropped = {}
      BY <3>1, <3>2, <3>3
    <3>4. CASE dropped # {}
      <4>1. PICK u \in LeastRecent(FreshWindows) :
               /\ dropped = {u} /\ m.sender \notin FreshWindows
               /\ Cardinality(FreshWindows) >= MaxSenders
        BY <3>4, RoomIsMade
      <4>2. RateLimit > 0
        BY <2>2, Constants
      <4>3. u \in Senders /\ Log!MayForget(u, m.sender)
        BY <1>2, <4>1, <4>2, DroppedMayBeForgotten
      <4>4. since' = [since EXCEPT ![u] = Len(log)]
        BY <3>1, <3>2, <4>1, <4>3
      <4> QED BY <4>3, <4>4
    <3> QED BY <3>3, <3>4
  <2> QED BY <2>1, <2>2
<1> QED BY <1>5, <1>6 DEF Log!Decide

(* The gate, with a bounded memory, decides every message as Admission does *)
(* from the full log: for any senders, ids, limits and windows, and however *)
(* long it runs.                                                            *)
THEOREM GateImplementsAdmission == GateSpec => AdmissionSpec
<1>1. GateInit => Log!Init
  BY DEF GateInit, Log!Init
<1>2. GateInv /\ [GateNext]_gateVars => [Log!Next]_(Log!adVars)
  <2> SUFFICES ASSUME GateInv, [GateNext]_gateVars PROVE [Log!Next]_(Log!adVars)
    OBVIOUS
  <2>1. CASE UNCHANGED gateVars
    BY <2>1 DEF gateVars, Log!adVars
  <2>2. CASE Tick
    BY <2>2 DEF Tick, Log!Tick, Log!Next
  <2>3. ASSUME NEW m \in Message, Reject(m) \/ Admit(m) PROVE Log!Next
    <3>1. Log!Decide(m.id, m.sender)
      BY <2>3, DecisionDecides
    <3>2. m.id \in Ids \cup {NoId} /\ m.sender \in Senders
      BY DEF Message
    <3> QED BY <3>1, <3>2 DEF Log!Next
  <2> QED BY <2>1, <2>2, <2>3 DEF GateNext
<1> QED BY <1>1, <1>2, GateInvariant, PTL DEF GateSpec, AdmissionSpec, Log!Spec

-----------------------------------------------------------------------------

USE DispatcherAssumption

FileIsPortals ==
    \A a \in Asks : decisions[a] = "allow" => portal[<<a, "allow">>] = "written"

InflightIsLive ==
    ~ closed =>
        \A i \in Turns :
            /\ ~ turns[i].cancel
            /\ turns[i].pc # "done" => inflight[turns[i].key] = i
            /\ turns[i].live => turns[i].pc # "done"

IInv ==
    /\ TypeOK
    /\ FileIsPortals
    /\ AllowOnlyByPortal
    /\ InflightIsLive
    /\ TurnLeavesNothing

-----------------------------------------------------------------------------
(* What a turn is, and what a step that replaces turn i by t changes. *)

LEMMA TurnTyped ==
    ASSUME TypeOK
    PROVE  /\ turns \in Seq(Turn) /\ Len(turns) \in Nat /\ Len(turns) <= MaxMessages
           /\ \A i \in Turns : turns[i] \in Turn /\ i \in 1 .. MaxMessages
<1>1. turns \in Seq(Turn) /\ Len(turns) <= MaxMessages
  BY DEF TypeOK
<1>2. Len(turns) \in Nat
  BY <1>1
<1> QED BY <1>1, <1>2 DEF Turns

LEMMA TurnReplaced ==
    ASSUME TypeOK, NEW i \in Turns, NEW t \in Turn,
           turns' = [turns EXCEPT ![i] = t]
    PROVE  /\ turns' \in Seq(Turn) /\ Len(turns') = Len(turns)
           /\ Turns' = Turns
           /\ \A j \in Turns : turns'[j] = IF j = i THEN t ELSE turns[j]
<1>1. turns \in Seq(Turn)
  BY TurnTyped
<1> QED BY <1>1 DEF Turns

(* What every step of a turn, or its agent's end, does to the turn: t. *)
Progress(i, t) ==
    /\ t.key = turns[i].key
    /\ t.cancel => turns[i].cancel
    /\ turns[i].pc = "done" =>
          t.pc = "done" /\ t.live = turns[i].live /\ t.cancel = turns[i].cancel
    /\ (turns[i].pc # "done" /\ t.pc = "done" /\ t.live) => t.cancel

LEMMA TurnProgress ==
    ASSUME TypeOK, NEW i \in Turns, TurnStep(i) \/ AgentEnds(i)
    PROVE  \E t \in Turn : turns' = [turns EXCEPT ![i] = t] /\ Progress(i, t)
<1>1. turns[i] \in Turn /\ turns \in Seq(Turn)
  BY TurnTyped
<1> DEFINE u == turns[i]
<1>2. CASE TurnBegins(i)
  <2>1. CASE u.cancel
    <3>1. [u EXCEPT !.pc = "done"] \in Turn /\ Progress(i, [u EXCEPT !.pc = "done"])
      BY <1>1, <1>2, <2>1 DEF Turn, Progress, TurnBegins
    <3> QED BY <1>1, <1>2, <2>1, <3>1 DEF TurnBegins
  <2>2. CASE ~ u.cancel
    <3> DEFINE t == [u EXCEPT !.pc = "waiting", !.live = TRUE]
    <3>1. t \in Turn /\ Progress(i, t)
      BY <1>1, <1>2, <2>2 DEF Turn, Progress, TurnBegins
    <3>2. turns' = [turns EXCEPT ![i] = t]
      BY <1>1, <1>2, <2>2 DEF TurnBegins
    <3> QED BY <3>1, <3>2
  <2> QED BY <2>1, <2>2
<1>3. CASE WaitEnds(i)
  <2> DEFINE t == [u EXCEPT !.pc = "sending"]
  <2>1. t \in Turn /\ Progress(i, t)
    BY <1>1, <1>3 DEF Turn, Progress, WaitEnds, At
  <2>2. turns' = [turns EXCEPT ![i] = t]
    BY <1>1, <1>3 DEF WaitEnds
  <2> QED BY <2>1, <2>2
<1>4. CASE SendEnds(i)
  <2> DEFINE t == [u EXCEPT !.pc = "unwinding", !.cancel = FALSE]
  <2>1. t \in Turn /\ Progress(i, t)
    BY <1>1, <1>4 DEF Turn, Progress, SendEnds, At
  <2>2. turns' = [turns EXCEPT ![i] = t]
    BY <1>1, <1>4 DEF SendEnds, Unwind
  <2> QED BY <2>1, <2>2
<1>5. CASE UnwindCancelled(i)
  <2> DEFINE t == [u EXCEPT !.cancel = FALSE]
  <2>1. t \in Turn /\ Progress(i, t)
    BY <1>1, <1>5 DEF Turn, Progress, UnwindCancelled
  <2>2. turns' = [turns EXCEPT ![i] = t]
    BY <1>1, <1>5 DEF UnwindCancelled
  <2> QED BY <2>1, <2>2
<1>6. CASE UnwindEnds(i)
  <2> DEFINE t == [u EXCEPT !.pc = "closing"]
  <2>1. t \in Turn /\ Progress(i, t)
    BY <1>1, <1>6 DEF Turn, Progress, UnwindEnds
  <2>2. turns' = [turns EXCEPT ![i] = t]
    BY <1>1, <1>6 DEF UnwindEnds
  <2> QED BY <2>1, <2>2
<1>7. CASE CloseEnds(i)
  <2>1. PICK left \in LeftLive(i) :
           turns' = [turns EXCEPT ![i].pc = "done", ![i].live = left]
    BY <1>7 DEF CloseEnds
  <2>2. left \in BOOLEAN /\ (left => u.cancel)
    BY <2>1 DEF LeftLive
  <2> DEFINE t == [u EXCEPT !.pc = "done", !.live = left]
  <2>3. t \in Turn /\ Progress(i, t)
    BY <1>1, <1>7, <2>2 DEF Turn, Progress, CloseEnds
  <2>4. turns' = [turns EXCEPT ![i] = t]
    BY <1>1, <2>1
  <2> QED BY <2>3, <2>4
<1>8. CASE AgentEnds(i)
  <2> DEFINE t == [u EXCEPT !.ended = TRUE]
  <2>1. t \in Turn /\ Progress(i, t)
    BY <1>1, <1>8 DEF Turn, Progress, AgentEnds
  <2>2. turns' = [turns EXCEPT ![i] = t]
    BY <1>1, <1>8 DEF AgentEnds
  <2> QED BY <2>1, <2>2
<1> QED BY <1>2, <1>3, <1>4, <1>5, <1>6, <1>7, <1>8 DEF TurnStep

-----------------------------------------------------------------------------
(* Requests. *)

(* A step that raises no request. *)
NothingRaised ==
    /\ asks' \in [Asks -> Ask]
    /\ \A a \in Asks :
        /\ asks'[a].turn = asks[a].turn
        /\ asks'[a].state = "open" => asks[a].state = "open"
        /\ asks'[a].state = "allow" => asks[a].state = "allow" \/ decisions[a] = "allow"

LEMMA NothingRaisedUnchanged ==
    ASSUME TypeOK, UNCHANGED asks
    PROVE  NothingRaised
BY DEF TypeOK, NothingRaised

LEMMA TurnRaisesNothing ==
    ASSUME TypeOK, NEW i \in Turns, TurnStep(i) \/ AgentEnds(i)
    PROVE  NothingRaised
<1>1. CASE UnwindEnds(i)
  BY <1>1 DEF UnwindEnds, DenyOpen, TypeOK, Ask, Decisions, NothingRaised
<1>2. CASE CloseEnds(i)
  <2>1. PICK left \in LeftLive(i) :
           asks' = [a \in Asks |-> IF a \in AsksOf(i) /\ asks[a].state = "open" /\ ~ left
                                   THEN [asks[a] EXCEPT !.state = "dropped"] ELSE asks[a]]
    BY <1>2 DEF CloseEnds
  <2>2. ASSUME NEW a \in Asks
        PROVE  /\ asks'[a] \in Ask /\ asks'[a].turn = asks[a].turn
               /\ asks'[a] = asks[a] \/ asks'[a].state = "dropped"
    <3>1. asks[a] \in Ask
      BY DEF TypeOK
    <3>2. asks'[a] = asks[a] \/ asks'[a] = [asks[a] EXCEPT !.state = "dropped"]
      BY <2>1
    <3> QED BY <3>1, <3>2 DEF Ask
  <2>3. asks' \in [Asks -> Ask]
    BY <2>1, <2>2
  <2> QED BY <2>2, <2>3 DEF NothingRaised
<1>3. CASE ~ UnwindEnds(i) /\ ~ CloseEnds(i)
  <2>1. UNCHANGED asks
    BY <1>3 DEF TurnStep, TurnBegins, WaitEnds, SendEnds, UnwindCancelled, AgentEnds
  <2> QED BY <2>1, NothingRaisedUnchanged
<1> QED BY <1>1, <1>2, <1>3

LEMMA SettleTyped ==
    ASSUME TypeOK, NEW a \in Asks, NEW d \in Decisions, Settle(a, d),
           d = "allow" => decisions[a] = "allow"
    PROVE  /\ NothingRaised
           /\ relays' \in [Asks -> Relay]
           /\ requests' \in SUBSET Asks
           /\ decisions' \in [Asks -> Decisions \cup {"none"}]
           /\ \A b \in Asks : decisions'[b] = "allow" => decisions[b] = "allow"
<1>1. NothingRaised
  <2>1. CASE asks[a].state = "open"
    <3> DEFINE u == [asks[a] EXCEPT !.state = d]
    <3>1. asks[a] \in Ask
      BY DEF TypeOK
    <3>2. u \in Ask /\ u.turn = asks[a].turn /\ u.state = d
      BY <3>1 DEF Ask
    <3>3. asks' = [asks EXCEPT ![a] = u]
      BY <2>1 DEF Settle
    <3> HIDE DEF u
    <3> QED BY <3>2, <3>3 DEF TypeOK, Decisions, NothingRaised
  <2>2. CASE asks[a].state # "open"
    BY <2>2, NothingRaisedUnchanged DEF Settle
  <2> QED BY <2>1, <2>2
<1>2. relays' \in [Asks -> Relay]
  BY DEF Settle, TypeOK, Relay
<1>3. /\ requests' \in SUBSET Asks
      /\ decisions' \in [Asks -> Decisions \cup {"none"}]
      /\ \A b \in Asks : decisions'[b] = "allow" => decisions[b] = "allow"
  BY DEF Settle, TypeOK
<1> QED BY <1>1, <1>2, <1>3

LEMMA RelayTyped ==
    ASSUME TypeOK, NEW a \in Asks, RelayStep(a)
    PROVE  /\ NothingRaised
           /\ relays' \in [Asks -> Relay]
           /\ requests' \in SUBSET Asks
           /\ decisions' \in [Asks -> Decisions \cup {"none"}]
           /\ \A b \in Asks : decisions'[b] = "allow" => decisions[b] = "allow"
           /\ UNCHANGED <<turns, inflight, portal, closed, refused, replies>>
<1>1. CASE RelayBegins(a)
  <2>1. UNCHANGED <<turns, inflight, asks, decisions, portal, closed, refused, replies>>
    BY <1>1 DEF RelayBegins
  <2>2. relays' \in [Asks -> Relay]
    BY <1>1 DEF RelayBegins, TypeOK, Relay
  <2>3. requests' = requests \/ requests' = requests \cup {a}
    BY <1>1 DEF RelayBegins
  <2>4. requests' \in SUBSET Asks
    BY <2>3 DEF TypeOK
  <2> QED BY <2>1, <2>2, <2>4, NothingRaisedUnchanged DEF TypeOK
<1>2. CASE RelayPolls(a)
  <2>1. decisions[a] \in Decisions /\ Settle(a, decisions[a])
    BY <1>2 DEF RelayPolls, TypeOK
  <2>2. UNCHANGED <<turns, inflight, portal, closed, refused, replies>>
    BY <1>2 DEF RelayPolls
  <2> QED BY <2>1, <2>2, SettleTyped
<1>3. CASE RelayGivesUp(a)
  <2>1. "deny" \in Decisions /\ Settle(a, "deny")
    BY <1>3 DEF RelayGivesUp, Decisions
  <2>2. UNCHANGED <<turns, inflight, portal, closed, refused, replies>>
    BY <1>3 DEF RelayGivesUp
  <2> QED BY <2>1, <2>2, SettleTyped
<1> QED BY <1>1, <1>2, <1>3 DEF RelayStep

-----------------------------------------------------------------------------
(* Types. *)

LEMMA TypeInit == Init => TypeOK
<1> SUFFICES ASSUME Init PROVE TypeOK
  OBVIOUS
<1>1. turns \in Seq(Turn) /\ Len(turns) <= MaxMessages
  BY DEF Init
<1>2. asks \in [Asks -> Ask] /\ relays \in [Asks -> Relay]
  BY DEF Init, Ask, Relay
<1>3. /\ inflight \in [Keys -> 0 .. MaxMessages]
      /\ replies \in [1 .. MaxMessages -> Nat]
  BY DEF Init
<1>4. /\ decisions \in [Asks -> Decisions \cup {"none"}]
      /\ portal \in [Asks \X Decisions -> {"idle", "checked", "written"}]
  BY DEF Init
<1> QED BY <1>1, <1>2, <1>3, <1>4 DEF Init, TypeOK

LEMMA TypeTurn ==
    ASSUME TypeOK, NEW i \in Turns, TurnStep(i) \/ AgentEnds(i)
    PROVE  TypeOK'
<1>1. turns' \in Seq(Turn) /\ Len(turns') <= MaxMessages
  <2>1. turns' \in Seq(Turn) /\ Len(turns') = Len(turns)
    BY TurnProgress, TurnReplaced
  <2> QED BY <2>1, TurnTyped
<1>2. asks' \in [Asks -> Ask]
  BY TurnRaisesNothing DEF NothingRaised
<1>3. turns[i] \in Turn /\ i \in 1 .. MaxMessages
  BY TurnTyped
<1>4. inflight' \in [Keys -> 0 .. MaxMessages]
  <2>1. inflight' = inflight \/ inflight' = Released(i)
    BY DEF TurnStep, TurnBegins, WaitEnds, SendEnds, UnwindCancelled, UnwindEnds,
           CloseEnds, AgentEnds
  <2> QED BY <2>1 DEF Released, TypeOK
<1>5. relays' \in [Asks -> Relay]
  <2>1. CASE SendEnds(i)
    BY <2>1 DEF SendEnds, Unwind, TypeOK, Relay
  <2>2. CASE UnwindCancelled(i)
    BY <2>2 DEF UnwindCancelled, TypeOK, Relay
  <2>3. CASE ~ SendEnds(i) /\ ~ UnwindCancelled(i)
    <3>1. UNCHANGED relays
      BY <2>3 DEF TurnStep, TurnBegins, WaitEnds, UnwindEnds, CloseEnds, AgentEnds
    <3> QED BY <3>1 DEF TypeOK
  <2> QED BY <2>1, <2>2, <2>3
<1>6. replies' \in [1 .. MaxMessages -> Nat]
  <2>1. CASE WaitEnds(i)
    <3>1. replies[i] + 1 \in Nat
      BY <1>3 DEF TypeOK
    <3> QED BY <1>3, <2>1, <3>1 DEF WaitEnds, TypeOK
  <2>2. CASE ~ WaitEnds(i)
    <3>1. UNCHANGED replies
      BY <2>2 DEF TurnStep, TurnBegins, SendEnds, UnwindCancelled, UnwindEnds,
         CloseEnds, AgentEnds
    <3> QED BY <3>1 DEF TypeOK
  <2> QED BY <2>1, <2>2
<1>7. UNCHANGED <<fileVars, portal, closed, refused>>
  BY DEF TurnStep, TurnBegins, WaitEnds, SendEnds, UnwindCancelled, UnwindEnds,
         CloseEnds, AgentEnds
<1> QED BY <1>1, <1>2, <1>4, <1>5, <1>6, <1>7 DEF TypeOK, fileVars

(* handle_message adds a turn at the end. *)
LEMMA Accepted ==
    ASSUME TypeOK, NEW k \in Keys, Accept(k)
    PROVE  \E t \in Turn :
             /\ t.key = k /\ t.pc = "new" /\ ~ t.cancel /\ ~ t.live
             /\ turns' = Append(turns, t)
             /\ turns' \in Seq(Turn) /\ Len(turns') <= MaxMessages
             /\ Len(turns) + 1 \in 1 .. MaxMessages
             /\ Turns' = Turns \cup {Len(turns) + 1}
             /\ \A j \in Turns : turns'[j] = turns[j] /\ j # Len(turns) + 1
             /\ turns'[Len(turns) + 1] = t
<1> DEFINE t == [key |-> k, pc |-> "new", cancel |-> FALSE,
                 ended |-> FALSE, live |-> FALSE]
<1>1. t \in Turn /\ t.key = k /\ t.pc = "new" /\ ~ t.cancel /\ ~ t.live
  BY DEF Turn
<1>2. turns' = Append(turns, t) /\ Len(turns) < MaxMessages
  BY DEF Accept
<1>3. turns \in Seq(Turn) /\ Len(turns) \in Nat
  BY TurnTyped
<1> HIDE DEF t
<1>4. /\ turns' \in Seq(Turn) /\ Len(turns') = Len(turns) + 1
      /\ \A j \in 1 .. Len(turns) : turns'[j] = turns[j]
      /\ turns'[Len(turns) + 1] = t
  BY <1>1, <1>2, <1>3
<1>5. Turns' = Turns \cup {Len(turns) + 1} /\ \A j \in Turns : j # Len(turns) + 1
  BY <1>3, <1>4 DEF Turns
<1> QED BY <1>1, <1>2, <1>3, <1>4, <1>5 DEF Turns

(* aclose() requests the cancel of turns, and of those only that go on. *)
LEMMA Cancelled ==
    ASSUME TypeOK, AClose
    PROVE  /\ turns' \in Seq(Turn) /\ Len(turns') = Len(turns) /\ Turns' = Turns
           /\ \A j \in Turns :
                /\ turns'[j].key = turns[j].key /\ turns'[j].pc = turns[j].pc
                /\ turns'[j].live = turns[j].live
                /\ turns[j].pc = "done" => turns'[j].cancel = turns[j].cancel
<1>1. turns \in Seq(Turn) /\ \A j \in Turns : turns[j] \in Turn
  BY TurnTyped
<1>2. turns' = [i \in Turns |->
                   IF turns[i].pc # "done" /\ inflight[turns[i].key] = i
                   THEN [turns[i] EXCEPT !.cancel = TRUE] ELSE turns[i]]
  BY DEF AClose
<1>3. \A j \in Turns : turns'[j] \in Turn
  BY <1>1, <1>2 DEF Turn
<1>4. turns' \in [1 .. Len(turns) -> Turn]
  BY <1>2, <1>3 DEF Turns
<1>5. turns' \in Seq(Turn) /\ Len(turns') = Len(turns)
  BY <1>1, <1>4
<1> QED BY <1>1, <1>2, <1>5 DEF Turn, Turns

LEMMA TypeNext == TypeOK /\ [Next]_vars => TypeOK'
<1> SUFFICES ASSUME TypeOK, [Next]_vars PROVE TypeOK'
  OBVIOUS
<1>1. CASE UNCHANGED vars
  BY <1>1 DEF TypeOK, vars, fileVars
<1>2. ASSUME NEW k \in Keys, Accept(k) PROVE TypeOK'
  <2>1. /\ turns' \in Seq(Turn) /\ Len(turns') <= MaxMessages
        /\ Len(turns) + 1 \in 1 .. MaxMessages
    BY <1>2, Accepted
  <2>2. inflight' \in [Keys -> 0 .. MaxMessages]
    BY <1>2, <2>1 DEF Accept, TypeOK
  <2> QED BY <1>2, <2>1, <2>2 DEF Accept, TypeOK, fileVars
<1>3. ASSUME NEW k \in Keys, Refuse(k) PROVE TypeOK'
  BY <1>3 DEF Refuse, TypeOK, fileVars
<1>4. ASSUME NEW i \in Turns, TurnStep(i) \/ AgentEnds(i) PROVE TypeOK'
  BY <1>4, TypeTurn
<1>5. ASSUME NEW i \in Turns, NEW a \in Asks, AskRaised(i, a) PROVE TypeOK'
  <2>1. i \in 0 .. MaxMessages
    BY TurnTyped
  <2>2. asks' \in [Asks -> Ask] /\ relays' \in [Asks -> Relay]
    BY <1>5, <2>1 DEF AskRaised, TypeOK, Ask, Relay
  <2> QED BY <1>5, <2>2 DEF AskRaised, TypeOK, fileVars
<1>6. ASSUME NEW a \in Asks, RelayStep(a) PROVE TypeOK'
  BY <1>6, RelayTyped DEF TypeOK, NothingRaised
<1>7. ASSUME NEW a \in Asks, AskTimesOut(a) PROVE TypeOK'
  BY <1>7 DEF AskTimesOut, TypeOK, Ask, Decisions, fileVars
<1>8. ASSUME NEW a \in Asks, NEW d \in Decisions, PortalChecks(a, d) \/ PortalWrites(a, d)
      PROVE  TypeOK'
  BY <1>8 DEF PortalChecks, PortalWrites, TypeOK, fileVars
<1>9. CASE AClose
  <2>1. turns' \in Seq(Turn) /\ Len(turns') = Len(turns)
    BY <1>9, Cancelled
  <2>2. inflight' \in [Keys -> 0 .. MaxMessages] /\ closed' \in BOOLEAN
    BY <1>9 DEF AClose
  <2> QED BY <1>9, <2>1, <2>2 DEF AClose, TypeOK, fileVars
<1> QED BY <1>1, <1>2, <1>3, <1>4, <1>5, <1>6, <1>7, <1>8, <1>9 DEF Next
-----------------------------------------------------------------------------
(* What a turn that is over leaves. *)

LEMMA LeavesTurn ==
    ASSUME TypeOK, TurnLeavesNothing, NEW i \in Turns, TurnStep(i) \/ AgentEnds(i)
    PROVE  TurnLeavesNothing'
<1>1. PICK t \in Turn : turns' = [turns EXCEPT ![i] = t] /\ Progress(i, t)
  BY TurnProgress
<1>2. Turns' = Turns /\ \A j \in Turns : turns'[j] = IF j = i THEN t ELSE turns[j]
  BY <1>1, TurnReplaced
<1>3. NothingRaised
  BY TurnRaisesNothing
<1>4. SUFFICES ASSUME NEW j \in Turns, turns'[j].pc = "done", ~ turns'[j].cancel
               PROVE  ~ turns'[j].live /\ \A a \in AsksOf(j)' : asks'[a].state # "open"
  BY <1>2 DEF TurnLeavesNothing
<1>5. \A a \in Asks : a \in AsksOf(j)' => a \in AsksOf(j)
  BY <1>3 DEF NothingRaised, AsksOf
<1>6. CASE turns[j].pc = "done" /\ ~ turns[j].cancel
  <2>1. ~ turns[j].live /\ \A a \in AsksOf(j) : asks[a].state # "open"
    BY <1>6 DEF TurnLeavesNothing
  <2>2. turns'[j].live = turns[j].live
    BY <1>1, <1>2, <1>6 DEF Progress
  <2> QED BY <1>3, <1>5, <2>1, <2>2 DEF NothingRaised, AsksOf
<1>7. CASE ~ (turns[j].pc = "done" /\ ~ turns[j].cancel)
  <2>1. j = i /\ turns[i].pc # "done" /\ ~ t.live
    BY <1>1, <1>2, <1>4, <1>7 DEF Progress
  <2>2. CASE CloseEnds(i)
    <3>1. PICK left \in LeftLive(i) :
             /\ turns' = [turns EXCEPT ![i].pc = "done", ![i].live = left]
             /\ asks' = [a \in Asks |->
                           IF a \in AsksOf(i) /\ asks[a].state = "open" /\ ~ left
                           THEN [asks[a] EXCEPT !.state = "dropped"] ELSE asks[a]]
      BY <2>2 DEF CloseEnds
    <3>2. turns \in Seq(Turn) /\ turns[i] \in Turn /\ i \in 1 .. Len(turns)
      BY TurnTyped DEF Turns
    <3>3. turns'[i].live = left
      BY <3>1, <3>2 DEF Turn
    <3>4. ~ left
      BY <1>2, <2>1, <3>3
    <3>5. ASSUME NEW a \in Asks, a \in AsksOf(i) PROVE asks'[a].state # "open"
      <4>1. asks[a] \in Ask
        BY DEF TypeOK
      <4>2. CASE asks[a].state = "open"
        <5>1. asks'[a] = [asks[a] EXCEPT !.state = "dropped"]
          BY <3>1, <3>4, <3>5, <4>2
        <5> QED BY <4>1, <5>1 DEF Ask
      <4>3. CASE asks[a].state # "open"
        BY <1>3, <4>3 DEF NothingRaised
      <4> QED BY <4>2, <4>3
    <3> QED BY <1>2, <1>5, <2>1, <3>5 DEF AsksOf
  <2>3. CASE TurnBegins(i)
    <3>1. turns \in Seq(Turn) /\ turns[i] \in Turn /\ i \in 1 .. Len(turns)
      BY TurnTyped DEF Turns
    <3>2. turns'[i].cancel = turns[i].cancel
      BY <2>3, <3>1 DEF TurnBegins, Turn
    <3>3. turns'[i].pc = "waiting" \/ turns[i].cancel
      BY <2>3, <3>1 DEF TurnBegins, Turn
    <3> QED BY <1>4, <2>1, <3>2, <3>3
  <2>4. CASE ~ CloseEnds(i) /\ ~ TurnBegins(i)
    <3>1. turns \in Seq(Turn) /\ turns[i] \in Turn /\ i \in 1 .. Len(turns)
      BY TurnTyped DEF Turns
    <3>2. turns'[i].pc # "done"
      BY <2>1, <2>4, <3>1
      DEF TurnStep, WaitEnds, SendEnds, Unwind, UnwindCancelled, UnwindEnds, AgentEnds, Turn
    <3> QED BY <1>4, <2>1, <3>2
  <2> QED BY <2>2, <2>3, <2>4
<1> QED BY <1>6, <1>7

LEMMA LeavesNext == TypeOK /\ TurnLeavesNothing /\ [Next]_vars => TurnLeavesNothing'
<1> SUFFICES ASSUME TypeOK, TurnLeavesNothing, [Next]_vars PROVE TurnLeavesNothing'
  OBVIOUS
<1>1. CASE UNCHANGED turns /\ NothingRaised
  BY <1>1 DEF TurnLeavesNothing, Turns, AsksOf, NothingRaised
<1>2. CASE UNCHANGED vars
  BY <1>1, <1>2, NothingRaisedUnchanged DEF vars
<1>3. ASSUME NEW k \in Keys, Accept(k) PROVE TurnLeavesNothing'
  <2>1. UNCHANGED asks
    BY <1>3 DEF Accept
  <2> QED BY <1>3, <2>1, Accepted DEF TurnLeavesNothing, AsksOf
<1>4. ASSUME NEW k \in Keys, Refuse(k) PROVE TurnLeavesNothing'
  BY <1>1, <1>4, NothingRaisedUnchanged DEF Refuse
<1>5. ASSUME NEW i \in Turns, TurnStep(i) \/ AgentEnds(i) PROVE TurnLeavesNothing'
  BY <1>5, LeavesTurn
<1>6. ASSUME NEW i \in Turns, NEW a \in Asks, AskRaised(i, a) PROVE TurnLeavesNothing'
  <2>1. turns[i].pc # "done" /\ UNCHANGED turns
    BY <1>6 DEF AskRaised
  <2>2. \A b \in Asks : asks'[b] = asks[b] \/ asks'[b].turn = i
    BY <1>6 DEF AskRaised, TypeOK
  <2> QED BY <2>1, <2>2 DEF TurnLeavesNothing, AsksOf, Turns
<1>7. ASSUME NEW a \in Asks, RelayStep(a) PROVE TurnLeavesNothing'
  BY <1>1, <1>7, RelayTyped
<1>8. ASSUME NEW a \in Asks, AskTimesOut(a) PROVE TurnLeavesNothing'
  <2>1. NothingRaised
    BY <1>8 DEF AskTimesOut, TypeOK, Ask, Decisions, NothingRaised
  <2> QED BY <1>1, <1>8, <2>1 DEF AskTimesOut
<1>9. ASSUME NEW a \in Asks, NEW d \in Decisions, PortalChecks(a, d) \/ PortalWrites(a, d)
      PROVE  TurnLeavesNothing'
  BY <1>1, <1>9, NothingRaisedUnchanged DEF PortalChecks, PortalWrites
<1>10. CASE AClose
  <2>1. UNCHANGED asks
    BY <1>10 DEF AClose
  <2> QED BY <1>10, <2>1, Cancelled DEF TurnLeavesNothing, AsksOf
<1> QED BY <1>2, <1>3, <1>4, <1>5, <1>6, <1>7, <1>8, <1>9, <1>10 DEF Next

-----------------------------------------------------------------------------
(* Who allows. *)

LEMMA AllowNext ==
    TypeOK /\ FileIsPortals /\ AllowOnlyByPortal /\ [Next]_vars
        => FileIsPortals' /\ AllowOnlyByPortal'
<1> SUFFICES ASSUME TypeOK, FileIsPortals, AllowOnlyByPortal, [Next]_vars
             PROVE  FileIsPortals' /\ AllowOnlyByPortal'
  OBVIOUS
<1>1. ASSUME NothingRaised, UNCHANGED portal,
             \A a \in Asks : decisions'[a] = "allow" => decisions[a] = "allow"
      PROVE  FileIsPortals' /\ AllowOnlyByPortal'
  BY <1>1 DEF FileIsPortals, AllowOnlyByPortal, NothingRaised
<1>2. CASE UNCHANGED vars
  BY <1>1, <1>2, NothingRaisedUnchanged DEF vars, fileVars
<1>3. ASSUME NEW k \in Keys, Accept(k) \/ Refuse(k)
      PROVE  FileIsPortals' /\ AllowOnlyByPortal'
  BY <1>1, <1>3, NothingRaisedUnchanged DEF Accept, Refuse, fileVars
<1>4. ASSUME NEW i \in Turns, TurnStep(i) \/ AgentEnds(i)
      PROVE  FileIsPortals' /\ AllowOnlyByPortal'
  <2>1. UNCHANGED <<fileVars, portal>>
    BY <1>4 DEF TurnStep, TurnBegins, WaitEnds, SendEnds, UnwindCancelled, UnwindEnds,
           CloseEnds, AgentEnds
  <2> QED BY <1>1, <1>4, <2>1, TurnRaisesNothing DEF fileVars
<1>5. ASSUME NEW i \in Turns, NEW a \in Asks, AskRaised(i, a)
      PROVE  FileIsPortals' /\ AllowOnlyByPortal'
  <2>1. \A b \in Asks : asks'[b] = asks[b] \/ asks'[b].state = "open"
    BY <1>5 DEF AskRaised, TypeOK
  <2> QED BY <1>5, <2>1 DEF AskRaised, fileVars, FileIsPortals, AllowOnlyByPortal
<1>6. ASSUME NEW a \in Asks, RelayStep(a) PROVE FileIsPortals' /\ AllowOnlyByPortal'
  BY <1>1, <1>6, RelayTyped
<1>7. ASSUME NEW a \in Asks, AskTimesOut(a) PROVE FileIsPortals' /\ AllowOnlyByPortal'
  <2>1. NothingRaised
    BY <1>7 DEF AskTimesOut, TypeOK, Ask, Decisions, NothingRaised
  <2> QED BY <1>1, <1>7, <2>1 DEF AskTimesOut, fileVars
<1>8. ASSUME NEW a \in Asks, NEW d \in Decisions, PortalChecks(a, d) \/ PortalWrites(a, d)
      PROVE  FileIsPortals' /\ AllowOnlyByPortal'
  <2>1. UNCHANGED asks /\ "allow" \in Decisions
    BY <1>8 DEF PortalChecks, PortalWrites, Decisions
  <2>2. ASSUME NEW b \in Asks, portal[<<b, "allow">>] = "written"
        PROVE  portal'[<<b, "allow">>] = "written"
    <3>1. portal[<<a, d>>] # "written"
      BY <1>8 DEF PortalChecks, PortalWrites
    <3> DEFINE p == <<a, d>>
               q == <<b, "allow">>
    <3>2. p # q /\ p \in Asks \X Decisions /\ q \in Asks \X Decisions
      BY <2>1, <2>2, <3>1
    <3>3. \/ portal' = [portal EXCEPT ![p] = "checked"]
          \/ portal' = [portal EXCEPT ![p] = "written"]
      BY <1>8 DEF PortalChecks, PortalWrites
    <3>4. DOMAIN portal = Asks \X Decisions
      BY DEF TypeOK
    <3>5. portal[q] = "written"
      BY <2>2
    <3> HIDE DEF p, q
    <3>6. portal'[q] = "written"
      BY <3>2, <3>3, <3>4, <3>5
    <3> QED BY <3>6 DEF q
  <2>3. ASSUME NEW b \in Asks, decisions'[b] = "allow"
        PROVE  decisions[b] = "allow" \/ portal'[<<b, "allow">>] = "written"
    <3>1. CASE PortalChecks(a, d)
      BY <2>3, <3>1 DEF PortalChecks, fileVars
    <3>2. CASE PortalWrites(a, d)
      <4>1. CASE b = a
        <5>1. d = "allow"
          BY <2>3, <3>2, <4>1 DEF PortalWrites, TypeOK
        <5> QED BY <3>2, <4>1, <5>1 DEF PortalWrites, TypeOK
      <4>2. CASE b # a
        BY <2>3, <3>2, <4>2 DEF PortalWrites, TypeOK
      <4> QED BY <4>1, <4>2
    <3> QED BY <1>8, <3>1, <3>2
  <2> QED BY <2>1, <2>2, <2>3 DEF FileIsPortals, AllowOnlyByPortal
<1>9. CASE AClose
  BY <1>1, <1>9, NothingRaisedUnchanged DEF AClose, fileVars
<1> QED BY <1>2, <1>3, <1>4, <1>5, <1>6, <1>7, <1>8, <1>9 DEF Next
-----------------------------------------------------------------------------
(* Who is busy. *)

LEMMA InflightTurn ==
    ASSUME TypeOK, InflightIsLive, NEW i \in Turns, TurnStep(i) \/ AgentEnds(i)
    PROVE  InflightIsLive'
<1>1. PICK t \in Turn : turns' = [turns EXCEPT ![i] = t] /\ Progress(i, t)
  BY TurnProgress
<1>2. Turns' = Turns /\ \A j \in Turns : turns'[j] = IF j = i THEN t ELSE turns[j]
  BY <1>1, TurnReplaced
<1>3. turns \in Seq(Turn) /\ \A j \in Turns : turns[j] \in Turn
  BY TurnTyped
<1>4. UNCHANGED closed
  BY DEF TurnStep, TurnBegins, WaitEnds, SendEnds, UnwindCancelled, UnwindEnds,
         CloseEnds, AgentEnds
<1>5. SUFFICES ASSUME ~ closed, NEW j \in Turns
               PROVE  /\ ~ turns'[j].cancel
                      /\ turns'[j].pc # "done" => inflight'[turns'[j].key] = j
                      /\ turns'[j].live => turns'[j].pc # "done"
  BY <1>2, <1>4 DEF InflightIsLive
<1>6. /\ ~ turns[j].cancel /\ ~ turns[i].cancel
      /\ turns[j].pc # "done" => inflight[turns[j].key] = j
      /\ turns[j].live => turns[j].pc # "done"
      /\ turns[i].live => turns[i].pc # "done"
  BY <1>5 DEF InflightIsLive
<1>7. ~ turns'[j].cancel /\ turns'[j].key = turns[j].key
  BY <1>1, <1>2, <1>6 DEF Progress
<1>8. turns'[j].live => turns'[j].pc # "done"
  BY <1>1, <1>2, <1>6 DEF Progress
<1>9. ASSUME turns'[j].pc # "done" PROVE inflight'[turns[j].key] = j
  <2>1. turns[j].pc # "done" /\ inflight[turns[j].key] = j
    BY <1>1, <1>2, <1>6, <1>9 DEF Progress
  <2>2. CASE CloseEnds(i)
    <3>1. PICK left \in LeftLive(i) :
             turns' = [turns EXCEPT ![i].pc = "done", ![i].live = left]
      BY <2>2 DEF CloseEnds
    <3>2. i \in 1 .. Len(turns) /\ turns[i] \in Turn
      BY <1>3 DEF Turns
    <3>3. turns'[i].pc = "done"
      BY <1>3, <3>1, <3>2 DEF Turn
    <3>4. j # i
      BY <1>9, <3>3
    <3>5. turns[i].key \in Keys /\ turns[j].key \in Keys
      BY <1>3 DEF Turn
    <3> QED BY <2>1, <2>2, <3>4, <3>5 DEF CloseEnds, Released, TypeOK
  <2>3. CASE ~ CloseEnds(i)
    <3>1. UNCHANGED inflight
      BY <2>3 DEF TurnStep, TurnBegins, WaitEnds, SendEnds, UnwindCancelled, UnwindEnds,
         AgentEnds
    <3> QED BY <2>1, <3>1
  <2> QED BY <2>2, <2>3
<1> QED BY <1>7, <1>8, <1>9

LEMMA InflightNext == TypeOK /\ InflightIsLive /\ [Next]_vars => InflightIsLive'
<1> SUFFICES ASSUME TypeOK, InflightIsLive, [Next]_vars PROVE InflightIsLive'
  OBVIOUS
<1>1. CASE UNCHANGED <<turns, inflight, closed>>
  BY <1>1 DEF InflightIsLive, Turns
<1>2. ASSUME NEW k \in Keys, Accept(k) PROVE InflightIsLive'
  <2>1. PICK t \in Turn :
          /\ t.key = k /\ t.pc = "new" /\ ~ t.cancel /\ ~ t.live
          /\ Len(turns) + 1 \in 1 .. MaxMessages
          /\ Turns' = Turns \cup {Len(turns) + 1}
          /\ \A j \in Turns : turns'[j] = turns[j] /\ j # Len(turns) + 1
          /\ turns'[Len(turns) + 1] = t
    BY <1>2, Accepted
  <2>2. ~ closed /\ ~ Busy(k) /\ inflight' = [inflight EXCEPT ![k] = Len(turns) + 1]
    BY <1>2 DEF Accept
  <2>3. ASSUME NEW j \in Turns
        PROVE  /\ ~ turns[j].cancel
               /\ turns[j].pc # "done" => inflight'[turns[j].key] = j
               /\ turns[j].live => turns[j].pc # "done"
    <3>1. /\ ~ turns[j].cancel
          /\ turns[j].pc # "done" => inflight[turns[j].key] = j
          /\ turns[j].live => turns[j].pc # "done"
      BY <2>2 DEF InflightIsLive
    <3>2. turns[j].key \in Keys /\ j # 0
      BY TurnTyped DEF Turn, Turns
    <3>3. (turns[j].pc # "done" /\ turns[j].key = k) => Busy(k)
      BY <3>1, <3>2 DEF Busy
    <3> QED BY <2>2, <3>1, <3>2, <3>3 DEF TypeOK
  <2>4. inflight'[k] = Len(turns) + 1
    BY <2>2 DEF TypeOK
  <2> QED BY <2>1, <2>3, <2>4 DEF InflightIsLive
<1>3. ASSUME NEW i \in Turns, TurnStep(i) \/ AgentEnds(i) PROVE InflightIsLive'
  BY <1>3, InflightTurn
<1>4. ASSUME NEW a \in Asks, RelayStep(a) PROVE InflightIsLive'
  BY <1>1, <1>4, RelayTyped
<1>5. CASE \/ UNCHANGED vars
           \/ \E k \in Keys : Refuse(k)
           \/ \E i \in Turns : \E a \in Asks : AskRaised(i, a)
           \/ \E a \in Asks :
                AskTimesOut(a) \/ \E d \in Decisions : PortalChecks(a, d) \/ PortalWrites(a, d)
  BY <1>1, <1>5 DEF vars, Refuse, AskRaised, AskTimesOut, PortalChecks, PortalWrites
<1>6. CASE AClose
  BY <1>6 DEF AClose, InflightIsLive
<1> QED BY <1>2, <1>3, <1>4, <1>5, <1>6 DEF Next

-----------------------------------------------------------------------------
(* Theorems. *)

LEMMA IInvInit == Init => IInv
<1> SUFFICES ASSUME Init PROVE IInv
  OBVIOUS
<1>1. TypeOK
  BY TypeInit
<1>2. Turns = {}
  BY DEF Init, Turns
<1>3. FileIsPortals /\ AllowOnlyByPortal
  BY DEF Init, FileIsPortals, AllowOnlyByPortal
<1>4. InflightIsLive /\ TurnLeavesNothing
  BY <1>2 DEF InflightIsLive, TurnLeavesNothing
<1> QED BY <1>1, <1>3, <1>4 DEF IInv

LEMMA IInvNext == IInv /\ [Next]_vars => IInv'
BY TypeNext, AllowNext, InflightNext, LeavesNext DEF IInv

(* The tasks of dispatcher.py, the broker's requests and the approval files *)
(* have their types, for any number of conversations and messages.          *)
THEOREM TypeCorrect == Spec => []TypeOK
<1>1. IInv => TypeOK
  BY DEF IInv
<1> QED BY <1>1, IInvInit, IInvNext, PTL DEF Spec

(* A request of a channel's agent is allowed only by the portal's allow for *)
(* that request (_await_approval, ApprovalStore.decide), in whatever order  *)
(* the two processes, the deadlines and the shutdown act.                   *)
THEOREM AllowedByPortal == Spec => []AllowOnlyByPortal
<1>1. IInv => AllowOnlyByPortal
  BY DEF IInv
<1> QED BY <1>1, IInvInit, IInvNext, PTL DEF Spec

(* handle_message's test of _inflight, with the finally of _run_turn, keeps *)
(* a conversation from having two agents.                                   *)
THEOREM OneAgent == Spec => []OneAgentPerConversation
<1>1. IInv => OneAgentPerConversation
  <2> SUFFICES ASSUME TypeOK, InflightIsLive, ~ closed, NEW i \in Turns, NEW j \in Turns,
                      turns[i].live, turns[j].live, turns[i].key = turns[j].key
               PROVE  i = j
    BY DEF IInv, OneAgentPerConversation
  <2>1. inflight[turns[i].key] = i /\ inflight[turns[j].key] = j
    BY DEF InflightIsLive
  <2> QED BY <2>1
<1> QED BY <1>1, IInvInit, IInvNext, PTL DEF Spec

(* The finally of _run_turn and Session.close() leave neither an agent nor  *)
(* an open request of a turn that ends uncancelled.                         *)
THEOREM NothingLeft == Spec => []TurnLeavesNothing
<1>1. IInv => TurnLeavesNothing
  BY DEF IInv
<1> QED BY <1>1, IInvInit, IInvNext, PTL DEF Spec

(* A turn's message is answered once, when its wait ends; so a turn that    *)
(* waits no more has been answered, unless aclose() cut it short.           *)
AnsweredByWait ==
    \A i \in 1 .. MaxMessages :
        IF i \in Turns => turns[i].pc \in {"new", "waiting"}
        THEN replies[i] = 0
        ELSE replies[i] <= 1 /\ (~ closed => replies[i] = 1)

LEMMA AnsweredNext == TypeOK /\ InflightIsLive /\ AnsweredByWait /\ [Next]_vars => AnsweredByWait'
<1> SUFFICES ASSUME TypeOK, InflightIsLive, AnsweredByWait, [Next]_vars PROVE AnsweredByWait'
  OBVIOUS
<1>1. CASE UNCHANGED <<turns, closed, replies>>
  BY <1>1 DEF AnsweredByWait, Turns
<1>2. ASSUME NEW k \in Keys, Accept(k) PROVE AnsweredByWait'
  <2>1. PICK t \in Turn :
          /\ t.pc = "new"
          /\ Turns' = Turns \cup {Len(turns) + 1}
          /\ \A j \in Turns : turns'[j] = turns[j] /\ j # Len(turns) + 1
          /\ turns'[Len(turns) + 1] = t
    BY <1>2, Accepted
  <2>2. UNCHANGED <<closed, replies>>
    BY <1>2 DEF Accept
  <2>3. Len(turns) + 1 \notin Turns
    BY <2>1
  <2> QED BY <2>1, <2>2, <2>3 DEF AnsweredByWait
<1>3. ASSUME NEW i \in Turns, TurnStep(i) \/ AgentEnds(i) PROVE AnsweredByWait'
  <2>1. PICK t \in Turn : turns' = [turns EXCEPT ![i] = t]
    BY <1>3, TurnProgress
  <2>2. Turns' = Turns /\ \A j \in Turns : turns'[j] = IF j = i THEN t ELSE turns[j]
    BY <2>1, TurnReplaced
  <2>3. i \in 1 .. MaxMessages /\ replies \in [1 .. MaxMessages -> Nat]
        /\ turns[i] \in Turn /\ turns \in Seq(Turn) /\ i \in 1 .. Len(turns)
    BY TurnTyped DEF TypeOK, Turns
  <2>4. UNCHANGED closed
    BY <1>3 DEF TurnStep, TurnBegins, WaitEnds, SendEnds, UnwindCancelled, UnwindEnds,
         CloseEnds, AgentEnds
  <2>5. CASE WaitEnds(i)
    <3>1. turns[i].pc = "waiting" /\ turns'[i].pc = "sending"
          /\ replies' = [replies EXCEPT ![i] = @ + 1]
      BY <2>3, <2>5 DEF WaitEnds, At, Turn
    <3>2. replies[i] = 0 /\ replies'[i] = 1
      BY <2>3, <3>1 DEF AnsweredByWait
    <3> QED BY <2>2, <2>3, <2>4, <3>1, <3>2 DEF AnsweredByWait
  <2>6. CASE ~ WaitEnds(i)
    <3>1. UNCHANGED replies
      BY <1>3, <2>6 DEF TurnStep, TurnBegins, SendEnds, UnwindCancelled, UnwindEnds,
           CloseEnds, AgentEnds
    <3>2. ~ closed => ~ turns[i].cancel
      BY DEF InflightIsLive
    <3>3. \/ turns'[i].pc \in {"new", "waiting"} /\ turns[i].pc \in {"new", "waiting"}
          \/ turns'[i].pc \notin {"new", "waiting"} /\ turns[i].pc \notin {"new", "waiting"}
          \/ turns'[i].pc \notin {"new", "waiting"} /\ turns[i].cancel
      BY <1>3, <2>3, <2>6
         DEF TurnStep, TurnBegins, SendEnds, Unwind, UnwindCancelled, UnwindEnds,
             CloseEnds, AgentEnds, At, Turn
    <3>4. ASSUME NEW j \in 1 .. MaxMessages, j # i
          PROVE  IF j \in Turns' => turns'[j].pc \in {"new", "waiting"}
                 THEN replies'[j] = 0
                 ELSE replies'[j] <= 1 /\ (~ closed' => replies'[j] = 1)
      BY <2>2, <2>4, <3>1, <3>4 DEF AnsweredByWait
    <3>5. IF turns[i].pc \in {"new", "waiting"}
          THEN replies[i] = 0
          ELSE replies[i] <= 1 /\ (~ closed => replies[i] = 1)
      BY <2>3 DEF AnsweredByWait
    <3>6. IF turns'[i].pc \in {"new", "waiting"}
          THEN replies[i] = 0
          ELSE replies[i] <= 1 /\ (~ closed => replies[i] = 1)
      <4>1. CASE turns[i].cancel
        <5>1. closed
          BY <3>2, <4>1
        <5> QED BY <2>3, <3>3, <3>5, <5>1
      <4>2. CASE ~ turns[i].cancel
        BY <3>3, <3>5, <4>2
      <4> QED BY <4>1, <4>2
    <3> QED BY <2>2, <2>4, <3>1, <3>4, <3>6 DEF AnsweredByWait
  <2> QED BY <2>5, <2>6
<1>4. ASSUME NEW a \in Asks, RelayStep(a) PROVE AnsweredByWait'
  BY <1>1, <1>4, RelayTyped
<1>5. CASE \/ UNCHANGED vars
           \/ \E k \in Keys : Refuse(k)
           \/ \E i \in Turns : \E a \in Asks : AskRaised(i, a)
           \/ \E a \in Asks :
                AskTimesOut(a) \/ \E d \in Decisions : PortalChecks(a, d) \/ PortalWrites(a, d)
  BY <1>1, <1>5 DEF vars, Refuse, AskRaised, AskTimesOut, PortalChecks, PortalWrites
<1>6. CASE AClose
  <2>1. closed' /\ UNCHANGED replies /\ ~ closed
    BY <1>6 DEF AClose
  <2>2. Turns' = Turns /\ \A j \in Turns : turns'[j].pc = turns[j].pc
    BY <1>6, Cancelled
  <2>3. replies \in [1 .. MaxMessages -> Nat]
    BY DEF TypeOK
  <2> QED BY <2>1, <2>2, <2>3 DEF AnsweredByWait
<1> QED BY <1>2, <1>3, <1>4, <1>5, <1>6 DEF Next

(* No message is answered twice, and who waits no more has been answered    *)
(* unless aclose() came (_run_turn, _finish): all of AnsweredOnce but its   *)
(* liveness.                                                                *)
THEOREM AnsweredWhenWaited ==
  Spec => [](\A i \in Turns : replies[i] <= 1) /\ []AnsweredByWait
<1>1. Init => AnsweredByWait
  BY DEF Init, AnsweredByWait, Turns
<1>2. IInv /\ AnsweredByWait /\ [Next]_vars => AnsweredByWait'
  BY AnsweredNext DEF IInv
<1>3. TypeOK /\ AnsweredByWait => \A i \in Turns : replies[i] <= 1
  <2> SUFFICES ASSUME TypeOK, AnsweredByWait, NEW i \in Turns PROVE replies[i] <= 1
    OBVIOUS
  <2>1. i \in 1 .. MaxMessages
    BY DispatcherAssumption DEF TypeOK, Turns
  <2>2. CASE turns[i].pc \in {"new", "waiting"}
    <3>1. replies[i] = 0
      BY <2>1, <2>2 DEF AnsweredByWait
    <3> QED BY <3>1
  <2>3. CASE turns[i].pc \notin {"new", "waiting"}
    BY <2>1, <2>3 DEF AnsweredByWait
  <2> QED BY <2>2, <2>3
<1>4. IInv => TypeOK
  BY DEF IInv
<1> QED BY <1>1, <1>2, <1>3, <1>4, IInvInit, IInvNext, PTL DEF Spec

-----------------------------------------------------------------------------
(* The portal. *)

HIDE DispatcherAssumption

InFlight == {"fetching", "storing"}
Locked == {"checking", "fetching", "storing"}
Searching == {"looking", "waiting", "checking", "fetching", "storing"}

(* A search holds its lock from the wait on, and only then; it is the one   *)
(* lock of its instance.                                                    *)
LockWhileSearching ==
    \A r \in Requests :
        /\ req[r].at \in Locked \cup {"waiting"} => req[r].lock = 1
        /\ req[r].at \notin Locked \cup {"waiting"} => req[r].lock = 0
        /\ req[r].lock = 1 => locks[req[r].i] = 1

OneHolder ==
    \A q, r \in Requests :
        q # r /\ req[q].at \in Locked /\ req[r].at \in Locked => req[q].i # req[r].i

(* A search is for an instance that was configured when it began, and       *)
(* unless a save came between, still is, with the same gateway.             *)
GatewayRead ==
    \A r \in Requests : req[r].at \in Searching =>
        /\ req[r].gw # None
        /\ r \notin crossing => req[r].gw = config[req[r].i]

(* Who was served has been in line for the lock, and what it was served     *)
(* with is there until a save empties the cache.                            *)
ServedWaited ==
    \A r \in served :
        /\ req[r].at \notin {"new", "looking"}
        /\ req[r].at \in Locked \cup {"waiting"} => cache[req[r].i].gw # None
        /\ req[r].at \in InFlight => now - cache[req[r].i].at >= TTL

PortalInv ==
    /\ PortalTypeOK
    /\ LockWhileSearching
    /\ OneHolder
    /\ GatewayRead
    /\ ServedWaited
    /\ CacheOfConfig

RequestType ==
    [at : Places, i : Instances, gw : Gateways \cup {None}, lock : 0 .. 1, post : Configs]

LEMMA PortalInvInit == PortalInit => PortalInv
<1> SUFFICES ASSUME PortalInit PROVE PortalInv
    OBVIOUS
<1> USE PortalAssumption
<1>1. PICK i \in Instances :
        req = [r \in Requests |-> [at |-> "new", i |-> i, gw |-> None, lock |-> 0, post |-> config]]
    BY DEF PortalInit
<1>2. config \in Configs
    BY DEF PortalInit, Configs
<1>3. PortalTypeOK
    BY <1>1, <1>2 DEF PortalInit, PortalTypeOK, Empty, Places
<1>4. LockWhileSearching /\ OneHolder /\ GatewayRead
    BY <1>1 DEF LockWhileSearching, OneHolder, GatewayRead, Locked, Searching
<1>5. ServedWaited /\ CacheOfConfig
    BY DEF PortalInit, ServedWaited, CacheOfConfig, Empty
<1> QED
    BY <1>3, <1>4, <1>5 DEF PortalInv

LEMMA EndedTyped ==
    ASSUME NEW q \in RequestType, NEW place \in Places
    PROVE  [q EXCEPT !.at = place, !.lock = 0, !.gw = None] \in RequestType
<1>1. [q EXCEPT !.at = place] \in RequestType
    BY DEF RequestType
<1>2. \A p \in RequestType : [p EXCEPT !.lock = 0] \in RequestType
    BY DEF RequestType
<1>3. \A p \in RequestType : [p EXCEPT !.gw = None] \in RequestType
    BY DEF RequestType
<1>4. [[[q EXCEPT !.at = place] EXCEPT !.lock = 0] EXCEPT !.gw = None] \in RequestType
    BY <1>1, <1>2, <1>3, Zenon
<1> QED BY <1>4, Zenon

LEMMA EndingTyped ==
    ASSUME PortalTypeOK, NEW r \in Requests, NEW place \in Places, Ends(r, place)
    PROVE  req' \in [Requests -> RequestType]
<1>1. req \in [Requests -> RequestType]
    BY DEF PortalTypeOK, RequestType
<1>2. [req[r] EXCEPT !.at = place, !.lock = 0, !.gw = None] \in RequestType
    BY <1>1, EndedTyped
<1>3. req' = [req EXCEPT ![r] = [req[r] EXCEPT !.at = place, !.lock = 0, !.gw = None]]
    BY Zenon DEF Ends
<1> QED BY <1>1, <1>2, <1>3

LEMMA GoingTyped ==
    ASSUME PortalTypeOK, NEW r \in Requests, NEW place \in Places, Goes(r, place)
    PROVE  req' \in [Requests -> RequestType]
<1>1. req \in [Requests -> RequestType]
    BY DEF PortalTypeOK, RequestType
<1>2. [req[r] EXCEPT !.at = place] \in RequestType
    BY <1>1 DEF RequestType
<1>3. req' = [req EXCEPT ![r] = [req[r] EXCEPT !.at = place]]
    BY Zenon DEF Goes
<1> QED BY <1>1, <1>2, <1>3

LEMMA StepTypeOK == PortalTypeOK /\ [PortalNext]_portalVars => PortalTypeOK'
<1> SUFFICES ASSUME PortalTypeOK, [PortalNext]_portalVars PROVE PortalTypeOK'
    OBVIOUS
<1> USE PortalAssumption DEF PortalTypeOK, Places
<1>1. CASE Ticks
    BY <1>1 DEF Ticks
<1>2. ASSUME NEW r \in Requests, NEW i \in Instances, Search(r, i) PROVE PortalTypeOK'
    BY <1>2 DEF Search, Configs
<1>3. ASSUME NEW r \in Requests, NEW post \in Configs, Save(r, post) PROVE PortalTypeOK'
    BY <1>3 DEF Save
<1>4. ASSUME NEW r \in Requests, Looks(r) PROVE PortalTypeOK'
    BY <1>4 DEF Looks, Ends, LockOf
<1>5. ASSUME NEW r \in Requests, Acquires(r) PROVE PortalTypeOK'
    BY <1>5 DEF Acquires, Goes
<1>6. ASSUME NEW r \in Requests, LooksAgain(r) PROVE PortalTypeOK'
  <2>1. Ends(r, "answered") \/ Goes(r, "fetching")
    BY <1>6 DEF LooksAgain
  <2>2. req' \in [Requests -> RequestType]
    BY <2>1, EndingTyped, GoingTyped
  <2> QED BY <1>6, <2>2 DEF LooksAgain, RequestType
<1>7. ASSUME NEW r \in Requests, Fetches(r) PROVE PortalTypeOK'
  <2>1. Goes(r, "storing") \/ Ends(r, "failed")
    BY <1>7 DEF Fetches, Fails
  <2>2. req' \in [Requests -> RequestType]
    BY <2>1, EndingTyped, GoingTyped
  <2> QED BY <1>7, <2>2 DEF Fetches, RequestType
<1>8. ASSUME NEW r \in Requests, Stores(r) PROVE PortalTypeOK'
  <2>1. req' \in [Requests -> RequestType]
    <3>1. Ends(r, "answered")
      BY <1>8 DEF Stores
    <3> QED BY <3>1, EndingTyped
  <2>2. cache' \in [Instances -> [at : 0 .. MaxTime, gw : Gateways \cup {None}]]
    <3>1. [at |-> now, gw |-> req[r].gw] \in [at : 0 .. MaxTime, gw : Gateways \cup {None}]
      OBVIOUS
    <3> QED BY <1>8, <3>1 DEF Stores
  <2>3. UNCHANGED <<now, config, locks, crossing>> /\ crossed' \subseteq Instances /\ served' \subseteq Requests
    BY <1>8 DEF Stores
  <2> QED BY <2>1, <2>2, <2>3 DEF RequestType
<1>9. ASSUME NEW r \in Requests, Refused(r) PROVE PortalTypeOK'
    BY <1>9 DEF Refused, Goes
<1>10. ASSUME NEW r \in Requests, Writes(r) PROVE PortalTypeOK'
    BY <1>10 DEF Writes, Goes
<1>11. ASSUME NEW r \in Requests, Clears(r) PROVE PortalTypeOK'
    BY <1>11 DEF Clears, Cleared, Empty, Goes
<1>12. ASSUME NEW r \in Requests, Reloads(r) PROVE PortalTypeOK'
    BY <1>12 DEF Reloads, Goes
<1>13. CASE UNCHANGED portalVars
    BY <1>13 DEF portalVars
<1> QED
    BY <1>1, <1>2, <1>3, <1>4, <1>5, <1>6, <1>7, <1>8, <1>9, <1>10, <1>11, <1>12, <1>13
       DEF PortalNext, Runs

(* What a step that only moves request r along changes of it. *)
Moved(r, place) ==
    /\ req'[r].at = place
    /\ \A q \in Requests :
        /\ q # r => req'[q] = req[q]
        /\ req'[q].i = req[q].i

LEMMA Going ==
    ASSUME PortalTypeOK, NEW r \in Requests, NEW place \in Places, Goes(r, place)
    PROVE  Moved(r, place) /\ req'[r].gw = req[r].gw /\ req'[r].lock = req[r].lock
BY DEF PortalTypeOK, Goes, Moved

LEMMA Ending ==
    ASSUME PortalTypeOK, NEW r \in Requests, NEW place \in Places, Ends(r, place)
    PROVE  Moved(r, place) /\ req'[r].gw = None /\ req'[r].lock = 0
BY DEF PortalTypeOK, Ends, Moved

LEMMA StepLocks == PortalTypeOK /\ LockWhileSearching /\ [PortalNext]_portalVars => LockWhileSearching'
<1> SUFFICES ASSUME PortalTypeOK, LockWhileSearching, [PortalNext]_portalVars PROVE LockWhileSearching'
    OBVIOUS
<1> USE DEF Locked
<1>1. CASE Ticks
    BY <1>1 DEF Ticks, LockWhileSearching
<1>2. ASSUME NEW r \in Requests, NEW i \in Instances, Search(r, i) PROVE LockWhileSearching'
    BY <1>2 DEF Search, LockWhileSearching, PortalTypeOK
<1>3. ASSUME NEW r \in Requests, NEW post \in Configs, Save(r, post) PROVE LockWhileSearching'
    BY <1>3 DEF Save, LockWhileSearching, PortalTypeOK
<1>4. ASSUME NEW r \in Requests, Looks(r) PROVE LockWhileSearching'
  <2>1. CASE Fresh(req[r].i)
    <3>1. Ends(r, "answered") /\ UNCHANGED locks
      BY <1>4, <2>1 DEF Looks
    <3>2. Moved(r, "answered") /\ req'[r].lock = 0
      BY <3>1, Ending DEF Places
    <3> QED BY <3>1, <3>2 DEF LockWhileSearching, Moved
  <2>2. CASE ~ Fresh(req[r].i)
    <3>1. /\ LockOf(req[r].i) = 1
          /\ locks' = [locks EXCEPT ![req[r].i] = 1]
          /\ req' = [req EXCEPT ![r].at = "waiting", ![r].lock = 1]
      BY <1>4, <2>2 DEF Looks, LockOf, PortalTypeOK
    <3>2. Moved(r, "waiting") /\ req'[r].lock = 1
      BY <3>1 DEF Moved, PortalTypeOK
    <3>3. \A i \in Instances : locks'[i] = IF i = req[r].i THEN 1 ELSE locks[i]
      BY <3>1 DEF PortalTypeOK
    <3> QED BY <3>2, <3>3 DEF LockWhileSearching, Moved, PortalTypeOK
  <2> QED BY <2>1, <2>2
<1>5. ASSUME NEW r \in Requests, Acquires(r) PROVE LockWhileSearching'
    BY <1>5, Going DEF Acquires, Moved, Places, LockWhileSearching
<1>6. ASSUME NEW r \in Requests, LooksAgain(r) PROVE LockWhileSearching'
    BY <1>6, Going, Ending DEF LooksAgain, Moved, Places, LockWhileSearching
<1>7. ASSUME NEW r \in Requests, Fetches(r) PROVE LockWhileSearching'
    BY <1>7, Going, Ending DEF Fetches, Fails, Moved, Places, LockWhileSearching
<1>8. ASSUME NEW r \in Requests, Stores(r) PROVE LockWhileSearching'
  <2>1. Ends(r, "answered") /\ UNCHANGED locks
    BY <1>8 DEF Stores
  <2>2. Moved(r, "answered") /\ req'[r].lock = 0
    BY <2>1, Ending DEF Places
  <2> QED BY <2>1, <2>2 DEF LockWhileSearching, Moved
<1>9. ASSUME NEW r \in Requests, Refused(r) \/ Writes(r) \/ Clears(r) \/ Reloads(r)
      PROVE  LockWhileSearching'
  <2>1. /\ req[r].at \in {"posted", "written", "reloading"} /\ UNCHANGED locks
        /\ \E place \in {"failed", "written", "reloading", "answered"} : Goes(r, place)
    BY <1>9 DEF Refused, Writes, Clears, Reloads
  <2> QED BY <2>1, Going DEF LockWhileSearching, Moved, Places
<1>10. CASE UNCHANGED portalVars
    BY <1>10 DEF portalVars, LockWhileSearching
<1> QED
    BY <1>1, <1>2, <1>3, <1>4, <1>5, <1>6, <1>7, <1>8, <1>9, <1>10 DEF PortalNext, Runs

LEMMA StepOneHolder == PortalTypeOK /\ LockWhileSearching /\ OneHolder /\ [PortalNext]_portalVars => OneHolder'
<1> SUFFICES ASSUME PortalTypeOK, LockWhileSearching, OneHolder, [PortalNext]_portalVars PROVE OneHolder'
    OBVIOUS
<1> USE DEF Locked
<1>1. ASSUME NEW r \in Requests, NEW place \in Places \ Locked, Moved(r, place) PROVE OneHolder'
    BY <1>1 DEF OneHolder, Moved
<1>2. ASSUME NEW r \in Requests, req[r].at \in Locked, NEW place \in Places, Moved(r, place)
      PROVE  OneHolder'
    BY <1>2 DEF OneHolder, Moved
<1>3. CASE Ticks \/ UNCHANGED portalVars
    BY <1>3 DEF Ticks, portalVars, OneHolder
<1>4. ASSUME NEW r \in Requests, NEW i \in Instances, Search(r, i) PROVE OneHolder'
    BY <1>4 DEF Search, OneHolder, PortalTypeOK
<1>5. ASSUME NEW r \in Requests, NEW post \in Configs, Save(r, post) PROVE OneHolder'
    BY <1>5 DEF Save, OneHolder, PortalTypeOK
<1>6. ASSUME NEW r \in Requests, Looks(r) PROVE OneHolder'
  <2>1. CASE Fresh(req[r].i)
    BY <1>6, <2>1, <1>1, Ending DEF Looks, Places
  <2>2. CASE ~ Fresh(req[r].i)
    BY <1>6, <2>2 DEF Looks, OneHolder, PortalTypeOK
  <2> QED BY <2>1, <2>2
<1>7. ASSUME NEW r \in Requests, Acquires(r) PROVE OneHolder'
  <2>1. Moved(r, "checking") /\ req[r].at = "waiting"
    BY <1>7, Going DEF Acquires, Places
  <2>2. ASSUME NEW q \in Requests, q # r, req[q].at \in Locked PROVE req[q].i # req[r].i
    <3>1. req[q].lock = 1 /\ req[r].lock = 1
      BY <2>1, <2>2 DEF LockWhileSearching
    <3> QED BY <1>7, <2>2, <3>1 DEF Acquires, Holds
  <2> QED BY <2>1, <2>2 DEF OneHolder, Moved
<1>8. ASSUME NEW r \in Requests, LooksAgain(r) \/ Fetches(r) \/ Stores(r) PROVE OneHolder'
    BY <1>8, <1>2, Going, Ending DEF LooksAgain, Fetches, Fails, Stores, Places
<1>9. ASSUME NEW r \in Requests, Refused(r) \/ Writes(r) \/ Clears(r) \/ Reloads(r)
      PROVE  OneHolder'
    BY <1>9, <1>1, Going DEF Refused, Writes, Clears, Reloads, Places
<1> QED
    BY <1>3, <1>4, <1>5, <1>6, <1>7, <1>8, <1>9 DEF PortalNext, Runs

LEMMA StepGateway ==
    PortalTypeOK /\ LockWhileSearching /\ GatewayRead /\ [PortalNext]_portalVars => GatewayRead'
<1> SUFFICES ASSUME PortalTypeOK, LockWhileSearching, GatewayRead, [PortalNext]_portalVars PROVE GatewayRead'
    OBVIOUS
<1> USE DEF Searching
<1>1. ASSUME NEW r \in Requests, NEW place \in Places \ Searching, Moved(r, place),
             UNCHANGED <<config, crossing>>
      PROVE  GatewayRead'
    BY <1>1 DEF GatewayRead, Moved
<1>2. ASSUME NEW r \in Requests, req[r].at \in Searching, NEW place \in Places,
             Moved(r, place), req'[r].gw = req[r].gw, UNCHANGED <<config, crossing>>
      PROVE  GatewayRead'
    BY <1>2 DEF GatewayRead, Moved
<1>3. CASE Ticks \/ UNCHANGED portalVars
    BY <1>3 DEF Ticks, portalVars, GatewayRead
<1>4. ASSUME NEW r \in Requests, NEW i \in Instances, Search(r, i) PROVE GatewayRead'
    BY <1>4 DEF Search, GatewayRead, PortalTypeOK
<1>5. ASSUME NEW r \in Requests, NEW post \in Configs, Save(r, post) PROVE GatewayRead'
    BY <1>5 DEF Save, GatewayRead, PortalTypeOK
<1>6. ASSUME NEW r \in Requests, Looks(r) PROVE GatewayRead'
  <2>1. CASE Fresh(req[r].i)
    BY <1>6, <2>1, <1>1, Ending DEF Looks, Places
  <2>2. CASE ~ Fresh(req[r].i)
    BY <1>6, <2>2 DEF Looks, GatewayRead, PortalTypeOK
  <2> QED BY <2>1, <2>2
<1>7. ASSUME NEW r \in Requests, Acquires(r) PROVE GatewayRead'
    BY <1>7, <1>2, Going DEF Acquires, Places
<1>8. ASSUME NEW r \in Requests, LooksAgain(r) PROVE GatewayRead'
    BY <1>8, <1>1, <1>2, Going, Ending DEF LooksAgain, Places
<1>9. ASSUME NEW r \in Requests, Fetches(r) PROVE GatewayRead'
    BY <1>9, <1>1, <1>2, Going, Ending DEF Fetches, Fails, Places
<1>10. ASSUME NEW r \in Requests, Stores(r) \/ Refused(r) \/ Clears(r) \/ Reloads(r)
       PROVE  GatewayRead'
    BY <1>10, <1>1, Going, Ending DEF Stores, Refused, Clears, Reloads, Places
<1>11. ASSUME NEW r \in Requests, Writes(r) PROVE GatewayRead'
  <2>1. Moved(r, "written")
    BY <1>11, Going DEF Writes, Places
  <2>2. \A q \in Requests : req[q].at \in Searching => q \in crossing'
    BY <1>11 DEF Writes, Holds, LockWhileSearching, Locked
  <2> QED BY <2>1, <2>2 DEF GatewayRead, Moved
<1> QED
    BY <1>3, <1>4, <1>5, <1>6, <1>7, <1>8, <1>9, <1>10, <1>11 DEF PortalNext, Runs

LEMMA StepCache ==
    PortalTypeOK /\ GatewayRead /\ CacheOfConfig /\ [PortalNext]_portalVars => CacheOfConfig'
<1> SUFFICES ASSUME PortalTypeOK, GatewayRead, CacheOfConfig, [PortalNext]_portalVars PROVE CacheOfConfig'
    OBVIOUS
<1>1. ASSUME NEW r \in Requests, req[r].at # "written", NEW place \in Places, Moved(r, place),
             UNCHANGED <<config, cache, crossed>>
      PROVE  CacheOfConfig'
    BY <1>1 DEF CacheOfConfig, Moved
<1>3. CASE Ticks \/ UNCHANGED portalVars
    BY <1>3 DEF Ticks, portalVars, CacheOfConfig
<1>4. ASSUME NEW r \in Requests, NEW i \in Instances, Search(r, i) PROVE CacheOfConfig'
    BY <1>4 DEF Search, CacheOfConfig, PortalTypeOK
<1>5. ASSUME NEW r \in Requests, NEW post \in Configs, Save(r, post) PROVE CacheOfConfig'
    BY <1>5 DEF Save, CacheOfConfig, PortalTypeOK
<1>6. ASSUME NEW r \in Requests, Looks(r) PROVE CacheOfConfig'
  <2>1. CASE Fresh(req[r].i)
    BY <1>6, <2>1, <1>1, Ending DEF Looks, Places
  <2>2. CASE ~ Fresh(req[r].i)
    BY <1>6, <2>2 DEF Looks, CacheOfConfig, PortalTypeOK
  <2> QED BY <2>1, <2>2
<1>7. ASSUME NEW r \in Requests,
             Acquires(r) \/ LooksAgain(r) \/ Fetches(r) \/ Refused(r) \/ Reloads(r)
      PROVE  CacheOfConfig'
    BY <1>7, <1>1, Going, Ending
       DEF Acquires, LooksAgain, Fetches, Fails, Refused, Reloads, Places
<1>8. ASSUME NEW r \in Requests, Stores(r) PROVE CacheOfConfig'
  <2> DEFINE i == req[r].i
  <2>1. /\ Ends(r, "answered") /\ req[r].at = "storing" /\ UNCHANGED config
        /\ cache' = [cache EXCEPT ![i] = [at |-> now, gw |-> req[r].gw]]
        /\ crossed' = IF r \in crossing THEN crossed \cup {i} ELSE crossed \ {i}
    BY <1>8 DEF Stores
  <2>2. Moved(r, "answered")
    BY <2>1, Ending DEF Places
  <2>3. \A j \in Instances : cache'[j].gw = IF j = i THEN req[r].gw ELSE cache[j].gw
    BY <2>1 DEF PortalTypeOK
  <2>4. r \notin crossing => req[r].gw = config[i]
    BY <2>1 DEF GatewayRead, Searching
  <2> QED BY <2>1, <2>2, <2>3, <2>4 DEF CacheOfConfig, Moved
<1>9. ASSUME NEW r \in Requests, Writes(r) PROVE CacheOfConfig'
    BY <1>9, Going DEF Writes, Moved, Places, CacheOfConfig
<1>10. ASSUME NEW r \in Requests, Clears(r) PROVE CacheOfConfig'
    BY <1>10 DEF Clears, Cleared, Empty, CacheOfConfig
<1> QED
    BY <1>3, <1>4, <1>5, <1>6, <1>7, <1>8, <1>9, <1>10 DEF PortalNext, Runs

LEMMA StepServed ==
    PortalTypeOK /\ LockWhileSearching /\ OneHolder /\ GatewayRead /\ ServedWaited /\ [PortalNext]_portalVars
        => ServedWaited'
<1> SUFFICES ASSUME PortalTypeOK, LockWhileSearching, OneHolder, GatewayRead, ServedWaited, [PortalNext]_portalVars
             PROVE  ServedWaited'
    OBVIOUS
<1> USE PortalAssumption DEF Locked, InFlight
<1>1. ASSUME NEW r \in Requests, NEW place \in {"answered", "failed", "posted", "written", "reloading"},
             Moved(r, place), UNCHANGED <<now, cache, served>>
      PROVE  ServedWaited'
    BY <1>1 DEF ServedWaited, Moved, PortalTypeOK
<1>2. ASSUME NEW r \in Requests, req[r].at \in Locked \cup {"waiting"},
             NEW place \in {"checking", "fetching", "storing"},
             Moved(r, place), UNCHANGED <<now, cache, served>>,
             place = "fetching" => ~ Fresh(req[r].i),
             place = "storing" => req[r].at = "fetching"
      PROVE  ServedWaited'
  <2>1. cache[req[r].i].gw # None /\ place \in InFlight /\ r \in served
            => now - cache[req[r].i].at >= TTL
    BY <1>2 DEF Fresh, ServedWaited, PortalTypeOK
  <2> QED BY <1>2, <2>1 DEF ServedWaited, Moved, PortalTypeOK
<1>3. CASE UNCHANGED portalVars
    BY <1>3 DEF portalVars, ServedWaited
<1>4. CASE Ticks
    BY <1>4 DEF Ticks, ServedWaited, PortalTypeOK
<1>5. ASSUME NEW r \in Requests, NEW i \in Instances, Search(r, i) PROVE ServedWaited'
    BY <1>5 DEF Search, ServedWaited, PortalTypeOK
<1>6. ASSUME NEW r \in Requests, NEW post \in Configs, Save(r, post) PROVE ServedWaited'
    BY <1>6 DEF Save, ServedWaited, PortalTypeOK
<1>7. ASSUME NEW r \in Requests, Looks(r) PROVE ServedWaited'
    BY <1>7 DEF Looks, Ends, ServedWaited, PortalTypeOK
<1>8. ASSUME NEW r \in Requests, Acquires(r) PROVE ServedWaited'
    BY <1>8, <1>2, Going DEF Acquires, Places
<1>9. ASSUME NEW r \in Requests, LooksAgain(r) PROVE ServedWaited'
    BY <1>9, <1>1, <1>2, Going, Ending DEF LooksAgain, StillFresh, Places
<1>10. ASSUME NEW r \in Requests, Fetches(r) PROVE ServedWaited'
    BY <1>10, <1>1, <1>2, Going, Ending DEF Fetches, Fails, Places
<1>11. ASSUME NEW r \in Requests, Stores(r) PROVE ServedWaited'
  <2> DEFINE i == req[r].i
  <2>1. /\ Ends(r, "answered") /\ req[r].at = "storing" /\ UNCHANGED now
        /\ cache' = [cache EXCEPT ![i] = [at |-> now, gw |-> req[r].gw]]
        /\ served' = served \cup {q \in Requests : req[q].at = "waiting" /\ req[q].i = i}
    BY <1>11 DEF Stores
  <2>2. Moved(r, "answered")
    BY <2>1, Ending DEF Places
  <2>3. \A j \in Instances : cache'[j] = IF j = i THEN [at |-> now, gw |-> req[r].gw] ELSE cache[j]
    BY <2>1 DEF PortalTypeOK
  <2>4. req[r].gw # None
    BY <2>1 DEF GatewayRead, Searching
  <2>5. \A q \in Requests : q # r /\ req[q].at \in Locked => req[q].i # i
    BY <2>1 DEF OneHolder
  <2> QED BY <2>1, <2>2, <2>3, <2>4, <2>5 DEF ServedWaited, Moved, PortalTypeOK
<1>12. ASSUME NEW r \in Requests, Refused(r) \/ Writes(r) \/ Reloads(r) PROVE ServedWaited'
    BY <1>12, <1>1, Going DEF Refused, Writes, Reloads, Places
<1>13. ASSUME NEW r \in Requests, Clears(r) PROVE ServedWaited'
    BY <1>13 DEF Clears, ServedWaited
<1> QED
    BY <1>3, <1>4, <1>5, <1>6, <1>7, <1>8, <1>9, <1>10, <1>11, <1>12, <1>13 DEF PortalNext, Runs

THEOREM PortalInvariant == PortalSpec => []PortalInv
<1>1. PortalInv /\ [PortalNext]_portalVars => PortalInv'
    BY StepTypeOK, StepLocks, StepOneHolder, StepGateway, StepServed, StepCache DEF PortalInv
<1> QED BY PortalInvInit, <1>1, PTL DEF PortalSpec

(* The type invariant of the portal. *)
THEOREM PortalTypeCorrect == PortalSpec => []PortalTypeOK
<1>1. PortalInv => PortalTypeOK
    BY DEF PortalInv
<1> QED BY <1>1, PortalInvariant, PTL

(* One thread at a time fetches the contacts of an instance (_contacts), and *)
(* who waited for what another one stored does not fetch it again while it   *)
(* is fresh: there is one lock per instance, a search holds it from its      *)
(* second look to its end, and only it replaces what it waited for.          *)
THEOREM OneFetch == PortalSpec => []SingleFlight
<1>1. PortalInv => SingleFlight
    BY DEF PortalInv, OneHolder, ServedWaited, SingleFlight, Locked, InFlight
<1> QED BY <1>1, PortalInvariant, PTL

(* Outside a save the cache holds contacts of the gateways the file names,   *)
(* but for those of a search that had read the file before (save, _contacts).*)
THEOREM CacheMatches == PortalSpec => []CacheOfConfig
<1>1. PortalInv => CacheOfConfig
    BY DEF PortalInv
<1> QED BY <1>1, PortalInvariant, PTL

-----------------------------------------------------------------------------
(* The adapters and their daemon. *)

(* Induction up to a number, over a set instead of a predicate.             *)
LEMMA UpTo ==
    ASSUME NEW n \in Nat, NEW T, 0 \in T,
           \A k \in 0 .. n : (k < n /\ k \in T) => k + 1 \in T
    PROVE  \A k \in 0 .. n : k \in T
<1> SUFFICES ASSUME NEW b \in 0 .. n, b \notin T PROVE FALSE
  OBVIOUS
<1> DEFINE bad == {k \in 0 .. n : k \notin T}
<1>1. bad \subseteq Nat /\ bad # {}
  OBVIOUS
<1>2. PICK k \in bad : \A j \in bad : ~ (<<j, k>> \in OpToRel(<, Nat))
  BY <1>1, NatLessThanWellFounded, WFMin
<1>3. k \in 0 .. n /\ k \notin T /\ k # 0
  OBVIOUS
<1>4. k - 1 \in 0 .. n /\ k - 1 < k /\ k - 1 < n /\ (k - 1) + 1 = k
  BY <1>3
<1>5. k - 1 \notin bad
  BY <1>1, <1>2, <1>4 DEF OpToRel
<1> QED BY <1>3, <1>4, <1>5

(* The listing of a finite set, each element once, leaves none out.         *)
LEMMA ListingIsAll ==
    ASSUME NEW S, IsFiniteSet(S), NEW o \in [1 .. Cardinality(S) -> S],
           \A i, j \in 1 .. Cardinality(S) : i # j => o[i] # o[j]
    PROVE  /\ o \in Seq(S) /\ Len(o) = Cardinality(S)
           /\ \A x \in S : \E i \in 1 .. Len(o) : o[i] = x
<1> DEFINE n == Cardinality(S)
<1>1. n \in Nat
  BY FS_CardinalityType
<1>2. o \in Seq(S) /\ Len(o) = n
  BY <1>1
<1>3. o \in Injection(1 .. n, S)
  BY DEF Injection, IsInjective
<1>4. IsFiniteSet(1 .. n) /\ Cardinality(1 .. n) = n
  BY <1>1, FS_Interval
<1>5. o \in Surjection(1 .. n, S)
  BY <1>3, <1>4, FS_Injection
<1> QED BY <1>2, <1>5 DEF Surjection

(* Each adapter has a copy of FiniteSets of its own. *)
LEMMA CardinalityTg == ASSUME NEW S PROVE Tg!Cardinality(S) = Cardinality(S)
BY DEF Tg!Cardinality, Cardinality

LEMMA CardinalityWx == ASSUME NEW S PROVE Wx!Cardinality(S) = Cardinality(S)
BY DEF Wx!Cardinality, Cardinality

-----------------------------------------------------------------------------
(* Telegram.                                                                *)

(* While the loop polls, the handler had every text before the offset; what *)
(* a stop passes over is never asked for again.                             *)
AskedIsHandled ==
    tgPc # "exited" =>
        \A u \in DOMAIN updates :
            u < offset /\ updates[u] => \E i \in DOMAIN handed : handed[i] = u

TgInv ==
    /\ Tg!TgTypeOK
    /\ offset <= Len(updates) + 1
    /\ confirmed < offset \/ confirmed = 0
    /\ AskedIsHandled
    /\ \A i \in DOMAIN handed : handed[i] < offset
    /\ Tg!ConfirmedIsHandled

LEMMA TgInvInit == stop = FALSE /\ Tg!TgInit => TgInv
<1> SUFFICES ASSUME stop = FALSE, Tg!TgInit PROVE TgInv
  OBVIOUS
<1> USE ChannelsAssumption DEF ChannelsAssumption
<1>1. /\ updates \in Seq(BOOLEAN) /\ Len(updates) = MaxUpdates /\ handed \in Seq(1 .. MaxUpdates)
      /\ DOMAIN updates = 1 .. MaxUpdates /\ DOMAIN handed = {}
  BY DEF Tg!TgInit
<1>2. Tg!TgTypeOK
  <2>1. stop \in BOOLEAN
    OBVIOUS
  <2>2. confirmed = 0 /\ offset = 0 /\ tgPc = "asking"
    BY DEF Tg!TgInit
  <2>3. confirmed \in 0 .. MaxUpdates /\ offset \in 0 .. MaxUpdates + 1 /\ 0 <= MaxUpdates
    BY <2>2
  <2> QED BY <1>1, <2>1, <2>2, <2>3 DEF Tg!TgTypeOK
<1> QED BY <1>1, <1>2 DEF Tg!TgInit, TgInv, AskedIsHandled, Tg!ConfirmedIsHandled

(* The server forgets nothing the handler did not have.                     *)
LEMMA ConfirmedSound ==
    ASSUME TgInv, tgPc # "exited"
    PROVE  /\ Tg!Confirmed \in 0 .. MaxUpdates /\ Tg!Confirmed <= Len(updates)
           /\ Tg!Confirmed < offset \/ Tg!Confirmed = 0
           /\ Tg!Confirmed + 1 >= offset
           /\ \A u \in DOMAIN updates :
                 u <= Tg!Confirmed /\ updates[u] => \E i \in DOMAIN handed : handed[i] = u
<1> USE ChannelsAssumption DEF ChannelsAssumption
<1>1. /\ updates \in Seq(BOOLEAN) /\ Len(updates) <= MaxUpdates
      /\ offset \in 0 .. MaxUpdates + 1 /\ confirmed \in 0 .. MaxUpdates /\ Len(updates) \in Nat
      /\ offset <= Len(updates) + 1
  BY DEF TgInv, Tg!TgTypeOK
<1>2. confirmed < offset \/ confirmed = 0
  BY DEF TgInv
<1>3. CASE offset > confirmed + 1
  <2>1. Tg!Confirmed = offset - 1
    BY <1>3 DEF Tg!Confirmed
  <2> QED BY <1>1, <1>3, <2>1 DEF TgInv, AskedIsHandled
<1>4. CASE ~ (offset > confirmed + 1)
  <2>1. Tg!Confirmed = confirmed
    BY <1>4 DEF Tg!Confirmed
  <2> QED BY <1>1, <1>2, <1>4, <2>1 DEF TgInv, Tg!ConfirmedIsHandled
<1> QED BY <1>3, <1>4

(* Where an element of the second of two joined sequences is from.          *)
LEMMA JoinedTail ==
    ASSUME NEW S, NEW a \in Seq(S), NEW b \in Seq(S),
           NEW k \in 1 .. Len(a) + Len(b), k \notin 1 .. Len(a)
    PROVE  k - Len(a) \in 1 .. Len(b) /\ (a \o b)[k] = b[k - Len(a)]
<1>1. Len(a) \in Nat /\ Len(b) \in Nat
  OBVIOUS
<1>2. k - Len(a) \in 1 .. Len(b)
  BY <1>1
<1> QED BY <1>1, <1>2

LEMMA AnsweredKeeps == TgInv /\ Tg!Answered => TgInv'
<1> SUFFICES ASSUME TgInv, Tg!Answered PROVE TgInv'
  OBVIOUS
<1> USE ChannelsAssumption DEF ChannelsAssumption
<1> DEFINE from == Tg!Confirmed + 1
           texts(last) == {i \in from .. last : Tg!Parsed(i)}
<1>1. tgPc = "asking" /\ confirmed' = Tg!Confirmed /\ tgPc' = Tg!Looped /\ UNCHANGED <<stop, updates>>
  BY DEF Tg!Answered
<1>2. PICK last \in Tg!Confirmed .. Len(updates) :
        /\ offset' = IF last < from THEN offset ELSE Tg!OffsetAfter(IF stop THEN from ELSE last)
        /\ \E order \in {o \in Tg!SetToSeqs(texts(last)) :
                            \A i, j \in DOMAIN o : i < j => o[i] < o[j]} :
              handed' = IF stop THEN handed ELSE handed \o order
  BY DEF Tg!Answered
<1>3. /\ updates \in Seq(BOOLEAN) /\ Len(updates) <= MaxUpdates /\ Len(updates) \in Nat
      /\ offset \in 0 .. MaxUpdates + 1 /\ confirmed \in 0 .. MaxUpdates
      /\ offset <= Len(updates) + 1
      /\ handed \in Seq(1 .. MaxUpdates) /\ stop \in BOOLEAN
  BY DEF TgInv, Tg!TgTypeOK
<1>4. /\ Tg!Confirmed \in 0 .. MaxUpdates
      /\ Tg!Confirmed < offset \/ Tg!Confirmed = 0
      /\ Tg!Confirmed + 1 >= offset
      /\ \A u \in DOMAIN updates :
            u <= Tg!Confirmed /\ updates[u] => \E i \in DOMAIN handed : handed[i] = u
  BY <1>1, ConfirmedSound
<1>5. from \in Nat /\ last \in 0 .. MaxUpdates
  BY <1>3, <1>4
<1>6. /\ offset' \in 0 .. MaxUpdates + 1
      /\ offset' <= Len(updates) + 1
      /\ offset' >= offset
      /\ Tg!Confirmed < offset' \/ Tg!Confirmed = 0
      /\ ~ stop => offset' <= last + 1
  BY <1>2, <1>3, <1>4, <1>5 DEF Tg!OffsetAfter
<1>7. CASE stop
  <2>1. handed' = handed /\ tgPc' = "exited"
    BY <1>1, <1>2, <1>7 DEF Tg!Looped
  <2>2. Tg!TgTypeOK'
    BY <1>1, <1>3, <1>4, <1>6, <2>1 DEF TgInv, Tg!TgTypeOK
  <2>3. Tg!ConfirmedIsHandled'
    BY <1>1, <1>4, <2>1 DEF TgInv, Tg!ConfirmedIsHandled
  <2>4. \A i \in DOMAIN handed : handed[i] < offset'
    BY <1>3, <1>6 DEF TgInv
  <2> QED BY <1>1, <1>6, <2>1, <2>2, <2>3, <2>4 DEF TgInv, AskedIsHandled
<1>8. CASE ~ stop
  <2>1. PICK order \in Tg!SetToSeqs(texts(last)) :
           /\ \A i, j \in DOMAIN order : i < j => order[i] < order[j]
           /\ handed' = handed \o order
    BY <1>2, <1>8
  <2>2. IsFiniteSet(texts(last)) /\ texts(last) \subseteq 1 .. MaxUpdates
    <3>1. texts(last) \subseteq 1 .. MaxUpdates
      BY <1>4, <1>5
    <3>2. IsFiniteSet(1 .. MaxUpdates)
      BY FS_Interval
    <3> QED BY <3>1, <3>2, FS_Subset
  <2>3. /\ order \in Seq(texts(last))
        /\ \A x \in texts(last) : \E i \in 1 .. Len(order) : order[i] = x
    <3>1. /\ order \in [1 .. Cardinality(texts(last)) -> texts(last)]
          /\ \A i, j \in 1 .. Cardinality(texts(last)) : i # j => order[i] # order[j]
      BY CardinalityTg DEF Tg!SetToSeqs
    <3> HIDE DEF texts
    <3> QED BY <2>2, <3>1, ListingIsAll
  <2>4. \A i \in 1 .. Len(order) : order[i] \in texts(last)
    BY <2>3
  <2>5. order \in Seq(1 .. MaxUpdates)
    BY <2>2, <2>3
  <2>6. /\ handed' \in Seq(1 .. MaxUpdates)
        /\ Len(handed') = Len(handed) + Len(order)
        /\ \A i \in 1 .. Len(handed) : handed'[i] = handed[i]
        /\ \A i \in 1 .. Len(order) : handed'[Len(handed) + i] = order[i]
        /\ Len(handed) \in Nat /\ Len(order) \in Nat
        /\ DOMAIN handed = 1 .. Len(handed)
        /\ DOMAIN handed' = 1 .. Len(handed) + Len(order)
    BY <1>3, <2>1, <2>5
  <2>7. tgPc' = "asking"
    BY <1>1, <1>8 DEF Tg!Looped
  <2>8. Tg!TgTypeOK'
    BY <1>1, <1>3, <1>4, <1>6, <2>6, <2>7 DEF TgInv, Tg!TgTypeOK
  <2>9. ASSUME NEW i \in DOMAIN handed' PROVE handed'[i] < offset'
    <3>1. CASE i \in 1 .. Len(handed)
      BY <1>3, <1>6, <2>6, <3>1 DEF TgInv
    <3>2. CASE i \notin 1 .. Len(handed)
      <4>1. i - Len(handed) \in 1 .. Len(order) /\ handed'[i] = order[i - Len(handed)]
        BY <1>3, <2>1, <2>5, <2>6, <3>2, JoinedTail
      <4>2. handed'[i] \in from .. last
        BY <2>4, <4>1
      <4>3. offset' = last + 1
        BY <1>2, <1>5, <1>8, <4>2 DEF Tg!OffsetAfter
      <4> QED BY <1>5, <4>2, <4>3
    <3> QED BY <3>1, <3>2
  <2>10. ASSUME NEW u \in DOMAIN updates, updates[u], u < offset' \/ u <= Tg!Confirmed
         PROVE  \E i \in DOMAIN handed' : handed'[i] = u
    <3>1. CASE u <= Tg!Confirmed
      BY <1>4, <2>6, <2>10, <3>1
    <3>2. CASE ~ (u <= Tg!Confirmed)
      <4>1. u \in from .. last
        BY <1>3, <1>4, <1>5, <1>6, <1>8, <2>10, <3>2
      <4>2. u \in texts(last)
        BY <2>10, <4>1 DEF Tg!Parsed
      <4>3. PICK i \in 1 .. Len(order) : order[i] = u
        BY <2>3, <4>2
      <4>4. Len(handed) + i \in DOMAIN handed' /\ handed'[Len(handed) + i] = u
        BY <2>6, <4>3
      <4> QED BY <4>4
    <3> QED BY <3>1, <3>2
  <2>11. ASSUME NEW i \in DOMAIN handed', NEW j \in DOMAIN handed', i < j
         PROVE  handed'[i] < handed'[j]
    <3>1. CASE j \in 1 .. Len(handed)
      <4>1. i \in 1 .. Len(handed)
        BY <2>6, <2>11, <3>1
      <4> QED BY <1>3, <2>6, <2>11, <3>1, <4>1 DEF TgInv, Tg!ConfirmedIsHandled
    <3>2. CASE j \notin 1 .. Len(handed) /\ i \in 1 .. Len(handed)
      <4>1. j - Len(handed) \in 1 .. Len(order) /\ handed'[j] = order[j - Len(handed)]
        BY <1>3, <2>1, <2>5, <2>6, <3>2, JoinedTail
      <4>2. handed'[j] \in from .. last
        BY <2>4, <4>1
      <4>3. handed'[i] \in Nat /\ handed'[i] < offset
        BY <1>3, <2>6, <3>2 DEF TgInv
      <4> QED BY <1>3, <1>4, <1>5, <4>2, <4>3
    <3>3. CASE j \notin 1 .. Len(handed) /\ i \notin 1 .. Len(handed)
      <4>1. j - Len(handed) \in 1 .. Len(order) /\ handed'[j] = order[j - Len(handed)]
        BY <1>3, <2>1, <2>5, <2>6, <3>3, JoinedTail
      <4>2. i - Len(handed) \in 1 .. Len(order) /\ handed'[i] = order[i - Len(handed)]
        BY <1>3, <2>1, <2>5, <2>6, <3>3, JoinedTail
      <4>3. i - Len(handed) < j - Len(handed)
        BY <2>6, <2>11
      <4>4. DOMAIN order = 1 .. Len(order)
        BY <2>5
      <4> QED BY <2>1, <4>1, <4>2, <4>3, <4>4
    <3> QED BY <3>1, <3>2, <3>3
  <2>12. AskedIsHandled'
    BY <1>1, <2>10 DEF AskedIsHandled
  <2>13. Tg!ConfirmedIsHandled'
    BY <1>1, <2>10, <2>11 DEF Tg!ConfirmedIsHandled
  <2> QED BY <1>1, <1>6, <2>8, <2>9, <2>12, <2>13 DEF TgInv
<1> QED BY <1>7, <1>8, <1>3

LEMMA TgInvNext ==
    TgInv /\ (Tg!TgNext \/ Tg!TgCancelled) => TgInv'
<1> SUFFICES ASSUME TgInv, Tg!TgNext \/ Tg!TgCancelled PROVE TgInv'
  OBVIOUS
<1> USE ChannelsAssumption DEF ChannelsAssumption
<1>2. CASE Tg!Answered
  BY <1>2, AnsweredKeeps
<1>3. CASE Tg!PollFails
  <2>1. tgPc = "asking" /\ UNCHANGED <<stop, updates, offset, handed>>
        /\ confirmed' \in {confirmed, Tg!Confirmed} /\ tgPc' \in {"exited", "asking", "backoff"}
    BY <1>3 DEF Tg!PollFails, Tg!Outcomes
  <2>2. CASE confirmed' = confirmed
    BY <2>1, <2>2 DEF TgInv, Tg!TgTypeOK, AskedIsHandled, Tg!ConfirmedIsHandled
  <2>3. CASE confirmed' = Tg!Confirmed
    <3>1. /\ Tg!Confirmed \in 0 .. MaxUpdates
          /\ Tg!Confirmed < offset \/ Tg!Confirmed = 0
          /\ \A u \in DOMAIN updates :
                u <= Tg!Confirmed /\ updates[u] => \E i \in DOMAIN handed : handed[i] = u
      BY <2>1, ConfirmedSound
    <3>2. Tg!TgTypeOK'
      BY <2>1, <2>3, <3>1 DEF TgInv, Tg!TgTypeOK
    <3>3. Tg!ConfirmedIsHandled'
      BY <2>1, <2>3, <3>1 DEF TgInv, Tg!ConfirmedIsHandled
    <3> QED BY <2>1, <2>3, <3>1, <3>2, <3>3 DEF TgInv, AskedIsHandled
  <2> QED BY <2>1, <2>2, <2>3
<1>4. CASE Tg!BackoffEnds \/ Tg!TgCancelled
  <2>1. /\ tgPc # "exited" /\ tgPc' \in {"exited", "asking"}
        /\ UNCHANGED <<stop, updates, confirmed, offset, handed>>
    BY <1>4 DEF Tg!BackoffEnds, Tg!TgCancelled, Tg!Looped, Tg!serverVars
  <2> QED BY <2>1 DEF TgInv, Tg!TgTypeOK, AskedIsHandled, Tg!ConfirmedIsHandled
<1> QED BY <1>2, <1>3, <1>4 DEF Tg!TgNext

-----------------------------------------------------------------------------
(* WeChat.                                                                  *)

WxStates == [seen : Seq(Wx!Identities), given : Seq(Wx!Identities)]

Has(s, m) == \E i \in 1 .. Len(s) : s[i] = m

(* What is remembered are the last messages handed on, and no message was   *)
(* handed on twice within as many as can be remembered.                     *)
SeenIsLast(s, g) ==
    /\ Len(s) <= Len(g) /\ Len(s) <= MaxSeen
    /\ Len(s) = MaxSeen \/ Len(s) = Len(g)
    /\ \A i \in 1 .. Len(s) : s[i] = g[Len(g) - Len(s) + i]

FarApart(g) ==
    \A i, j \in 1 .. Len(g) : (i < j /\ g[i] = g[j]) => j - i > MaxSeen

Sound(st) ==
    /\ st \in WxStates
    /\ SeenIsLast(st.seen, st.given)
    /\ FarApart(st.given)

(* Remembering one more message. *)
LEMMA RememberedSound ==
    ASSUME NEW s \in Seq(Wx!Identities), NEW g \in Seq(Wx!Identities), NEW m \in Wx!Identities,
           SeenIsLast(s, g), FarApart(g), Wx!New(m, s)
    PROVE  /\ Wx!Remembered(m, s) \in Seq(Wx!Identities)
           /\ SeenIsLast(Wx!Remembered(m, s), Append(g, m))
           /\ FarApart(Append(g, m))
<1> DEFINE all == Append(s, m)
           r == Wx!Remembered(m, s)
           h == Append(g, m)
<1>1. Len(s) \in Nat /\ Len(g) \in Nat /\ MaxSeen \in Nat
      /\ Len(s) <= Len(g) /\ Len(s) <= MaxSeen /\ MaxSeen # 0
  BY ChannelsAssumption DEF ChannelsAssumption, SeenIsLast
<1>2. /\ h \in Seq(Wx!Identities) /\ Len(h) = Len(g) + 1 /\ h[Len(g) + 1] = m
      /\ \A i \in 1 .. Len(g) : h[i] = g[i]
  OBVIOUS
<1>3. /\ all \in Seq(Wx!Identities) /\ Len(all) = Len(s) + 1 /\ all[Len(s) + 1] = m
      /\ \A i \in 1 .. Len(s) : all[i] = s[i]
  OBVIOUS
<1>4. Len(all) > MaxSeen =>
         /\ r \in Seq(Wx!Identities) /\ Len(r) = Len(s)
         /\ \A i \in 1 .. Len(s) : r[i] = all[i + 1]
  <2> SUFFICES ASSUME Len(all) > MaxSeen
               PROVE  /\ r \in Seq(Wx!Identities) /\ Len(r) = Len(s)
                      /\ \A i \in 1 .. Len(s) : r[i] = all[i + 1]
    OBVIOUS
  <2>1. r = Tail(all)
    BY DEF Wx!Remembered
  <2> HIDE DEF all, r
  <2>2. all # <<>>
    BY <1>1, <1>3
  <2>3. /\ Tail(all) \in Seq(Wx!Identities) /\ Len(Tail(all)) = Len(all) - 1
        /\ \A i \in 1 .. Len(all) - 1 : Tail(all)[i] = all[i + 1]
    BY <1>3, <2>2, HeadTailProperties
  <2> QED BY <1>1, <1>3, <2>1, <2>3
<1>5. ~ (Len(all) > MaxSeen) => r = all
  BY DEF Wx!Remembered
<1>6. \A i \in 1 .. Len(s) : s[i] = g[Len(g) - Len(s) + i]
  BY DEF SeenIsLast
<1>7. Len(s) = MaxSeen \/ Len(s) = Len(g)
  BY DEF SeenIsLast
<1> HIDE DEF all, r, h
<1>8. \A i \in 1 .. Len(all) : all[i] = h[Len(h) - Len(all) + i]
  <2> SUFFICES ASSUME NEW i \in 1 .. Len(all) PROVE all[i] = h[Len(h) - Len(all) + i]
    OBVIOUS
  <2>1. CASE i = Len(s) + 1
    <3>1. Len(h) - Len(all) + i = Len(g) + 1
      BY <1>1, <1>2, <1>3, <2>1
    <3> QED BY <1>2, <1>3, <2>1, <3>1
  <2>2. CASE i # Len(s) + 1
    <3>1. i \in 1 .. Len(s)
      BY <1>1, <1>3, <2>2
    <3>2. Len(h) - Len(all) + i = Len(g) - Len(s) + i
          /\ Len(g) - Len(s) + i \in 1 .. Len(g)
      BY <1>1, <1>2, <1>3, <3>1
    <3> QED BY <1>2, <1>3, <1>6, <3>1, <3>2
  <2> QED BY <2>1, <2>2
<1>9. r \in Seq(Wx!Identities) /\ SeenIsLast(r, h)
  <2>1. CASE Len(all) > MaxSeen
    <3>1. Len(s) = MaxSeen
      BY <1>1, <1>3, <2>1
    <3>2. ASSUME NEW i \in 1 .. Len(r) PROVE r[i] = h[Len(h) - Len(r) + i]
      <4>1. i \in 1 .. Len(s) /\ r[i] = all[i + 1]
        BY <1>4, <2>1
      <4>2. i + 1 \in 1 .. Len(all) /\ Len(h) - Len(all) + (i + 1) = Len(h) - Len(r) + i
        <5>1. Len(r) = Len(s)
          BY <1>4, <2>1
        <5>2. Len(all) = Len(s) + 1 /\ Len(h) = Len(g) + 1
          BY <1>2, <1>3
        <5> QED BY <1>1, <4>1, <5>1, <5>2
      <4>3. all[i + 1] = h[Len(h) - Len(all) + (i + 1)]
        BY <1>8, <4>2
      <4> QED BY <4>1, <4>2, <4>3
    <3>3. Len(r) <= Len(h) /\ Len(r) <= MaxSeen /\ Len(r) = MaxSeen
      BY <1>1, <1>2, <1>4, <2>1, <3>1
    <3> QED BY <1>4, <2>1, <3>2, <3>3 DEF SeenIsLast
  <2>2. CASE ~ (Len(all) > MaxSeen)
    <3>1. r = all
      BY <1>5, <2>2
    <3>2. Len(s) = Len(g)
      BY <1>1, <1>3, <1>7, <2>2
    <3>3. Len(all) <= Len(h) /\ Len(all) <= MaxSeen /\ Len(all) = Len(h)
      BY <1>1, <1>2, <1>3, <2>2, <3>2
    <3> QED BY <1>3, <1>8, <3>1, <3>3 DEF SeenIsLast
  <2> QED BY <2>1, <2>2
<1>10. FarApart(h)
  <2> SUFFICES ASSUME NEW i \in 1 .. Len(h), NEW j \in 1 .. Len(h), i < j, h[i] = h[j]
               PROVE  j - i > MaxSeen
    BY DEF FarApart
  <2>1. i \in 1 .. Len(g)
    BY <1>1, <1>2
  <2>2. h[i] = g[i]
    BY <1>2, <2>1
  <2>3. CASE j \in 1 .. Len(g)
    BY <1>2, <2>1, <2>2, <2>3 DEF FarApart
  <2>4. CASE j \notin 1 .. Len(g)
    <3>1. j = Len(g) + 1
      BY <1>1, <1>2, <2>4
    <3>2. g[i] = m
      BY <1>2, <2>2, <3>1
    <3>3. ~ (i > Len(g) - Len(s))
      <4> SUFFICES ASSUME i > Len(g) - Len(s) PROVE FALSE
        OBVIOUS
      <4> DEFINE k == i - (Len(g) - Len(s))
      <4>1. k \in 1 .. Len(s) /\ Len(g) - Len(s) + k = i
        BY <1>1, <2>1
      <4> HIDE DEF k
      <4>2. s[k] = m
        BY <1>6, <3>2, <4>1
      <4> QED BY <4>1, <4>2 DEF Wx!New, Wx!Contains
    <3>4. Len(s) = MaxSeen
      BY <1>1, <1>7, <2>1, <3>3
    <3> QED BY <1>1, <2>1, <3>1, <3>3, <3>4
  <2> QED BY <2>3, <2>4
<1> QED BY <1>9, <1>10 DEF r, h

(* Handing on one message. *)
LEMMA StepSound ==
    ASSUME NEW st, Sound(st), NEW m \in Wx!Identities
    PROVE  /\ Sound(Wx!Step(st, m))
           /\ Has(Wx!Step(st, m).given, m)
           /\ \A x : Has(st.given, x) => Has(Wx!Step(st, m).given, x)
<1>1. PICK s \in Seq(Wx!Identities), g \in Seq(Wx!Identities) : st = [seen |-> s, given |-> g]
  BY DEF Sound, WxStates
<1>2. SeenIsLast(s, g) /\ FarApart(g)
  BY <1>1 DEF Sound
<1>3. CASE ~ Wx!New(m, s)
  <2>1. Wx!Step(st, m) = st
    BY <1>1, <1>3 DEF Wx!Step
  <2>2. PICK i \in 1 .. Len(s) : s[i] = m
    BY <1>3 DEF Wx!New, Wx!Contains
  <2>3. Len(g) - Len(s) + i \in 1 .. Len(g)
    BY <1>2 DEF SeenIsLast
  <2>4. g[Len(g) - Len(s) + i] = m
    BY <1>2, <2>2 DEF SeenIsLast
  <2>5. Has(g, m)
    BY <2>3, <2>4 DEF Has
  <2> QED BY <1>1, <2>1, <2>5
<1>4. CASE Wx!New(m, s)
  <2> DEFINE r == Wx!Remembered(m, s)
             h == Append(g, m)
  <2>1. Wx!Step(st, m) = [seen |-> r, given |-> h]
    BY <1>1, <1>4 DEF Wx!Step
  <2>2. /\ h \in Seq(Wx!Identities) /\ Len(h) = Len(g) + 1 /\ h[Len(g) + 1] = m
        /\ \A i \in 1 .. Len(g) : h[i] = g[i]
    OBVIOUS
  <2>3. r \in Seq(Wx!Identities) /\ SeenIsLast(r, h) /\ FarApart(h)
    BY <1>2, <1>4, RememberedSound
  <2> HIDE DEF r, h
  <2>4. Sound(Wx!Step(st, m))
    BY <2>1, <2>2, <2>3 DEF Sound, WxStates
  <2>5. Has(h, m)
    BY <2>2 DEF Has
  <2>6. \A x : Has(g, x) => Has(h, x)
    BY <2>2 DEF Has
  <2> QED BY <1>1, <2>1, <2>4, <2>5, <2>6
<1> QED BY <1>3, <1>4

(* Handing on the first k of several in turn is a run of such steps.        *)
IsRun(f, base, msgs, k) ==
    f = [n \in 0 .. k |-> IF n = 0 THEN base ELSE Wx!Step(f[n - 1], msgs[n])]

LEMMA RunExists ==
    ASSUME NEW base, NEW msgs, Len(msgs) \in Nat
    PROVE  \E f : IsRun(f, base, msgs, Len(msgs))
<1> DEFINE T == {k \in 0 .. Len(msgs) : \E f : IsRun(f, base, msgs, k)}
<1>1. 0 \in T
  <2>1. IsRun([n \in 0 .. 0 |-> base], base, msgs, 0)
    BY DEF IsRun
  <2>2. 0 \in 0 .. Len(msgs)
    OBVIOUS
  <2> QED BY <2>1, <2>2
<1>2. ASSUME NEW k \in 0 .. Len(msgs), k < Len(msgs), k \in T PROVE k + 1 \in T
  <2>1. PICK f : IsRun(f, base, msgs, k)
    BY <1>2
  <2> DEFINE h == [n \in 0 .. k + 1 |->
                      IF n = k + 1 THEN Wx!Step(f[k], msgs[k + 1]) ELSE f[n]]
  <2>2. ASSUME NEW n \in 0 .. k + 1
        PROVE  h[n] = IF n = 0 THEN base ELSE Wx!Step(h[n - 1], msgs[n])
    <3>1. CASE n = k + 1
      <4>1. n # 0 /\ n - 1 = k /\ k \in 0 .. k + 1 /\ k # k + 1
        BY <3>1
      <4>2. h[n - 1] = f[k]
        BY <4>1
      <4>3. h[n] = Wx!Step(f[k], msgs[k + 1])
        BY <3>1
      <4> QED BY <3>1, <4>1, <4>2, <4>3
    <3>2. CASE n # k + 1
      <4>1. n \in 0 .. k /\ h[n] = f[n]
        BY <3>2
      <4>2. f[n] = IF n = 0 THEN base ELSE Wx!Step(f[n - 1], msgs[n])
        BY <2>1, <4>1 DEF IsRun
      <4>3. n # 0 => n - 1 \in 0 .. k + 1 /\ n - 1 # k + 1
        BY <4>1
      <4>4. n # 0 => h[n - 1] = f[n - 1]
        BY <4>3
      <4> QED BY <4>1, <4>2, <4>4
    <3> QED BY <3>1, <3>2
  <2>3. h = [n \in 0 .. k + 1 |-> h[n]]
    OBVIOUS
  <2>4. IsRun(h, base, msgs, k + 1)
    <3> HIDE DEF h
    <3> QED BY <2>2, <2>3 DEF IsRun
  <2>5. k + 1 \in 0 .. Len(msgs)
    BY <1>2
  <2> QED BY <2>4, <2>5
<1>3. \A k \in 0 .. Len(msgs) : k \in T
  <2> HIDE DEF T
  <2>1. \A k \in 0 .. Len(msgs) : (k < Len(msgs) /\ k \in T) => k + 1 \in T
    BY <1>2
  <2> QED BY <1>1, <2>1, UpTo
<1>4. Len(msgs) \in T
  BY <1>3
<1> QED BY <1>4

LEMMA DispatchedSound ==
    ASSUME NEW msgs \in Seq(Wx!Identities), Sound([seen |-> seen, given |-> given]),
           Wx!Dispatched(msgs)
    PROVE  /\ Sound([seen |-> seen', given |-> given'])
           /\ \A x : Has(given, x) => Has(given', x)
           /\ \A i \in 1 .. Len(msgs) : Has(given', msgs[i])
<1> DEFINE base == [seen |-> seen, given |-> given]
           run == CHOOSE f : IsRun(f, base, msgs, Len(msgs))
<1>1. Len(msgs) \in Nat /\ \A i \in 1 .. Len(msgs) : msgs[i] \in Wx!Identities
  OBVIOUS
<1>2. IsRun(run, base, msgs, Len(msgs))
  <2>1. \E f : IsRun(f, base, msgs, Len(msgs))
    BY <1>1, RunExists
  <2> QED BY <2>1
<1>3. seen' = run[Len(msgs)].seen /\ given' = run[Len(msgs)].given
  BY DEF Wx!Dispatched, IsRun
<1> HIDE DEF run
<1>4. run[0] = base
  BY <1>1, <1>2 DEF IsRun
<1>5. \A n \in 1 .. Len(msgs) : run[n] = Wx!Step(run[n - 1], msgs[n])
  BY <1>1, <1>2 DEF IsRun
<1> HIDE DEF base
<1> DEFINE T == {n \in 0 .. Len(msgs) :
                    /\ Sound(run[n])
                    /\ \A x : Has(given, x) => Has(run[n].given, x)
                    /\ \A i \in 1 .. n : Has(run[n].given, msgs[i])}
<1>6. 0 \in T
  BY <1>1, <1>4 DEF base
<1>7. ASSUME NEW n \in 0 .. Len(msgs), n < Len(msgs), n \in T PROVE n + 1 \in T
  <2>1. n + 1 \in 1 .. Len(msgs) /\ (n + 1) - 1 = n
    BY <1>1, <1>7
  <2>2. run[n + 1] = Wx!Step(run[n], msgs[n + 1]) /\ msgs[n + 1] \in Wx!Identities
    BY <1>1, <1>5, <2>1
  <2> DEFINE st == run[n]
             m == msgs[n + 1]
  <2>3. /\ Sound(run[n + 1])
        /\ Has(run[n + 1].given, msgs[n + 1])
        /\ \A x : Has(run[n].given, x) => Has(run[n + 1].given, x)
    <3>1. Sound(st) /\ m \in Wx!Identities /\ run[n + 1] = Wx!Step(st, m)
      BY <1>7, <2>2
    <3> HIDE DEF st, m
    <3>2. /\ Sound(run[n + 1])
          /\ Has(run[n + 1].given, m)
          /\ \A x : Has(st.given, x) => Has(run[n + 1].given, x)
      BY <3>1, StepSound
    <3> QED BY <3>2 DEF st, m
  <2>4. \A i \in 1 .. n + 1 : i = n + 1 \/ i \in 1 .. n
    BY <2>1
  <2> QED BY <1>7, <2>1, <2>3, <2>4
<1>8. Len(msgs) \in T
  <2> HIDE DEF T
  <2>1. \A n \in 0 .. Len(msgs) : (n < Len(msgs) /\ n \in T) => n + 1 \in T
    BY <1>7
  <2>2. \A n \in 0 .. Len(msgs) : n \in T
    BY <1>1, <1>6, <2>1, UpTo
  <2> QED BY <1>1, <2>2
<1>9. run[Len(msgs)] \in WxStates
  BY <1>8 DEF Sound
<1>10. run[Len(msgs)] = [seen |-> seen', given |-> given']
  BY <1>3, <1>9 DEF WxStates
<1> QED BY <1>8, <1>10

(* What the gateway has is stamped in the past or in this second, and the   *)
(* cursor is in a second that is over.                                      *)
StampedBefore ==
    /\ \A m \in DOMAIN stored : stored[m] <= second
    /\ cursor < second

Excused(m) == m \in late \cup unlisted

(* A poll that lists conversations has every message up to its newest row,  *)
(* but for those handed on before and the two cases.                        *)
RowsComplete ==
    pollPc = "listing" =>
        \A m \in DOMAIN stored :
            stored[m] <= newest => m \in rows \/ Has(given, m) \/ Excused(m)

WxInv ==
    /\ Wx!WxTypeOK
    /\ StampedBefore
    /\ rows \subseteq DOMAIN stored
    /\ Sound([seen |-> seen, given |-> given])
    /\ RowsComplete
    /\ Wx!NothingPassedOver

LEMMA PassedOverIs ==
    /\ Wx!NothingPassedOver <=>
           \A m \in DOMAIN stored : stored[m] <= cursor => Has(given, m) \/ Excused(m)
    /\ Wx!NothingPassedOver' <=>
           \A m \in DOMAIN stored' : stored'[m] <= cursor' => Has(given', m) \/ Excused(m)'
BY DEF Wx!NothingPassedOver, Wx!Contains, Has, Excused

LEMMA WxInvInit == Wx!WxInit => WxInv
<1> SUFFICES ASSUME Wx!WxInit PROVE WxInv
  OBVIOUS
<1>1. /\ stored \in Seq(1 .. MaxSecond) /\ Len(stored) = 0 /\ DOMAIN stored = {}
      /\ frames \in Seq(Wx!FrameIds) /\ seen \in Seq(Wx!Identities)
      /\ given \in Seq(Wx!Identities)
      /\ Len(seen) = 0 /\ Len(given) = 0 /\ second = 1 /\ cursor = 0 /\ newest = 0
      /\ late = {} /\ rows = {} /\ unlisted = {} /\ wxClosed = FALSE
      /\ wsPc = "connecting" /\ pollPc = "sleeping"
  BY DEF Wx!WxInit
<1>2. Wx!WxTypeOK
  <2>1. /\ second \in 1 .. MaxSecond /\ Len(stored) <= MaxMsgs /\ Len(seen) <= MaxSeen
        /\ newest \in 0 .. MaxSecond /\ cursor \in 0 .. MaxSecond
    BY <1>1, ChannelsAssumption DEF ChannelsAssumption
  <2>2. rows \subseteq Wx!Msgs /\ late \subseteq Wx!Msgs /\ unlisted \subseteq Wx!Msgs
    BY <1>1
  <2>3. wxClosed \in BOOLEAN
    BY <1>1
  <2> QED BY <1>1, <2>1, <2>2, <2>3 DEF Wx!WxTypeOK
<1>3. Sound([seen |-> seen, given |-> given])
  BY <1>1, ChannelsAssumption DEF Sound, WxStates, SeenIsLast, FarApart, ChannelsAssumption
<1>4. StampedBefore /\ RowsComplete /\ Wx!NothingPassedOver
  BY <1>1, PassedOverIs DEF StampedBefore, RowsComplete
<1> QED BY <1>1, <1>2, <1>3, <1>4 DEF WxInv

LEMMA WxTypes ==
    ASSUME WxInv
    PROVE  /\ second \in 1 .. MaxSecond /\ MaxSecond \in Nat /\ MaxMsgs \in Nat /\ MaxSeen \in Nat
           /\ stored \in Seq(1 .. MaxSecond) /\ Len(stored) \in Nat /\ Len(stored) <= MaxMsgs
           /\ DOMAIN stored = 1 .. Len(stored)
           /\ \A m \in DOMAIN stored : stored[m] \in 1 .. MaxSecond /\ stored[m] <= second
           /\ newest \in 0 .. MaxSecond /\ cursor \in 0 .. MaxSecond /\ cursor < second
           /\ DOMAIN stored \subseteq Wx!Msgs /\ Wx!Msgs \subseteq Wx!Identities
           /\ seen \in Seq(Wx!Identities) /\ given \in Seq(Wx!Identities)
           /\ frames \in Seq(Wx!FrameIds)
<1>1. Wx!WxTypeOK /\ StampedBefore
  BY DEF WxInv
<1>2. MaxSecond \in Nat /\ MaxMsgs \in Nat /\ MaxSeen \in Nat
  BY ChannelsAssumption DEF ChannelsAssumption
<1>3. /\ second \in 1 .. MaxSecond
      /\ stored \in Seq(1 .. MaxSecond) /\ Len(stored) <= MaxMsgs
      /\ newest \in 0 .. MaxSecond /\ cursor \in 0 .. MaxSecond
      /\ seen \in Seq(Wx!Identities) /\ given \in Seq(Wx!Identities)
      /\ frames \in Seq(Wx!FrameIds)
  BY <1>1 DEF Wx!WxTypeOK
<1>4. Len(stored) \in Nat /\ DOMAIN stored = 1 .. Len(stored)
  BY <1>3
<1>5. DOMAIN stored \subseteq Wx!Msgs
  BY <1>2, <1>3, <1>4 DEF Wx!Msgs
<1>6. Wx!Msgs \subseteq Wx!Identities
  BY <1>2 DEF Wx!Msgs, Wx!Identities
<1> QED BY <1>1, <1>2, <1>3, <1>4, <1>5, <1>6 DEF StampedBefore

LEMMA ArrivesKeeps == WxInv /\ Wx!Arrives => WxInv'
<1> SUFFICES ASSUME WxInv, Wx!Arrives PROVE WxInv'
  OBVIOUS
<1> DEFINE n == Len(stored) + 1
<1>1. /\ Len(stored) < MaxMsgs /\ stored' = Append(stored, second)
      /\ late' = IF pollPc = "listing" THEN late \cup {n} ELSE late
      /\ UNCHANGED <<stop, second, wsPc, pollPc, rows, newest, cursor, seen, wxClosed, given, unlisted>>
  BY DEF Wx!Arrives
<1>2. n \in Wx!Msgs
  BY <1>1, WxTypes DEF Wx!Msgs
<1>10. frames' = frames \/ \E i \in Wx!PushedAs(n) : frames' = Append(frames, i)
  BY DEF Wx!Arrives
<1>11. Wx!PushedAs(n) \subseteq Wx!FrameIds
  <2>1. n \in Wx!FrameIds /\ MaxMsgs + n \in Wx!FrameIds /\ 0 \in Wx!FrameIds
    BY <1>2, WxTypes DEF Wx!Msgs, Wx!Identities, Wx!NoIdentity, Wx!FrameIds
  <2> QED BY <2>1, ChannelsAssumption DEF ChannelsAssumption, Wx!PushedAs, Wx!NoIdentity
<1>3. /\ stored' \in Seq(1 .. MaxSecond) /\ Len(stored') = n /\ DOMAIN stored' = 1 .. n
      /\ stored'[n] = second /\ \A m \in 1 .. Len(stored) : stored'[m] = stored[m]
  BY <1>1, WxTypes
<1>4. Wx!WxTypeOK'
  <2>1. frames' \in Seq(Wx!FrameIds)
    <3>1. frames \in Seq(Wx!FrameIds)
      BY WxTypes
    <3>2. \A i \in Wx!FrameIds : Append(frames, i) \in Seq(Wx!FrameIds)
      BY <3>1
    <3> QED BY <1>10, <1>11, <3>1, <3>2
  <2>2. late' \subseteq Wx!Msgs
    BY <1>1, <1>2 DEF WxInv, Wx!WxTypeOK
  <2>3. Len(stored') <= MaxMsgs
    BY <1>1, <1>3, WxTypes
  <2> QED BY <1>1, <1>3, <2>1, <2>2, <2>3 DEF WxInv, Wx!WxTypeOK, Wx!Msgs, Wx!Identities, Wx!FrameIds, Wx!NoIdentity
<1>5. \A m \in DOMAIN stored' : m = n \/ m \in DOMAIN stored
  BY <1>3, WxTypes
<1>6. StampedBefore'
  BY <1>1, <1>3, <1>5, WxTypes DEF StampedBefore
<1>7. RowsComplete'
  <2> SUFFICES ASSUME pollPc' = "listing", NEW m \in DOMAIN stored', stored'[m] <= newest'
               PROVE  m \in rows' \/ Has(given', m) \/ Excused(m)'
    BY DEF RowsComplete
  <2>1. CASE m = n
    BY <1>1, <2>1 DEF Excused
  <2>2. CASE m # n
    <3>1. m \in DOMAIN stored /\ stored'[m] = stored[m]
      BY <1>3, <1>5, <2>2, WxTypes
    <3> QED BY <1>1, <3>1 DEF WxInv, RowsComplete, Excused
  <2> QED BY <2>1, <2>2
<1>8. Wx!NothingPassedOver'
  <2>1. \A m \in DOMAIN stored' : stored'[m] <= cursor => m \in DOMAIN stored /\ stored'[m] = stored[m]
    BY <1>3, <1>5, WxTypes
  <2> QED BY <1>1, <2>1, PassedOverIs DEF WxInv, Excused
<1>9. rows' \subseteq DOMAIN stored'
  BY <1>1, <1>3, WxTypes DEF WxInv
<1> QED BY <1>1, <1>4, <1>6, <1>7, <1>8, <1>9 DEF WxInv

(* A step that hands nothing on, moves no cursor and asks for no rows.      *)
LEMMA QuietKeeps ==
    ASSUME WxInv, Wx!WxTypeOK',
           UNCHANGED <<stored, late, cursor, seen, given, unlisted>>, second' >= second,
           pollPc' = "listing" => pollPc = "listing" /\ UNCHANGED <<rows, newest>>,
           rows' \subseteq rows
    PROVE  WxInv'
<1>1. StampedBefore'
  <2>1. second' \in Nat
    BY DEF Wx!WxTypeOK
  <2> QED BY <2>1, WxTypes DEF StampedBefore
<1>2. RowsComplete'
  BY DEF WxInv, RowsComplete, Excused
<1>3. Wx!NothingPassedOver'
  BY PassedOverIs DEF WxInv, Excused
<1> QED BY <1>1, <1>2, <1>3 DEF WxInv

LEMMA QuietSteps ==
    ASSUME WxInv,
           \/ Wx!SecondPasses \/ Wx!Connects \/ Wx!SocketEnds \/ Wx!WsBackoffEnds
           \/ Wx!PollWakes \/ Wx!PollFailed
           \/ Wx!WxClose \/ Wx!PollCancelled \/ Wx!WxCancelled
    PROVE  WxInv'
<1>1. Wx!WxTypeOK
  BY DEF WxInv
<1>2. UNCHANGED <<stored, late, cursor, seen, given, unlisted>>
  BY DEF Wx!SecondPasses, Wx!Connects, Wx!SocketEnds, Wx!WsBackoffEnds, Wx!PollWakes,
         Wx!PollFailed, Wx!WxClose, Wx!PollCancelled, Wx!WxCancelled, Wx!gatewayVars
<1>3. second' \in 1 .. MaxSecond /\ second' >= second
  BY WxTypes
     DEF Wx!SecondPasses, Wx!Connects, Wx!SocketEnds, Wx!WsBackoffEnds, Wx!PollWakes,
         Wx!PollFailed, Wx!WxClose, Wx!PollCancelled, Wx!WxCancelled, Wx!gatewayVars
<1>4. /\ rows' \subseteq rows
      /\ pollPc' = "listing" => pollPc = "listing" /\ UNCHANGED <<rows, newest>>
      /\ pollPc' \in {"sleeping", "polling", "listing", "exited"}
      /\ newest' = 0 \/ newest' = newest
  BY <1>1
     DEF Wx!WxTypeOK, Wx!SecondPasses, Wx!Connects, Wx!SocketEnds, Wx!WsBackoffEnds, Wx!PollWakes,
         Wx!PollFailed, Wx!WxClose, Wx!PollCancelled, Wx!WxCancelled, Wx!gatewayVars
<1>5. frames' = frames \/ frames' = <<>>
  BY DEF Wx!SecondPasses, Wx!Connects, Wx!SocketEnds, Wx!WsBackoffEnds, Wx!PollWakes,
         Wx!PollFailed, Wx!WxClose, Wx!PollCancelled, Wx!WxCancelled, Wx!gatewayVars
<1>6. wsPc' \in {"connecting", "open", "backoff", "exited"}
  BY <1>1
     DEF Wx!WxTypeOK, Wx!SecondPasses, Wx!Connects, Wx!SocketEnds, Wx!WsBackoffEnds, Wx!PollWakes,
         Wx!PollFailed, Wx!WxClose, Wx!PollCancelled, Wx!WxCancelled, Wx!gatewayVars
<1>7. wxClosed' = wxClosed \/ wxClosed' = TRUE
  BY DEF Wx!SecondPasses, Wx!Connects, Wx!SocketEnds, Wx!WsBackoffEnds, Wx!PollWakes,
         Wx!PollFailed, Wx!WxClose, Wx!PollCancelled, Wx!WxCancelled, Wx!gatewayVars
<1>8. wxClosed' \in BOOLEAN
  BY <1>1, <1>7 DEF Wx!WxTypeOK
<1>9. newest' \in 0 .. MaxSecond /\ frames' \in Seq(Wx!FrameIds)
  <2>1. newest' \in 0 .. MaxSecond
    BY <1>4, WxTypes
  <2>2. <<>> \in Seq(Wx!FrameIds)
    OBVIOUS
  <2> QED BY <1>5, <2>1, <2>2, WxTypes
<1>10. Wx!WxTypeOK'
  BY <1>1, <1>2, <1>3, <1>4, <1>6, <1>8, <1>9 DEF Wx!WxTypeOK, Wx!Msgs, Wx!Identities, Wx!FrameIds, Wx!NoIdentity
<1> QED BY <1>2, <1>3, <1>4, <1>10, QuietKeeps

LEMMA FrameKeeps == WxInv /\ Wx!FrameArrives => WxInv'
<1> SUFFICES ASSUME WxInv, Wx!FrameArrives PROVE WxInv'
  OBVIOUS
<1>1. /\ wsPc = "open" /\ frames # <<>> /\ frames' = Tail(frames)
      /\ IF stop THEN wsPc' = "exited" /\ UNCHANGED <<seen, given>>
                 ELSE /\ wsPc' = wsPc
                      /\ \/ Head(frames) = Wx!NoIdentity /\ UNCHANGED <<seen, given>>
                         \/ Head(frames) # Wx!NoIdentity /\ Wx!Dispatched(<<Head(frames)>>)
      /\ UNCHANGED <<stop, second, stored, late, pollPc, rows, newest, cursor, wxClosed, unlisted>>
  BY DEF Wx!FrameArrives, Wx!DispatchedUnnamed, Wx!gatewayVars
<1>2. frames' \in Seq(Wx!FrameIds) /\ Head(frames) \in Wx!FrameIds
  <2>1. frames \in Seq(Wx!FrameIds) /\ frames # <<>>
    BY <1>1, WxTypes
  <2>2. Tail(frames) \in Seq(Wx!FrameIds) /\ Head(frames) \in Wx!FrameIds
    BY <2>1, HeadTailProperties
  <2> QED BY <1>1, <2>2
<1>3. /\ Sound([seen |-> seen', given |-> given'])
      /\ \A x : Has(given, x) => Has(given', x)
  <2>1. CASE UNCHANGED <<seen, given>>
    BY <2>1 DEF WxInv
  <2>2. CASE Head(frames) # Wx!NoIdentity /\ Wx!Dispatched(<<Head(frames)>>)
    <3>1. Head(frames) \in Wx!Identities
      BY <1>2, <2>2 DEF Wx!FrameIds
    <3>2. <<Head(frames)>> \in Seq(Wx!Identities)
      BY <3>1
    <3> QED BY <2>2, <3>2, DispatchedSound DEF WxInv
  <2> QED BY <1>1, <2>1, <2>2
<1>4. Wx!WxTypeOK'
  <2>1. seen' \in Seq(Wx!Identities) /\ given' \in Seq(Wx!Identities) /\ Len(seen') <= MaxSeen
    BY <1>3 DEF Sound, WxStates, SeenIsLast
  <2> QED BY <1>1, <1>2, <2>1 DEF WxInv, Wx!WxTypeOK, Wx!Msgs, Wx!Identities, Wx!FrameIds, Wx!NoIdentity
<1>5. StampedBefore'
  BY <1>1 DEF WxInv, StampedBefore
<1>6. RowsComplete'
  BY <1>1, <1>3 DEF WxInv, RowsComplete, Excused
<1>7. Wx!NothingPassedOver'
  BY <1>1, <1>3, PassedOverIs DEF WxInv, Excused
<1> QED BY <1>1, <1>3, <1>4, <1>5, <1>6, <1>7 DEF WxInv

(* The cursor moves on to a row's second at most, and never into the second *)
(* that is not over.                                                        *)
LEMMA CursorMoves ==
    ASSUME WxInv, NEW row \in 0 .. MaxSecond
    PROVE  /\ Wx!CursorAfter(row) \in 0 .. MaxSecond /\ Wx!CursorAfter(row) < second
           /\ \A t \in Nat : t <= Wx!CursorAfter(row) => t <= cursor \/ t <= row
BY WxTypes DEF Wx!CursorAfter, Wx!Later

(* A set of numbers up to a bound has a largest one.                        *)
LEMMA LargestExists ==
    ASSUME NEW n \in Nat, NEW S \in SUBSET (0 .. n), S # {}
    PROVE  \E x \in S : \A y \in S : x >= y
<1> DEFINE below == {k \in 0 .. n : n - k \in S}
<1>1. below \subseteq Nat
  OBVIOUS
<1>2. below # {}
  <2>1. PICK x \in S : TRUE
    OBVIOUS
  <2>2. n - x \in 0 .. n /\ n - (n - x) = x
    OBVIOUS
  <2> QED BY <2>1, <2>2
<1>3. PICK k \in below : \A j \in below : ~ (<<j, k>> \in OpToRel(<, Nat))
  BY <1>1, <1>2, NatLessThanWellFounded, WFMin
<1>4. \A j \in below : ~ (j < k)
  BY <1>1, <1>3 DEF OpToRel
<1>5. ASSUME NEW y \in S PROVE n - k >= y
  <2>1. n - y \in 0 .. n /\ n - (n - y) = y
    OBVIOUS
  <2>2. n - y \in below
    BY <2>1
  <2> QED BY <1>4, <2>1, <2>2
<1> QED BY <1>3, <1>5

LEMMA AnswerKeeps == WxInv /\ Wx!PollAnswered => WxInv'
<1> SUFFICES ASSUME WxInv, Wx!PollAnswered PROVE WxInv'
  OBVIOUS
<1> DEFINE found == Wx!Since(cursor)
           unseen == {m \in found : ~ Wx!Contains(seen, m)}
           times == {stored[m] : m \in found}
           last == IF found = {} THEN cursor ELSE Wx!Max(times)
<1>1. /\ pollPc = "polling"
      /\ UNCHANGED <<stop, second, stored, late, wsPc, frames, seen, wxClosed, given, unlisted>>
      /\ IF unseen = {}
         THEN cursor' = Wx!CursorAfter(last) /\ pollPc' = "sleeping" /\ UNCHANGED <<rows, newest>>
         ELSE rows' = unseen /\ newest' = last /\ pollPc' = "listing" /\ UNCHANGED cursor
  BY DEF Wx!PollAnswered, Wx!gatewayVars
<1>2. found \subseteq DOMAIN stored /\ \A m \in DOMAIN stored : stored[m] > cursor => m \in found
  BY DEF Wx!Since
<1>3. last \in 0 .. MaxSecond
  <2>1. CASE found = {}
    BY <2>1, WxTypes
  <2>2. CASE found # {}
    <3>1. times \in SUBSET (0 .. MaxSecond) /\ times # {}
      BY <1>2, <2>2, WxTypes
    <3>2. \E x \in times : \A y \in times : x >= y
      <4> HIDE DEF times
      <4> QED BY <3>1, LargestExists, WxTypes
    <3>3. Wx!Max(times) \in times
      <4> HIDE DEF times
      <4> QED BY <3>2 DEF Wx!Max
    <3> QED BY <2>2, <3>1, <3>3
  <2> QED BY <2>1, <2>2
<1>4. \A m \in DOMAIN stored : m \in found /\ m \notin unseen => Has(given, m)
  <2> SUFFICES ASSUME NEW m \in DOMAIN stored, Wx!Contains(seen, m) PROVE Has(given, m)
    OBVIOUS
  <2>1. PICK i \in 1 .. Len(seen) : seen[i] = m
    BY DEF Wx!Contains
  <2>2. SeenIsLast(seen, given)
    BY DEF WxInv, Sound
  <2>3. Len(given) \in Nat /\ Len(seen) \in Nat
    BY WxTypes
  <2>4. Len(given) - Len(seen) + i \in 1 .. Len(given)
    BY <2>2, <2>3 DEF SeenIsLast
  <2> QED BY <2>1, <2>2, <2>4 DEF SeenIsLast, Has
<1>5. unseen \subseteq DOMAIN stored
  BY <1>2
<1>6. \A m \in DOMAIN stored : stored[m] <= cursor => Has(given, m) \/ Excused(m)
  BY PassedOverIs DEF WxInv
<1> HIDE DEF found, unseen, times, last
<1>7. \A m \in DOMAIN stored : m \in unseen \/ Has(given, m) \/ Excused(m)
  <2> SUFFICES ASSUME NEW m \in DOMAIN stored, m \notin unseen
               PROVE  Has(given, m) \/ Excused(m)
    OBVIOUS
  <2>1. stored[m] > cursor \/ stored[m] <= cursor
    BY WxTypes
  <2> QED BY <1>2, <1>4, <1>6, <2>1
<1>8. CASE unseen = {}
  <2>1. cursor' = Wx!CursorAfter(last) /\ pollPc' = "sleeping" /\ UNCHANGED <<rows, newest>>
    BY <1>1, <1>8
  <2>2. cursor' \in 0 .. MaxSecond /\ cursor' < second
    BY <1>3, <2>1, CursorMoves
  <2>3. Wx!WxTypeOK'
    BY <1>1, <2>1, <2>2 DEF WxInv, Wx!WxTypeOK, Wx!Msgs, Wx!Identities, Wx!FrameIds, Wx!NoIdentity
  <2>4. StampedBefore' /\ RowsComplete'
    BY <1>1, <2>1, <2>2 DEF WxInv, StampedBefore, RowsComplete
  <2>5. Wx!NothingPassedOver'
    BY <1>1, <1>7, <1>8, PassedOverIs DEF Excused
  <2> QED BY <1>1, <2>1, <2>3, <2>4, <2>5 DEF WxInv
<1>9. CASE unseen # {}
  <2>1. rows' = unseen /\ newest' = last /\ pollPc' = "listing" /\ UNCHANGED cursor
    BY <1>1, <1>9
  <2>2. rows' \subseteq DOMAIN stored' /\ rows' \subseteq Wx!Msgs'
    BY <1>1, <1>5, <2>1, WxTypes DEF Wx!Msgs
  <2>3. Wx!WxTypeOK'
    BY <1>1, <1>3, <2>1, <2>2 DEF WxInv, Wx!WxTypeOK, Wx!Msgs, Wx!Identities, Wx!FrameIds, Wx!NoIdentity
  <2>4. StampedBefore'
    BY <1>1, <2>1 DEF WxInv, StampedBefore
  <2>5. RowsComplete'
    BY <1>1, <1>7, <2>1 DEF RowsComplete, Excused
  <2>6. Wx!NothingPassedOver'
    BY <1>1, <1>6, <2>1, PassedOverIs DEF Excused
  <2> QED BY <1>1, <2>2, <2>3, <2>4, <2>5, <2>6 DEF WxInv
<1> QED BY <1>8, <1>9

LEMMA ListedKeeps == WxInv /\ Wx!Listed => WxInv'
<1> SUFFICES ASSUME WxInv, Wx!Listed PROVE WxInv'
  OBVIOUS
<1>1. /\ pollPc = "listing"
      /\ cursor' = Wx!CursorAfter(newest) /\ rows' = {} /\ newest' = 0 /\ pollPc' = "sleeping"
      /\ UNCHANGED <<stop, second, stored, late, wsPc, frames, wxClosed>>
  BY DEF Wx!Listed, Wx!gatewayVars
<1>0. PICK known \in SUBSET rows :
         /\ \E order \in Wx!SetToSeqs(known) : Wx!Dispatched(order)
         /\ unlisted' = unlisted \cup (rows \ known)
  BY DEF Wx!Listed, Wx!Parsed
<1>2. PICK order \in Wx!SetToSeqs(known) :
         Wx!Dispatched(order) /\ unlisted' = unlisted \cup (rows \ known)
  BY <1>0
<1>3. rows \subseteq DOMAIN stored /\ rows \subseteq Wx!Msgs
  BY WxTypes DEF WxInv
<1>4. IsFiniteSet(known)
  <2>1. IsFiniteSet(1 .. Len(stored))
    BY WxTypes, FS_Interval
  <2> QED BY <1>2, <1>3, <2>1, WxTypes, FS_Subset
<1>5. /\ order \in Seq(known)
      /\ \A x \in known : \E i \in 1 .. Len(order) : order[i] = x
  <2>1. /\ order \in [1 .. Cardinality(known) -> known]
        /\ \A i, j \in 1 .. Cardinality(known) : i # j => order[i] # order[j]
    BY CardinalityWx DEF Wx!SetToSeqs
  <2> QED BY <1>4, <2>1, ListingIsAll
<1>6. order \in Seq(Wx!Identities)
  BY <1>2, <1>3, <1>5, WxTypes
<1>7. /\ Sound([seen |-> seen', given |-> given'])
      /\ \A x : Has(given, x) => Has(given', x)
      /\ \A x \in known : Has(given', x)
  <2>1. Sound([seen |-> seen, given |-> given])
    BY DEF WxInv
  <2>2. /\ Sound([seen |-> seen', given |-> given'])
        /\ \A x : Has(given, x) => Has(given', x)
        /\ \A i \in 1 .. Len(order) : Has(given', order[i])
    BY <1>2, <1>6, <2>1, DispatchedSound
  <2> QED BY <1>5, <2>2
<1>8. cursor' \in 0 .. MaxSecond /\ cursor' < second
      /\ \A t \in Nat : t <= cursor' => t <= cursor \/ t <= newest
  BY <1>1, WxTypes, CursorMoves
<1>9. Wx!WxTypeOK'
  <2>1. seen' \in Seq(Wx!Identities) /\ given' \in Seq(Wx!Identities) /\ Len(seen') <= MaxSeen
    BY <1>7 DEF Sound, WxStates, SeenIsLast
  <2>2. unlisted' \subseteq Wx!Msgs
    BY <1>2, <1>3 DEF WxInv, Wx!WxTypeOK
  <2>3. newest' \in 0 .. MaxSecond
    BY <1>1, WxTypes
  <2> QED BY <1>1, <1>8, <2>1, <2>2, <2>3 DEF WxInv, Wx!WxTypeOK, Wx!Msgs, Wx!Identities, Wx!FrameIds, Wx!NoIdentity
<1>10. StampedBefore' /\ RowsComplete'
  BY <1>1, <1>8 DEF WxInv, StampedBefore, RowsComplete
<1>11. Wx!NothingPassedOver'
  <2> SUFFICES ASSUME NEW m \in DOMAIN stored, stored[m] <= cursor'
               PROVE  Has(given', m) \/ Excused(m)'
    BY <1>1, PassedOverIs
  <2>1. stored[m] <= cursor \/ stored[m] <= newest
    BY <1>8, WxTypes
  <2>2. m \in rows \/ Has(given, m) \/ Excused(m)
    BY <1>1, <2>1, PassedOverIs DEF WxInv, RowsComplete
  <2> QED BY <1>1, <1>2, <1>7, <2>2 DEF Excused
<1> QED BY <1>1, <1>7, <1>9, <1>10, <1>11 DEF WxInv

LEMMA WxInvNext ==
    WxInv /\ (Wx!WxNext \/ Wx!WxClose \/ Wx!WxCancelled) => WxInv'
BY ArrivesKeeps, QuietSteps, FrameKeeps, AnswerKeeps, ListedKeeps DEF Wx!WxNext, Wx!PollStep

-----------------------------------------------------------------------------
(* The daemon. *)

DaemonInv ==
    /\ TgInv /\ WxInv
    /\ phase \in Phases

LEMMA DaemonInvInit == DaemonInit => DaemonInv
BY TgInvInit, WxInvInit DEF DaemonInit, DaemonInv, Phases

LEMMA TgInvSame ==
    TgInv /\ UNCHANGED tgVars /\ stop' \in BOOLEAN => TgInv'
BY DEF tgVars, TgInv, Tg!TgTypeOK, AskedIsHandled, Tg!ConfirmedIsHandled

LEMMA WxInvSame ==
    WxInv /\ UNCHANGED wxVars => WxInv'
BY DEF wxVars, WxInv, Wx!WxTypeOK, Wx!Msgs, Wx!Identities, Wx!FrameIds, Wx!NoIdentity, StampedBefore, RowsComplete, Excused,
       Wx!NothingPassedOver, Wx!Contains

LEMMA DaemonInvNext == DaemonInv /\ [DaemonNext]_daemonVars => DaemonInv'
<1> SUFFICES ASSUME DaemonInv, [DaemonNext]_daemonVars PROVE DaemonInv'
  OBVIOUS
<1>0. stop \in BOOLEAN
  BY DEF DaemonInv, TgInv, Tg!TgTypeOK
<1>1. CASE WxStep
  <2>1. stop' = stop
    BY <1>1 DEF WxStep, Wx!WxNext, Wx!PollStep, Wx!Arrives, Wx!SecondPasses, Wx!Connects,
         Wx!FrameArrives, Wx!SocketEnds, Wx!WsBackoffEnds, Wx!PollWakes, Wx!PollAnswered,
         Wx!Listed, Wx!PollFailed, Wx!PollCancelled
  <2> QED BY <1>0, <1>1, <2>1, WxInvNext, TgInvSame DEF WxStep, DaemonInv
<1>2. CASE TgStep
  BY <1>2, TgInvNext, WxInvSame DEF TgStep, DaemonInv
<1>3. CASE StopsAll
  BY <1>3, TgInvSame, WxInvSame DEF StopsAll, DaemonInv, Phases
<1>4. CASE AdaptersClosed
  <2>1. stop' = stop
    BY <1>4 DEF AdaptersClosed, Wx!WxClose
  <2> QED BY <1>0, <1>4, <2>1, WxInvNext, TgInvSame DEF AdaptersClosed, DaemonInv, Phases
<1>5. CASE RunnerCancelled
  <2>1. CASE Wx!WxCancelled /\ UNCHANGED <<tgVars, phase>>
    <3>1. stop' = stop
      BY <2>1 DEF Wx!WxCancelled
    <3> QED BY <1>0, <2>1, <3>1, WxInvNext, TgInvSame DEF DaemonInv
  <2>2. CASE Tg!TgCancelled /\ UNCHANGED <<wxVars, phase>>
    BY <2>2, TgInvNext, WxInvSame DEF DaemonInv
  <2> QED BY <1>5, <2>1, <2>2 DEF RunnerCancelled
<1>6. CASE Down
  BY <1>0, <1>6, TgInvSame, WxInvSame DEF Down, DaemonInv, Phases
<1>7. CASE UNCHANGED daemonVars
  BY <1>0, <1>7, TgInvSame, WxInvSame DEF daemonVars, DaemonInv
<1> QED BY <1>1, <1>2, <1>3, <1>4, <1>5, <1>6, <1>7
        DEF DaemonNext, FirstEnds, Interrupted, Supervisor

LEMMA DaemonInvariant == DaemonSpec => []DaemonInv
BY DaemonInvInit, DaemonInvNext, PTL DEF DaemonSpec

(* Types of the daemon with both adapters.                                  *)
THEOREM DaemonTypeCorrect == DaemonSpec => []DaemonTypeOK
<1>1. DaemonInv => DaemonTypeOK
  BY DEF DaemonInv, TgInv, WxInv, DaemonTypeOK
<1> QED BY <1>1, DaemonInvariant, PTL

(* WeChat: the handler gets a message again under the same identity only    *)
(* after as many others as the adapter remembers, whichever feeds bring it  *)
(* and whichever identities the gateway gives its frames (_dispatch).       *)
THEOREM NoneHandledTwice == DaemonSpec => []HandledOnce
<1>1. DaemonInv => HandledOnce
  <2> SUFFICES ASSUME DaemonInv PROVE HandledOnce
    OBVIOUS
  <2>1. FarApart(given) /\ DOMAIN given = 1 .. Len(given)
    BY WxTypes DEF DaemonInv, WxInv, Sound
  <2> QED BY <2>1 DEF HandledOnce, Wx!HandledOnce, FarApart
<1> QED BY <1>1, DaemonInvariant, PTL

(* WeChat: the cursor passes over no message that was not handed on, but    *)
(* for those of unlisted conversations and those stored while a poll was    *)
(* worked on (_poll_loop).                                                  *)
THEOREM NonePassedOver == DaemonSpec => []NothingPassedOver
<1>1. DaemonInv => NothingPassedOver
  BY DEF DaemonInv, WxInv, NothingPassedOver
<1> QED BY <1>1, DaemonInvariant, PTL

(* Telegram: what is acknowledged was handed on, once and in order (run).   *)
THEOREM AcknowledgedIsHandled == DaemonSpec => []ConfirmedIsHandled
<1>1. DaemonInv => ConfirmedIsHandled
  BY DEF DaemonInv, TgInv, ConfirmedIsHandled
<1> QED BY <1>1, DaemonInvariant, PTL
=============================================================================
