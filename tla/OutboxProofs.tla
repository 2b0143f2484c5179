---------------------------- MODULE OutboxProofs ----------------------------
(***************************************************************************)
(* Proofs about Outbox for every set of sessions, every outbox_max, and    *)
(* any number of events and connections.                                   *)
(*                                                                         *)
(* The inductive invariant adds to the properties: the envelopes found     *)
(* anywhere (Known) carry node_seqs already given out, and one node_seq    *)
(* names one envelope, so a resend is recognised; and every acknowledgement*)
(* under way covers only what the relay has stored, so a late one is as    *)
(* safe as a prompt one.  ReportInv and OrderInv, further down, are what     *)
(* the report of overflows and the order of the log need beside it.        *)
(***************************************************************************)
EXTENDS Outbox, SequenceTheorems, TLAPS

Warnings == {Warning(s) : s \in Sessions}

FlushTail == IF flush.pc = "resend" THEN Elements(flush.tail) ELSE {}

(* The envelopes the node, the wire or the relay hold, or that were dropped. *)
Known ==
    Elements(outbox) \cup Elements(upWire) \cup Elements(relayLog)
        \cup FlushTail \cup trimmed

KnownEmitted == \A e \in Known : e.node_seq <= nodeSeq

OneEnvelopePerSeq ==
    \A e, f \in Known :
        e.node_seq = f.node_seq /\ e.node_seq # 0 => e = f

(* Warnings live on the wire alone. *)
OnlyEventsKept ==
    \A e \in FlushTail \cup Elements(relayLog) \cup trimmed : e.node_seq # 0

AcksCoverStored ==
    \A i \in 1 .. Len(downWire) : HoldsUpTo(relayLog, downWire[i])

StoredOnlyOnce ==
    \A i, j \in 1 .. Len(relayLog) :
        relayLog[i].node_seq = relayLog[j].node_seq => i = j

IInv ==
    /\ TypeOK
    /\ OutboxIsNewest
    /\ Len(outbox) <= nodeSeq
    /\ KnownEmitted
    /\ OneEnvelopePerSeq
    /\ OnlyEventsKept
    /\ AcksCoverStored
    /\ StoredOnlyOnce
    /\ NothingForgotten

-----------------------------------------------------------------------------
(* Sequences. *)

(* Appending adds one element. *)
LEMMA ElementsAppend ==
    ASSUME NEW S, NEW q \in Seq(S), NEW e \in S
    PROVE  /\ Append(q, e) \in Seq(S)
           /\ Len(Append(q, e)) = Len(q) + 1
           /\ \A i \in 1 .. Len(q) : Append(q, e)[i] = q[i]
           /\ Append(q, e)[Len(q) + 1] = e
           /\ Elements(Append(q, e)) = Elements(q) \cup {e}
<1>1. /\ Append(q, e) \in Seq(S)
      /\ Len(Append(q, e)) = Len(q) + 1
      /\ \A i \in 1 .. Len(q) : Append(q, e)[i] = q[i]
      /\ Append(q, e)[Len(q) + 1] = e
  BY AppendProperties
<1>2. Len(q) \in Nat
  BY LenProperties
<1>3. Elements(Append(q, e)) \subseteq Elements(q) \cup {e}
  BY <1>1, <1>2 DEF Elements
<1>4. Elements(q) \cup {e} \subseteq Elements(Append(q, e))
  BY <1>1, <1>2 DEF Elements
<1> QED
  BY <1>1, <1>3, <1>4

(* A stretch of a sequence: its length, its entries, its elements. *)
LEMMA ElementsSubSeq ==
    ASSUME NEW S, NEW q \in Seq(S),
           NEW m \in 1 .. Len(q) + 1, NEW n \in m - 1 .. Len(q)
    PROVE  /\ SubSeq(q, m, n) \in Seq(S)
           /\ Len(SubSeq(q, m, n)) = n - m + 1
           /\ \A i \in 1 .. n - m + 1 : SubSeq(q, m, n)[i] = q[m + i - 1]
           /\ Elements(SubSeq(q, m, n)) \subseteq Elements(q)
<1>1. Len(q) \in Nat
  BY LenProperties
<1>2. \A i \in m .. n : q[i] \in S
  BY <1>1, ElementOfSeq
<1>3. /\ SubSeq(q, m, n) \in Seq(S)
      /\ Len(SubSeq(q, m, n)) = IF m <= n THEN n - m + 1 ELSE 0
      /\ \A i \in 1 .. n - m + 1 : SubSeq(q, m, n)[i] = q[m + i - 1]
  BY <1>1, <1>2, SubSeqProperties
<1>4. Len(SubSeq(q, m, n)) = n - m + 1
  BY <1>1, <1>3
<1>5. Elements(SubSeq(q, m, n)) \subseteq Elements(q)
  BY <1>1, <1>3, <1>4 DEF Elements
<1> QED
  BY <1>3, <1>4, <1>5

(* Head and tail of a sequence that is not empty. *)
LEMMA ElementsTail ==
    ASSUME NEW S, NEW q \in Seq(S), q # <<>>
    PROVE  /\ Head(q) \in S
           /\ Head(q) = q[1]
           /\ Head(q) \in Elements(q)
           /\ Tail(q) \in Seq(S)
           /\ Len(Tail(q)) = Len(q) - 1
           /\ \A i \in 1 .. Len(Tail(q)) : Tail(q)[i] = q[i + 1]
           /\ Elements(Tail(q)) \subseteq Elements(q)
<1>1. Len(q) \in Nat \ {0}
  BY EmptySeq
<1>2. /\ Head(q) \in S
      /\ Tail(q) \in Seq(S)
      /\ Len(Tail(q)) = Len(q) - 1
      /\ \A i \in 1 .. Len(Tail(q)) : Tail(q)[i] = q[i + 1]
  BY HeadTailProperties
<1>3. Head(q) = q[1]
  OBVIOUS
<1>4. Head(q) \in Elements(q)
  BY <1>1, <1>3 DEF Elements
<1>5. Elements(Tail(q)) \subseteq Elements(q)
  BY <1>1, <1>2 DEF Elements
<1> QED
  BY <1>2, <1>3, <1>4, <1>5

(* The empty sequence. *)
LEMMA ElementsEmpty ==
    ASSUME NEW S
    PROVE  <<>> \in Seq(S) /\ Len(<<>>) = 0 /\ Elements(<<>>) = {}
<1>1. <<>> \in Seq(S) /\ Len(<<>>) = 0
  BY EmptySeq
<1>2. Elements(<<>>) = {}
  BY <1>1 DEF Elements
<1> QED
  BY <1>1, <1>2

-----------------------------------------------------------------------------
(* What a step may do to the envelopes that are known. *)

(* Everything known is an envelope. *)
LEMMA KnownTyped == TypeOK => Known \subseteq Envelope
<1> SUFFICES ASSUME TypeOK PROVE Known \subseteq Envelope
  OBVIOUS
<1>1. \A q \in Seq(Envelope) : Elements(q) \subseteq Envelope
  BY ElementOfSeq DEF Elements
<1>2. FlushTail \subseteq Envelope
  BY <1>1 DEF TypeOK, FlushState, FlushTail
<1> QED
  BY <1>1, <1>2 DEF Known, TypeOK

(* A step that only moves, drops or repeats envelopes, or sends warnings,   *)
(* keeps them numbered and unambiguous.                                     *)
LEMMA KnownPreserved ==
    ASSUME TypeOK, KnownEmitted, OneEnvelopePerSeq,
           nodeSeq' = nodeSeq,
           Known' \subseteq Known \cup Warnings
    PROVE  KnownEmitted' /\ OneEnvelopePerSeq'
<1>1. \A e \in Warnings : e.node_seq = 0
  BY DEF Warnings, Warning
<1>2. nodeSeq \in Nat
  BY DEF TypeOK
<1>3. KnownEmitted'
  BY <1>1, <1>2 DEF KnownEmitted
<1>4. OneEnvelopePerSeq'
  BY <1>1 DEF OneEnvelopePerSeq
<1> QED
  BY <1>3, <1>4

(* Losing or reading acknowledgements adds none. *)
LEMMA AcksShrink ==
    ASSUME AcksCoverStored, relayLog' = relayLog,
           \A i \in 1 .. Len(downWire') :
               \E j \in 1 .. Len(downWire) : downWire'[i] = downWire[j]
    PROVE  AcksCoverStored'
BY DEF AcksCoverStored

(* A piece of the flush sends one warning or one event of its snapshot. *)
LEMMA FlushOnFrames ==
    ASSUME NEW warn \in SUBSET Sessions, NEW tail \in Seq(Envelope),
           NEW wire \in Seq(Envelope), NEW open \in BOOLEAN,
           FlushOn(warn, tail, wire, open)
    PROVE  /\ flush' \in FlushState
           /\ upWire' \in Seq(Envelope)
           /\ Elements(upWire') \subseteq
                Elements(wire) \cup Elements(tail) \cup Warnings
           /\ FlushTail' \subseteq Elements(tail)
<1>1. CASE \E s \in warn :
             /\ flush' = [pc |-> "warn", sid |-> s, left |-> warn \ {s},
                          taken |-> open]
             /\ upWire' = IF open THEN Append(wire, Warning(s)) ELSE wire
  <2>1. PICK s \in warn :
             /\ flush' = [pc |-> "warn", sid |-> s, left |-> warn \ {s},
                          taken |-> open]
             /\ upWire' = IF open THEN Append(wire, Warning(s)) ELSE wire
    BY <1>1
  <2>2. Warning(s) \in Envelope /\ Warning(s) \in Warnings
    BY DEF Warning, Warnings, Envelope
  <2>3. flush' \in FlushState /\ FlushTail' = {}
    BY <2>1 DEF FlushState, FlushTail
  <2>4. /\ upWire' \in Seq(Envelope)
        /\ Elements(upWire') \subseteq Elements(wire) \cup {Warning(s)}
    BY <2>1, <2>2, ElementsAppend
  <2> QED
    BY <2>2, <2>3, <2>4
<1>2. CASE /\ tail # <<>>
           /\ flush' = [pc |-> "resend", tail |-> Tail(tail)]
           /\ upWire' = IF open THEN Append(wire, Head(tail)) ELSE wire
  <2>1. /\ Head(tail) \in Envelope
        /\ Head(tail) \in Elements(tail)
        /\ Tail(tail) \in Seq(Envelope)
        /\ Elements(Tail(tail)) \subseteq Elements(tail)
    BY <1>2, ElementsTail
  <2>2. flush' \in FlushState /\ FlushTail' \subseteq Elements(tail)
    BY <1>2, <2>1 DEF FlushState, FlushTail
  <2>3. /\ upWire' \in Seq(Envelope)
        /\ Elements(upWire') \subseteq Elements(wire) \cup {Head(tail)}
    BY <1>2, <2>1, ElementsAppend
  <2> QED
    BY <2>1, <2>2, <2>3
<1>3. CASE flush' = Idle /\ upWire' = wire
  BY <1>3 DEF FlushState, FlushTail, Idle
<1> QED
  BY <1>1, <1>2, <1>3 DEF FlushOn

-----------------------------------------------------------------------------
(* The inductive invariant holds initially and every action keeps it. *)

(* Initially nothing was emitted, sent or stored. *)
LEMMA InitInv == Init => IInv
<1> SUFFICES ASSUME Init PROVE IInv
  OBVIOUS
<1>1. /\ outbox = <<>> /\ upWire = <<>> /\ downWire = <<>> /\ relayLog = <<>>
      /\ Len(outbox) = 0 /\ Len(downWire) = 0 /\ Len(relayLog) = 0
  BY ElementsEmpty DEF Init
<1>2. TypeOK
  BY <1>1, ElementsEmpty, OutboxAssumption DEF Init, TypeOK, FlushState, Idle
<1>3. FlushTail = {} /\ Known = {} /\ Elements(relayLog) = {} /\ trimmed = {}
  BY <1>1, ElementsEmpty DEF Init, Known, FlushTail, Idle
<1>4. KnownEmitted /\ OneEnvelopePerSeq /\ OnlyEventsKept
  BY <1>3 DEF KnownEmitted, OneEnvelopePerSeq, OnlyEventsKept
<1>5. OutboxIsNewest /\ AcksCoverStored /\ StoredOnlyOnce
  BY <1>1 DEF OutboxIsNewest, AcksCoverStored, StoredOnlyOnce
<1>6. Len(outbox) <= nodeSeq /\ NothingForgotten
  BY <1>1 DEF Init, NothingForgotten
<1> QED
  BY <1>2, <1>4, <1>5, <1>6 DEF IInv

(* The envelope of a new event differs from every known one, and trimming   *)
(* drops exactly what it records.                                           *)
LEMMA EmitInv ==
    ASSUME IInv, NEW s \in Sessions, Emit(s)
    PROVE  IInv'
<1> DEFINE env     == Event(nodeSeq + 1, s)
           queue   == Append(outbox, env)
           over    == Overflow(queue)
           dropped == {queue[i] : i \in 1 .. over}
<1>1. /\ TypeOK /\ OutboxIsNewest /\ Len(outbox) <= nodeSeq /\ KnownEmitted
      /\ OneEnvelopePerSeq /\ OnlyEventsKept /\ AcksCoverStored
      /\ StoredOnlyOnce /\ NothingForgotten
  BY DEF IInv
<1>2. /\ nodeSeq' = nodeSeq + 1
      /\ outbox' = SubSeq(queue, over + 1, Len(queue))
      /\ truncated' = truncated \cup {e.session_id : e \in dropped}
      /\ upWire' = IF ws = "open" THEN Append(upWire, env) ELSE upWire
      /\ trimmed' = trimmed \cup dropped
      /\ overtaking' \in {overtaking, overtaking \cup {nodeSeq + 1}}
      /\ unwarned' \subseteq unwarned \cup dropped
      /\ UNCHANGED <<ws, running, flush, downWire, conns, relayLog, signalled>>
  BY DEF Emit, Kept, Transmit
<1>3. /\ nodeSeq \in Nat /\ nodeSeq' \in Nat /\ OutboxMax \in Nat
      /\ outbox \in Seq(Envelope) /\ Len(outbox) \in Nat
      /\ Len(outbox) <= OutboxMax /\ upWire \in Seq(Envelope)
  BY <1>1, <1>2, LenProperties, OutboxAssumption DEF TypeOK
<1>4. env \in Envelope /\ env.node_seq = nodeSeq + 1 /\ env.session_id = s
  BY <1>3 DEF Event, Envelope
<1>5. /\ queue \in Seq(Envelope)
      /\ Len(queue) = Len(outbox) + 1
      /\ \A i \in 1 .. Len(outbox) : queue[i] = outbox[i]
      /\ queue[Len(outbox) + 1] = env
      /\ Elements(queue) = Elements(outbox) \cup {env}
  BY <1>3, <1>4, ElementsAppend
<1>6. /\ over \in 0 .. Len(queue)
      /\ Len(queue) - over <= OutboxMax
  BY <1>3, <1>5 DEF Overflow
<1>7. /\ outbox' \in Seq(Envelope)
      /\ Len(outbox') = Len(queue) - over
      /\ \A i \in 1 .. Len(queue) - over : outbox'[i] = queue[over + i]
      /\ Elements(outbox') \subseteq Elements(queue)
  <2>1. over + 1 \in 1 .. Len(queue) + 1 /\ Len(queue) \in over + 1 - 1 .. Len(queue)
    BY <1>3, <1>5, <1>6
  <2>2. /\ Len(queue) - (over + 1) + 1 = Len(queue) - over
        /\ \A i \in 1 .. Len(queue) - over : (over + 1) + i - 1 = over + i
    BY <1>3, <1>5, <1>6
  <2>3. queue \in Seq(Envelope)
    BY <1>5
  <2>4. outbox' = SubSeq(queue, over + 1, Len(queue))
    BY <1>2
  <2> HIDE DEF queue, over
  <2>5. /\ SubSeq(queue, over + 1, Len(queue)) \in Seq(Envelope)
        /\ Len(SubSeq(queue, over + 1, Len(queue))) = Len(queue) - (over + 1) + 1
        /\ \A i \in 1 .. Len(queue) - (over + 1) + 1 :
              SubSeq(queue, over + 1, Len(queue))[i] = queue[(over + 1) + i - 1]
        /\ Elements(SubSeq(queue, over + 1, Len(queue))) \subseteq Elements(queue)
    BY <2>1, <2>3, ElementsSubSeq
  <2> QED
    BY <2>2, <2>4, <2>5
<1>8. \A i \in 1 .. Len(queue) : queue[i].node_seq = nodeSeq + 1 - Len(queue) + i
  BY <1>1, <1>3, <1>4, <1>5 DEF OutboxIsNewest
<1>9. dropped \subseteq Elements(queue) /\ dropped \subseteq Envelope
  <2>1. \A i \in 1 .. over : i \in 1 .. Len(queue)
    BY <1>3, <1>5, <1>6
  <2> HIDE DEF queue, over
  <2> QED
    BY <1>5, <2>1, ElementOfSeq DEF Elements
<1> HIDE DEF queue, over, env
<1>10. TypeOK'
  <2>1. upWire' \in Seq(Envelope)
    BY <1>2, <1>3, <1>4, ElementsAppend
  <2>2. truncated' \in SUBSET Sessions
    BY <1>1, <1>2, <1>9 DEF TypeOK, Envelope
  <2>3. overtaking' \in SUBSET Nat
    BY <1>1, <1>2, <1>3 DEF TypeOK
  <2> QED
    BY <1>1, <1>2, <1>3, <1>6, <1>7, <1>9, <2>1, <2>2, <2>3 DEF TypeOK
<1>11. OutboxIsNewest' /\ Len(outbox') <= nodeSeq'
  <2>1. Len(outbox') <= nodeSeq'
    BY <1>1, <1>2, <1>3, <1>5, <1>6, <1>7
  <2>2. ASSUME NEW i \in 1 .. Len(outbox')
        PROVE  outbox'[i].node_seq = nodeSeq' - Len(outbox') + i
    <3>1. over + i \in 1 .. Len(queue) /\ outbox'[i] = queue[over + i]
      BY <1>3, <1>5, <1>6, <1>7
    <3>2. queue[over + i].node_seq = nodeSeq + 1 - Len(queue) + (over + i)
      BY <1>8, <3>1
    <3>3. /\ over \in Int /\ Len(queue) \in Int /\ nodeSeq \in Int /\ i \in Int
          /\ Len(outbox') = Len(queue) - over
      BY <1>3, <1>5, <1>6, <1>7
    <3>4. nodeSeq + 1 - Len(queue) + (over + i) = (nodeSeq + 1) - Len(outbox') + i
      BY <3>3
    <3> QED
      BY <1>2, <3>1, <3>2, <3>4
  <2> QED
    BY <2>1, <2>2 DEF OutboxIsNewest
<1>12. Known' \subseteq Known \cup {env}
  <2>1. Elements(upWire') \subseteq Elements(upWire) \cup {env}
    BY <1>2, <1>3, <1>4, ElementsAppend
  <2>2. FlushTail' = FlushTail
    BY <1>2 DEF FlushTail
  <2> QED
    BY <1>2, <1>5, <1>7, <1>9, <2>1, <2>2 DEF Known
<1>13. KnownEmitted' /\ OneEnvelopePerSeq'
  <2>2. KnownEmitted'
    BY <1>1, <1>2, <1>3, <1>4, <1>12, KnownTyped DEF KnownEmitted, Envelope
  <2>3. \A e \in Known : e.node_seq # env.node_seq
    BY <1>1, <1>3, <1>4, KnownTyped DEF KnownEmitted, Envelope
  <2> QED
    BY <1>1, <1>12, <2>2, <2>3 DEF OneEnvelopePerSeq
<1>14. OnlyEventsKept'
  <2>1. \A e \in dropped : e.node_seq # 0
    BY <1>1, <1>3, <1>5, <1>6, <1>8
  <2> QED
    BY <1>1, <1>2, <2>1 DEF OnlyEventsKept, FlushTail
<1>15. AcksCoverStored' /\ StoredOnlyOnce'
  BY <1>1, <1>2 DEF AcksCoverStored, StoredOnlyOnce, HoldsUpTo
<1>16. NothingForgotten'
  <2> SUFFICES ASSUME NEW n \in 1 .. nodeSeq'
               PROVE  Buffered(n)' \/ Stored(n)' \/ Dropped(n)'
    BY DEF NothingForgotten
  <2>1. CASE \E i \in 1 .. Len(queue) : queue[i].node_seq = n
    <3>1. PICK i \in 1 .. Len(queue) : queue[i].node_seq = n
      BY <2>1
    <3>2. CASE i <= over
      BY <1>2, <3>1, <3>2 DEF Dropped
    <3>3. CASE i > over
      <4>1. i - over \in 1 .. Len(outbox') /\ outbox'[i - over] = queue[i]
        BY <1>3, <1>5, <1>6, <1>7, <3>3
      <4> QED
        BY <3>1, <4>1 DEF Buffered
    <3> QED
      BY <1>3, <1>5, <1>6, <3>2, <3>3
  <2>2. CASE ~ \E i \in 1 .. Len(queue) : queue[i].node_seq = n
    <3>1. n \in 1 .. nodeSeq
      BY <1>2, <1>3, <1>4, <1>5, <2>2
    <3>2. ~ Buffered(n)
      BY <1>3, <1>5, <2>2 DEF Buffered
    <3>3. Stored(n) \/ Dropped(n)
      BY <1>1, <3>1, <3>2 DEF NothingForgotten
    <3> QED
      BY <1>2, <3>3 DEF Stored, Dropped
  <2> QED
    BY <2>1, <2>2
<1> QED
  BY <1>10, <1>11, <1>13, <1>14, <1>15, <1>16 DEF IInv

(* A flush step changes the socket's stream and the flags, nothing else. *)
LEMMA FlushInv ==
    ASSUME IInv, NEW warn \in SUBSET Sessions, NEW tail \in Seq(Envelope),
           NEW wire \in Seq(Envelope), NEW open \in BOOLEAN,
           FlushOn(warn, tail, wire, open),
           Elements(wire) \subseteq Known,
           \A e \in Elements(tail) : e \in Known /\ e.node_seq # 0,
           ws' \in {"none", "open", "dead"}, conns' \in Nat,
           truncated' \in SUBSET Sessions,
           downWire' = downWire \/ downWire' = <<>>,
           unwarned' \subseteq unwarned \cup trimmed,
           UNCHANGED <<nodeSeq, outbox, running, relayLog, trimmed, signalled, overtaking>>
    PROVE  IInv'
<1>1. /\ flush' \in FlushState
      /\ upWire' \in Seq(Envelope)
      /\ Elements(upWire') \subseteq Elements(wire) \cup Elements(tail) \cup Warnings
      /\ FlushTail' \subseteq Elements(tail)
  BY FlushOnFrames
<1>2. downWire' \in Seq(Nat) /\ (downWire' # downWire => Len(downWire') = 0)
  BY ElementsEmpty DEF IInv, TypeOK
<1>3. TypeOK'
  BY <1>1, <1>2 DEF IInv, TypeOK
<1>4. Known' \subseteq Known \cup Warnings
  BY <1>1 DEF Known
<1>5. KnownEmitted' /\ OneEnvelopePerSeq'
  BY <1>4, KnownPreserved DEF IInv
<1>6. OnlyEventsKept'
  BY <1>1 DEF IInv, OnlyEventsKept
<1>7. AcksCoverStored'
  BY <1>2 DEF IInv, AcksCoverStored, HoldsUpTo
<1>8. /\ OutboxIsNewest' /\ Len(outbox') <= nodeSeq' /\ StoredOnlyOnce'
      /\ NothingForgotten'
  BY DEF IInv, OutboxIsNewest, StoredOnlyOnce, NothingForgotten, Buffered,
         Stored, Dropped
<1> QED
  BY <1>3, <1>5, <1>6, <1>7, <1>8 DEF IInv

(* What the flush resends is known and is no warning. *)
LEMMA OutboxEventsKnown ==
    ASSUME IInv
    PROVE  /\ \A e \in Elements(outbox) : e \in Known /\ e.node_seq # 0
           /\ \A e \in FlushTail : e \in Known /\ e.node_seq # 0
<1>1. nodeSeq \in Nat /\ Len(outbox) \in Nat /\ Len(outbox) <= nodeSeq
  BY LenProperties DEF IInv, TypeOK
<1>2. \A i \in 1 .. Len(outbox) : outbox[i].node_seq # 0
  BY <1>1 DEF IInv, OutboxIsNewest
<1> QED
  BY <1>2 DEF IInv, OnlyEventsKept, Known, Elements

LEMMA ConnectInv == ASSUME IInv, Connect PROVE IInv'
<1>1. Elements(<<>>) \subseteq Known /\ <<>> \in Seq(Envelope)
  BY ElementsEmpty
<1>2. truncated \in SUBSET Sessions /\ outbox \in Seq(Envelope) /\ conns' \in Nat
  BY DEF IInv, TypeOK, Connect
<1> QED
  BY <1>1, <1>2, FlushInv, OutboxEventsKnown DEF Connect, LostSigns

LEMMA WarningSentInv == ASSUME IInv, WarningSent PROVE IInv'
<1>1. /\ flush.left \in SUBSET Sessions /\ outbox \in Seq(Envelope)
      /\ upWire \in Seq(Envelope) /\ (ws = "open") \in BOOLEAN
      /\ ws \in {"none", "open", "dead"} /\ conns \in Nat
  BY DEF IInv, TypeOK, FlushState, WarningSent
<1>2. truncated' \in SUBSET Sessions
  BY DEF IInv, TypeOK, WarningSent
<1>3. Elements(upWire) \subseteq Known
  BY DEF Known
<1> QED
  BY <1>1, <1>2, <1>3, FlushInv, OutboxEventsKnown DEF WarningSent, historyVars

LEMMA EventResentInv == ASSUME IInv, EventResent PROVE IInv'
<1>1. /\ flush.tail \in Seq(Envelope) /\ upWire \in Seq(Envelope)
      /\ (ws = "open") \in BOOLEAN /\ {} \in SUBSET Sessions
      /\ ws \in {"none", "open", "dead"} /\ conns \in Nat
      /\ truncated \in SUBSET Sessions
  BY DEF IInv, TypeOK, FlushState, EventResent
<1>2. Elements(upWire) \subseteq Known /\ Elements(flush.tail) = FlushTail
  BY DEF Known, FlushTail, EventResent
<1> QED
  BY <1>1, <1>2, FlushInv, OutboxEventsKnown DEF EventResent, historyVars

(* An acknowledgement removes only what the relay holds. *)
LEMMA ReceiveAckInv == ASSUME IInv, ReceiveAck PROVE IInv'
<1>1. PICK k \in 0 .. Len(outbox) :
        /\ AckedPrefix(outbox, Head(downWire), k)
        /\ outbox' = SubSeq(outbox, k + 1, Len(outbox))
  BY DEF ReceiveAck
<1>2. /\ downWire # <<>> /\ downWire' = Tail(downWire)
      /\ UNCHANGED <<nodeSeq, truncated, ws, running, flush, upWire, conns,
                     relayLog, trimmed, signalled, unwarned, overtaking>>
  BY DEF ReceiveAck, historyVars
<1>3. /\ outbox \in Seq(Envelope) /\ Len(outbox) \in Nat /\ nodeSeq \in Nat
      /\ downWire \in Seq(Nat) /\ Len(outbox) <= OutboxMax /\ OutboxMax \in Nat
  BY LenProperties, OutboxAssumption DEF IInv, TypeOK
<1>4. /\ Head(downWire) \in Nat
      /\ Head(downWire) = downWire[1]
      /\ downWire' \in Seq(Nat)
      /\ Len(downWire') = Len(downWire) - 1
      /\ \A i \in 1 .. Len(downWire') : downWire'[i] = downWire[i + 1]
      /\ Len(downWire) \in Nat \ {0}
  BY <1>2, <1>3, ElementsTail, EmptySeq
<1>5. /\ outbox' \in Seq(Envelope)
      /\ Len(outbox') = Len(outbox) - k
      /\ \A i \in 1 .. Len(outbox) - k : outbox'[i] = outbox[k + i]
      /\ Elements(outbox') \subseteq Elements(outbox)
  <2> DEFINE m == k + 1
             rest == SubSeq(outbox, m, Len(outbox))
  <2>2. /\ m \in 1 .. Len(outbox) + 1 /\ Len(outbox) \in m - 1 .. Len(outbox)
        /\ Len(outbox) - m + 1 = Len(outbox) - k
        /\ \A i \in 1 .. Len(outbox) - k : m + i - 1 = k + i
    BY <1>3
  <2>3. outbox' = rest
    BY <1>1
  <2> HIDE DEF m
  <2>4. /\ rest \in Seq(Envelope)
        /\ Len(rest) = Len(outbox) - m + 1
        /\ \A i \in 1 .. Len(outbox) - m + 1 : rest[i] = outbox[m + i - 1]
        /\ Elements(rest) \subseteq Elements(outbox)
    BY <1>3, <2>2, ElementsSubSeq
  <2> HIDE DEF rest
  <2> QED
    BY <2>2, <2>3, <2>4
<1>6. TypeOK'
  BY <1>2, <1>3, <1>4, <1>5 DEF IInv, TypeOK
<1>7. OutboxIsNewest' /\ Len(outbox') <= nodeSeq'
  <2>1. Len(outbox') <= nodeSeq'
    BY <1>2, <1>3, <1>5 DEF IInv
  <2>2. ASSUME NEW i \in 1 .. Len(outbox')
        PROVE  outbox'[i].node_seq = nodeSeq' - Len(outbox') + i
    <3>1. k + i \in 1 .. Len(outbox) /\ outbox'[i] = outbox[k + i]
      BY <1>3, <1>5
    <3>2. outbox[k + i].node_seq = nodeSeq - Len(outbox) + (k + i)
      BY <3>1 DEF IInv, OutboxIsNewest
    <3>3. nodeSeq - Len(outbox) + (k + i) = nodeSeq - Len(outbox') + i
      BY <1>3, <1>5
    <3> QED
      BY <1>2, <3>1, <3>2, <3>3
  <2> QED
    BY <2>1, <2>2 DEF OutboxIsNewest
<1>8. Known' \subseteq Known \cup Warnings
  BY <1>2, <1>5 DEF Known, FlushTail
<1>9. KnownEmitted' /\ OneEnvelopePerSeq'
  BY <1>2, <1>8, KnownPreserved DEF IInv
<1>10. OnlyEventsKept' /\ StoredOnlyOnce'
  BY <1>2 DEF IInv, OnlyEventsKept, StoredOnlyOnce, FlushTail
<1>11. AcksCoverStored'
  BY <1>2, <1>4, AcksShrink DEF IInv
<1>12. NothingForgotten'
  <2> SUFFICES ASSUME NEW n \in 1 .. nodeSeq
               PROVE  Buffered(n)' \/ Stored(n)' \/ Dropped(n)'
    BY <1>2 DEF NothingForgotten
  <2>1. CASE Stored(n) \/ Dropped(n)
    BY <1>2, <2>1 DEF Stored, Dropped
  <2>2. CASE Buffered(n)
    <3>1. PICK i \in 1 .. Len(outbox) : outbox[i].node_seq = n
      BY <2>2 DEF Buffered
    <3>2. CASE i <= k
      <4>1. n <= Head(downWire)
        BY <1>1, <1>3, <3>1, <3>2 DEF AckedPrefix
      <4>2. HoldsUpTo(relayLog, Head(downWire))
        BY <1>4 DEF IInv, AcksCoverStored
      <4>3. Stored(n)
        BY <1>3, <1>4, <4>1, <4>2 DEF HoldsUpTo, Stored
      <4> QED
        BY <1>2, <4>3 DEF Stored
    <3>3. CASE i > k
      <4>1. i - k \in 1 .. Len(outbox') /\ outbox'[i - k] = outbox[i]
        BY <1>3, <1>5, <3>3
      <4> QED
        BY <3>1, <4>1 DEF Buffered
    <3> QED
      BY <1>3, <3>2, <3>3
  <2> QED
    BY <2>1, <2>2 DEF IInv, NothingForgotten
<1> QED
  BY <1>6, <1>7, <1>9, <1>10, <1>11, <1>12 DEF IInv

(* Losing a suffix of what the connection carried loses nothing else; with   *)
(* run() the flush may end in the middle.                                    *)
SocketSteps == Disconnect \/ RunEnds \/ Cancelled \/ SocketBreaks

LEMMA SocketInv == ASSUME IInv, SocketSteps PROVE IInv'
<1>1. /\ UNCHANGED <<nodeSeq, outbox, truncated, conns, relayLog,
                     trimmed, signalled, overtaking>>
      /\ ws' \in {"none", "open", "dead"} /\ running' \in BOOLEAN
      /\ unwarned' \subseteq unwarned \cup trimmed
      /\ flush' \in {flush, Idle}
  <2>1. running \in BOOLEAN /\ ws \in {"none", "open", "dead"}
    BY DEF IInv, TypeOK
  <2>2. CASE Disconnect
    BY <2>1, <2>2 DEF Disconnect, historyVars
  <2>3. CASE RunEnds
    BY <2>1, <2>3 DEF RunEnds, historyVars
  <2>4. CASE Cancelled
    BY <2>1, <2>4 DEF Cancelled, LostSigns
  <2>5. CASE SocketBreaks
    BY <2>1, <2>5 DEF SocketBreaks, LostSigns
  <2> QED
    BY <2>2, <2>3, <2>4, <2>5 DEF SocketSteps
<1>2. /\ upWire \in Seq(Envelope) /\ Len(upWire) \in Nat
      /\ downWire \in Seq(Nat) /\ Len(downWire) \in Nat
  BY LenProperties DEF IInv, TypeOK
<1>3. /\ upWire' \in Seq(Envelope) /\ Elements(upWire') \subseteq Elements(upWire)
      /\ downWire' \in Seq(Nat) /\ Len(downWire') <= Len(downWire)
      /\ Len(downWire') \in Nat
      /\ \A i \in 1 .. Len(downWire') : downWire'[i] = downWire[i]
  <2>1. CASE Disconnect \/ RunEnds
    <3>1. upWire' = upWire /\ downWire' = downWire
      BY <2>1 DEF Disconnect, RunEnds, wireVars
    <3> QED
      BY <1>2, <3>1
  <2>2. CASE SocketBreaks
    <3>1. PICK i \in 0 .. Len(upWire) : upWire' = SubSeq(upWire, 1, i)
      BY <2>2 DEF SocketBreaks
    <3>2. PICK j \in 0 .. Len(downWire) : downWire' = SubSeq(downWire, 1, j)
      BY <2>2 DEF SocketBreaks
    <3>3. /\ 1 \in 1 .. Len(upWire) + 1 /\ i \in 1 - 1 .. Len(upWire)
          /\ 1 \in 1 .. Len(downWire) + 1 /\ j \in 1 - 1 .. Len(downWire)
      BY <1>2
    <3>4. upWire' \in Seq(Envelope) /\ Elements(upWire') \subseteq Elements(upWire)
      BY <1>2, <3>1, <3>3, ElementsSubSeq
    <3>5. /\ downWire' \in Seq(Nat) /\ Len(downWire') = j - 1 + 1
          /\ \A m \in 1 .. j - 1 + 1 : downWire'[m] = downWire[1 + m - 1]
      BY <1>2, <3>2, <3>3, ElementsSubSeq
    <3> QED
      BY <1>2, <3>3, <3>4, <3>5
  <2>3. CASE Cancelled
    <3>1. PICK i \in 0 .. Len(upWire) : upWire' = SubSeq(upWire, 1, i)
      BY <2>3 DEF Cancelled
    <3>2. 1 \in 1 .. Len(upWire) + 1 /\ i \in 1 - 1 .. Len(upWire)
      BY <1>2
    <3>3. upWire' \in Seq(Envelope) /\ Elements(upWire') \subseteq Elements(upWire)
      BY <1>2, <3>1, <3>2, ElementsSubSeq
    <3>4. downWire' \in Seq(Nat) /\ Len(downWire') = 0
      BY <2>3, ElementsEmpty DEF Cancelled
    <3> QED
      BY <1>2, <3>3, <3>4
  <2> QED
    BY <2>1, <2>2, <2>3 DEF SocketSteps
<1>4. TypeOK'
  <2>1. flush' \in FlushState
    BY <1>1 DEF IInv, TypeOK, FlushState, Idle
  <2> QED
    BY <1>1, <1>3, <2>1 DEF IInv, TypeOK
<1>5. FlushTail' \subseteq FlushTail
  BY <1>1 DEF FlushTail, Idle
<1>6. Known' \subseteq Known \cup Warnings
  BY <1>1, <1>3, <1>5 DEF Known
<1>10. KnownEmitted' /\ OneEnvelopePerSeq'
  BY <1>1, <1>6, KnownPreserved DEF IInv
<1>7. OnlyEventsKept' /\ StoredOnlyOnce' /\ OutboxIsNewest' /\ Len(outbox') <= nodeSeq'
  BY <1>1, <1>5 DEF IInv, OnlyEventsKept, StoredOnlyOnce, OutboxIsNewest
<1>8. AcksCoverStored'
  BY <1>1, <1>2, <1>3, AcksShrink DEF IInv
<1>9. NothingForgotten'
  BY <1>1 DEF IInv, NothingForgotten, Buffered, Stored, Dropped
<1> QED
  BY <1>4, <1>10, <1>7, <1>8, <1>9 DEF IInv

(* The relay stores what it reads once, and acknowledges what it holds. *)
LEMMA RelayStoresInv == ASSUME IInv, RelayStores PROVE IInv'
<1> DEFINE env == Head(upWire)
<1>1. /\ upWire # <<>> /\ env.node_seq # 0 /\ upWire' = Tail(upWire)
      /\ relayLog' = IF env \in Elements(relayLog)
                     THEN relayLog ELSE Append(relayLog, env)
      /\ UNCHANGED <<nodeSeq, outbox, truncated, ws, running, flush, conns,
                     trimmed, signalled, unwarned, overtaking>>
  BY DEF RelayStores, nodeVars, historyVars, IsWarning
<1>2. PICK k \in 0 .. Len(relayLog') :
        /\ HoldsUpTo(relayLog', k)
        /\ downWire' = IF ws = "open" THEN Append(downWire, k) ELSE downWire
  BY DEF RelayStores
<1>3. /\ upWire \in Seq(Envelope) /\ relayLog \in Seq(Envelope)
      /\ downWire \in Seq(Nat) /\ Len(downWire) \in Nat
      /\ Len(relayLog) \in Nat /\ nodeSeq \in Nat
  BY LenProperties DEF IInv, TypeOK
<1>4. /\ env \in Envelope /\ env \in Elements(upWire)
      /\ upWire' \in Seq(Envelope) /\ Elements(upWire') \subseteq Elements(upWire)
  BY <1>1, <1>3, ElementsTail
<1>5. env \in Known
  BY <1>4 DEF Known
<1> HIDE DEF env
<1>6. /\ relayLog' \in Seq(Envelope)
      /\ Len(relayLog') \in Nat
      /\ Len(relayLog) <= Len(relayLog')
      /\ \A i \in 1 .. Len(relayLog) :
            i \in 1 .. Len(relayLog') /\ relayLog'[i] = relayLog[i]
      /\ Elements(relayLog') \subseteq Elements(relayLog) \cup {env}
  BY <1>1, <1>3, <1>4, ElementsAppend
<1>7. k \in Nat
  BY <1>2, <1>6
<1>8. downWire' \in Seq(Nat)
  BY <1>2, <1>3, <1>7, ElementsAppend
<1>9. TypeOK'
  BY <1>1, <1>4, <1>6, <1>8 DEF IInv, TypeOK
<1>10. Known' \subseteq Known \cup Warnings
  BY <1>1, <1>4, <1>5, <1>6 DEF Known, FlushTail
<1>11. KnownEmitted' /\ OneEnvelopePerSeq'
  BY <1>1, <1>10, KnownPreserved DEF IInv
<1>12. OnlyEventsKept'
  BY <1>1, <1>6 DEF IInv, OnlyEventsKept, FlushTail
<1>13. OutboxIsNewest' /\ Len(outbox') <= nodeSeq'
  BY <1>1 DEF IInv, OutboxIsNewest
<1>14. StoredOnlyOnce'
  <2>1. CASE env \in Elements(relayLog)
    BY <1>1, <2>1 DEF IInv, StoredOnlyOnce
  <2>2. CASE env \notin Elements(relayLog)
    <3>1. /\ Len(relayLog') = Len(relayLog) + 1
          /\ relayLog'[Len(relayLog) + 1] = env
      BY <1>1, <1>3, <1>4, <2>2, ElementsAppend
    <3>2. \A i \in 1 .. Len(relayLog) : relayLog[i].node_seq # env.node_seq
      BY <1>1, <1>5, <2>2 DEF IInv, OneEnvelopePerSeq, Known, Elements
    <3>3. ASSUME NEW i \in 1 .. Len(relayLog'), NEW j \in 1 .. Len(relayLog'),
                 relayLog'[i].node_seq = relayLog'[j].node_seq
          PROVE  i = j
      <4>1. /\ i \in 1 .. Len(relayLog) \/ i = Len(relayLog) + 1
            /\ j \in 1 .. Len(relayLog) \/ j = Len(relayLog) + 1
        BY <1>3, <3>1
      <4>2. i \in 1 .. Len(relayLog) /\ j \in 1 .. Len(relayLog) => i = j
        BY <1>6, <3>3 DEF IInv, StoredOnlyOnce
      <4> QED
        BY <1>6, <3>1, <3>2, <3>3, <4>1, <4>2
    <3> QED
      BY <3>3 DEF StoredOnlyOnce
  <2> QED
    BY <2>1, <2>2
<1>15. \A j \in Nat : HoldsUpTo(relayLog, j) => HoldsUpTo(relayLog', j)
  BY <1>6 DEF HoldsUpTo
<1>16. AcksCoverStored'
  <2>1. \A i \in 1 .. Len(downWire) : HoldsUpTo(relayLog', downWire[i])
    BY <1>3, <1>15, ElementOfSeq DEF IInv, AcksCoverStored
  <2>2. CASE ws = "open"
    <3>1. /\ Len(downWire') = Len(downWire) + 1
          /\ \A i \in 1 .. Len(downWire) : downWire'[i] = downWire[i]
          /\ downWire'[Len(downWire) + 1] = k
      BY <1>2, <1>3, <1>7, <2>2, ElementsAppend
    <3> QED
      BY <1>2, <1>3, <2>1, <3>1 DEF AcksCoverStored
  <2>3. CASE ws # "open"
    BY <1>2, <2>1, <2>3 DEF AcksCoverStored
  <2> QED
    BY <2>2, <2>3
<1>17. NothingForgotten'
  <2>1. \A n : Stored(n) => Stored(n)'
    BY <1>6 DEF Stored
  <2>2. \A n : Buffered(n)' = Buffered(n) /\ Dropped(n)' = Dropped(n)
    BY <1>1 DEF Buffered, Dropped
  <2> QED
    BY <1>1, <2>1, <2>2 DEF IInv, NothingForgotten
<1> QED
  BY <1>9, <1>11, <1>12, <1>13, <1>14, <1>16, <1>17 DEF IInv

(* A warning leaves the wire and informs a browser. *)
LEMMA RelayWarnsInv == ASSUME IInv, RelayWarns PROVE IInv'
<1>1. /\ upWire # <<>> /\ upWire' = Tail(upWire)
      /\ signalled' \subseteq signalled \cup trimmed
      /\ UNCHANGED <<nodeSeq, outbox, truncated, ws, running, flush, downWire,
                     conns, relayLog, trimmed, unwarned, overtaking>>
  BY DEF RelayWarns, nodeVars
<1>2. upWire' \in Seq(Envelope) /\ Elements(upWire') \subseteq Elements(upWire)
  BY <1>1, ElementsTail DEF IInv, TypeOK
<1>3. TypeOK'
  BY <1>1, <1>2 DEF IInv, TypeOK
<1>4. Known' \subseteq Known \cup Warnings
  BY <1>1, <1>2 DEF Known, FlushTail
<1>5. KnownEmitted' /\ OneEnvelopePerSeq'
  BY <1>1, <1>4, KnownPreserved DEF IInv
<1>6. OnlyEventsKept' /\ StoredOnlyOnce' /\ OutboxIsNewest'
      /\ Len(outbox') <= nodeSeq'
  BY <1>1 DEF IInv, OnlyEventsKept, StoredOnlyOnce, FlushTail, OutboxIsNewest
<1>7. AcksCoverStored' /\ NothingForgotten'
  BY <1>1 DEF IInv, AcksCoverStored, NothingForgotten, Buffered, Stored, Dropped
<1> QED
  BY <1>3, <1>5, <1>6, <1>7 DEF IInv

(* A stuttering step. *)
LEMMA StutterInv == ASSUME IInv, UNCHANGED vars PROVE IInv'
<1> USE DEF vars
<1>1. TypeOK'
  BY DEF IInv, TypeOK
<1>2. Known' = Known
  BY DEF Known, FlushTail
<1>3. KnownEmitted' /\ OneEnvelopePerSeq' /\ OnlyEventsKept'
  BY <1>2 DEF IInv, KnownEmitted, OneEnvelopePerSeq, OnlyEventsKept, FlushTail
<1>4. /\ OutboxIsNewest' /\ Len(outbox') <= nodeSeq' /\ StoredOnlyOnce'
      /\ AcksCoverStored' /\ NothingForgotten'
  BY DEF IInv, OutboxIsNewest, StoredOnlyOnce, AcksCoverStored,
         NothingForgotten, Buffered, Stored, Dropped
<1> QED
  BY <1>1, <1>3, <1>4 DEF IInv

LEMMA NextInv == IInv /\ [Next]_vars => IInv'
<1> SUFFICES ASSUME IInv, [Next]_vars PROVE IInv'
  OBVIOUS
<1>1. ASSUME NEW s \in Sessions, Emit(s) PROVE IInv'
  BY <1>1, EmitInv
<1>2. CASE Connect
  BY <1>2, ConnectInv
<1>3. CASE WarningSent
  BY <1>3, WarningSentInv
<1>4. CASE EventResent
  BY <1>4, EventResentInv
<1>5. CASE ReceiveAck
  BY <1>5, ReceiveAckInv
<1>6. CASE SocketSteps
  BY <1>6, SocketInv
<1>7. CASE RelayStores
  BY <1>7, RelayStoresInv
<1>8. CASE RelayWarns
  BY <1>8, RelayWarnsInv
<1>9. CASE UNCHANGED vars
  BY <1>9, StutterInv
<1> QED
  BY <1>1, <1>2, <1>3, <1>4, <1>5, <1>6, <1>7, <1>8, <1>9 DEF Next, SocketSteps

-----------------------------------------------------------------------------
(* The inductive invariant holds in every behaviour of the node, whatever   *)
(* the relay's acknowledgements and the network's losses.                   *)
THEOREM Inductive == Spec => []IInv
BY InitInv, NextInv, PTL DEF Spec

(* The state is well typed and the outbox never exceeds outbox_max. *)
THEOREM TypeCorrect == Spec => []TypeOK
<1>1. IInv => TypeOK
  BY DEF IInv
<1> QED
  BY <1>1, Inductive, PTL

(* send_payload, _ack_outbox and _trim_outbox together forget no durable    *)
(* event: it is buffered, stored by the relay, or dropped by an overflow.   *)
THEOREM NoEventForgotten == Spec => []NothingForgotten
<1>1. IInv => NothingForgotten
  BY DEF IInv
<1> QED
  BY <1>1, Inductive, PTL

(* The outbox is a gapless run of the newest events, so popping while the   *)
(* head is covered removes exactly what an acknowledgement covers.          *)
THEOREM OutboxStaysNewest == Spec => []OutboxIsNewest
<1>1. IInv => OutboxIsNewest
  BY DEF IInv
<1> QED
  BY <1>1, Inductive, PTL

(* However often the flush resends, the relay's log holds an event once. *)
THEOREM NoDuplicates == Spec => []StoredOnce
<1>1. IInv => StoredOnce
  <2> SUFFICES ASSUME IInv PROVE StoredOnce
    OBVIOUS
  <2>1. nodeSeq \in Nat /\ relayLog \in Seq(Envelope) /\ Len(relayLog) \in Nat
    BY LenProperties DEF IInv, TypeOK
  <2>2. ASSUME NEW i \in 1 .. Len(relayLog)
        PROVE  relayLog[i].node_seq \in 1 .. nodeSeq
    <3>1. relayLog[i] \in Elements(relayLog) /\ relayLog[i] \in Envelope
      BY <2>1, ElementOfSeq DEF Elements
    <3>2. relayLog[i].node_seq \in Nat /\ relayLog[i].node_seq # 0
      BY <3>1 DEF IInv, OnlyEventsKept, Envelope
    <3>3. relayLog[i].node_seq <= nodeSeq
      BY <3>1 DEF IInv, KnownEmitted, Known
    <3> QED
      BY <2>1, <3>2, <3>3
  <2> QED
    BY <2>2 DEF IInv, StoredOnlyOnce, StoredOnce
<1> QED
  BY <1>1, Inductive, PTL

-----------------------------------------------------------------------------
(* The protocol implements EventDelivery. *)

(* Overflow drops only events followed by outbox_max later ones. *)
LEMMA EmitRefines ==
    ASSUME IInv, NEW s \in Sessions, Emit(s)
    PROVE  Delivery!Emit
<1> DEFINE env     == Event(nodeSeq + 1, s)
           queue   == Append(outbox, env)
           over    == Overflow(queue)
           dropped == {queue[i] : i \in 1 .. over}
<1>1. /\ nodeSeq' = nodeSeq + 1 /\ trimmed' = trimmed \cup dropped
      /\ UNCHANGED relayLog
  BY DEF Emit
<1>2. /\ nodeSeq \in Nat /\ outbox \in Seq(Envelope) /\ Len(outbox) \in Nat
      /\ Len(outbox) <= nodeSeq /\ OutboxMax \in Nat
  BY LenProperties, OutboxAssumption DEF IInv, TypeOK
<1>3. env \in Envelope /\ env.node_seq = nodeSeq + 1
  BY <1>2 DEF Event, Envelope
<1>4. /\ queue \in Seq(Envelope)
      /\ Len(queue) = Len(outbox) + 1
      /\ \A i \in 1 .. Len(outbox) : queue[i] = outbox[i]
      /\ queue[Len(outbox) + 1] = env
  BY <1>2, <1>3, ElementsAppend
<1>5. \A i \in 1 .. Len(queue) : queue[i].node_seq = nodeSeq + 1 - Len(queue) + i
  BY <1>2, <1>3, <1>4 DEF IInv, OutboxIsNewest
<1>6. over \in Nat /\ (over > 0 => over = Len(queue) - OutboxMax)
  BY <1>2, <1>4 DEF Overflow
<1> HIDE DEF queue, over, env
<1>7. ASSUME NEW i \in 1 .. over
      PROVE  /\ queue[i] \in Delivery!Event
             /\ queue[i].node_seq + OutboxMax <= nodeSeq'
  <2>1. i \in 1 .. Len(queue) /\ over = Len(queue) - OutboxMax
    BY <1>2, <1>4, <1>6
  <2>2. queue[i] \in Envelope
    BY <1>4, <2>1, ElementOfSeq
  <2>3. queue[i].node_seq = nodeSeq + 1 - Len(queue) + i
    BY <1>5, <2>1
  <2>4. queue[i].node_seq # 0
    BY <1>2, <1>4, <2>1, <2>3
  <2>5. nodeSeq + 1 - Len(queue) + i + OutboxMax <= nodeSeq + 1
    BY <1>2, <1>4, <1>6, <2>1
  <2> QED
    BY <1>1, <2>2, <2>3, <2>4, <2>5 DEF Delivery!Event, Envelope
<1> QED
  BY <1>1, <1>7 DEF Delivery!Emit

(* The relay stores an emitted event it does not hold, or nothing. *)
LEMMA RelayStoresRefines ==
    ASSUME IInv, RelayStores
    PROVE  Delivery!Store \/ UNCHANGED Delivery!edVars
<1> DEFINE env == Head(upWire)
<1>1. /\ upWire # <<>> /\ env.node_seq # 0
      /\ relayLog' = IF env \in Elements(relayLog)
                     THEN relayLog ELSE Append(relayLog, env)
      /\ UNCHANGED <<nodeSeq, trimmed>>
  BY DEF RelayStores, nodeVars, historyVars, IsWarning
<1>2. env \in Envelope /\ env \in Elements(upWire)
  BY <1>1, ElementsTail DEF IInv, TypeOK
<1>3. env \in Known
  BY <1>2 DEF Known
<1>4. /\ env.node_seq \in 1 .. nodeSeq /\ env.session_id \in Sessions
      /\ env = [node_seq |-> env.node_seq, session_id |-> env.session_id]
  BY <1>1, <1>2, <1>3 DEF IInv, TypeOK, KnownEmitted, Envelope
<1> HIDE DEF env
<1>5. CASE env \in Elements(relayLog)
  BY <1>1, <1>5 DEF Delivery!edVars
<1>6. CASE env \notin Elements(relayLog)
  <2>1. \A i \in 1 .. Len(relayLog) : relayLog[i].node_seq # env.node_seq
    BY <1>1, <1>3, <1>6 DEF IInv, OneEnvelopePerSeq, Known, Elements
  <2>2. relayLog' = Append(relayLog, [node_seq |-> env.node_seq,
                                      session_id |-> env.session_id])
    BY <1>1, <1>4, <1>6
  <2> QED
    BY <1>1, <1>4, <2>1, <2>2 DEF Delivery!Store
<1> QED
  BY <1>5, <1>6

(* Every behaviour of the node and the relay is one EventDelivery allows:   *)
(* an event is stored at most once, and only an event followed by           *)
(* outbox_max later ones is ever given up.                                  *)
THEOREM ImplementsEventDelivery == Spec => DeliverySpec
<1>1. Init => Delivery!Init
  BY DEF Init, Delivery!Init
<1>2. IInv /\ [Next]_vars => [Delivery!Next]_(Delivery!edVars)
  <2> SUFFICES ASSUME IInv, [Next]_vars
               PROVE  [Delivery!Next]_(Delivery!edVars)
    OBVIOUS
  <2> USE DEF Delivery!Next, Delivery!edVars
  <2>1. ASSUME NEW s \in Sessions, Emit(s) PROVE Delivery!Next
    BY <2>1, EmitRefines
  <2>2. CASE RelayStores
    BY <2>2, RelayStoresRefines
  <2>3. CASE \/ Connect \/ WarningSent \/ EventResent \/ ReceiveAck
             \/ SocketSteps \/ RelayWarns
    BY <2>3 DEF Connect, WarningSent, EventResent, ReceiveAck, SocketSteps,
                Disconnect, RunEnds, Cancelled, SocketBreaks, RelayWarns,
                historyVars, nodeVars
  <2>4. CASE UNCHANGED vars
    BY <2>4 DEF vars
  <2> QED
    BY <2>1, <2>2, <2>3, <2>4 DEF Next, SocketSteps
<1> QED
  BY <1>1, <1>2, Inductive, PTL DEF Spec, DeliverySpec, Delivery!Spec

-----------------------------------------------------------------------------
(* The report of an overflow.  Beside the property itself, it takes that a   *)
(* warning whose send has not returned is still a sign of what was dropped   *)
(* before: it is on the wire until a browser has it or a break takes it.     *)

SuspendedWarningCounts ==
    (flush.pc = "warn" /\ flush.taken) =>
        \A e \in trimmed :
            e.session_id = flush.sid =>
                Warning(flush.sid) \in Elements(upWire) \/ e \in signalled \cup unwarned

ReportInv == OverflowReported /\ SuspendedWarningCounts

(* A piece of the flush takes nothing off the wire, and a warning that the   *)
(* socket took is on it.                                                     *)
LEMMA FlushOnWarns ==
    ASSUME NEW warn \in SUBSET Sessions, NEW tail \in Seq(Envelope),
           NEW wire \in Seq(Envelope), NEW open \in BOOLEAN,
           FlushOn(warn, tail, wire, open)
    PROVE  /\ Elements(wire) \subseteq Elements(upWire')
           /\ (flush'.pc = "warn" /\ flush'.taken) =>
                  Warning(flush'.sid) \in Elements(upWire')
<1>1. CASE \E s \in warn :
             /\ flush' = [pc |-> "warn", sid |-> s, left |-> warn \ {s},
                          taken |-> open]
             /\ upWire' = IF open THEN Append(wire, Warning(s)) ELSE wire
  <2>1. PICK s \in warn :
             /\ flush' = [pc |-> "warn", sid |-> s, left |-> warn \ {s},
                          taken |-> open]
             /\ upWire' = IF open THEN Append(wire, Warning(s)) ELSE wire
    BY <1>1
  <2>2. Warning(s) \in Envelope
    BY DEF Warning, Envelope
  <2>3. Elements(Append(wire, Warning(s))) = Elements(wire) \cup {Warning(s)}
    BY <2>2, ElementsAppend
  <2> QED
    BY <2>1, <2>3
<1>2. CASE /\ tail # <<>>
           /\ flush' = [pc |-> "resend", tail |-> Tail(tail)]
           /\ upWire' = IF open THEN Append(wire, Head(tail)) ELSE wire
  <2>1. Head(tail) \in Envelope
    BY <1>2, ElementsTail
  <2>2. Elements(Append(wire, Head(tail))) = Elements(wire) \cup {Head(tail)}
    BY <2>1, ElementsAppend
  <2> QED
    BY <1>2, <2>2
<1>3. CASE flush' = Idle /\ upWire' = wire
  BY <1>3 DEF Idle
<1> QED
  BY <1>1, <1>2, <1>3 DEF FlushOn

LEMMA InitReport == Init => ReportInv
BY DEF Init, Idle, ReportInv, OverflowReported, SuspendedWarningCounts

(* What overflow drops now is flagged, even if the suspended send of an      *)
(* earlier warning will drop that flag; then it counts as unwarned.          *)
LEMMA EmitReport ==
    ASSUME IInv, ReportInv, NEW s \in Sessions, Emit(s) PROVE ReportInv'
<1> DEFINE env     == Event(nodeSeq + 1, s)
           queue   == Append(outbox, env)
           dropped == {queue[i] : i \in 1 .. Overflow(queue)}
<1>1. /\ truncated' = truncated \cup {e.session_id : e \in dropped}
      /\ upWire' = IF ws = "open" THEN Append(upWire, env) ELSE upWire
      /\ trimmed' = trimmed \cup dropped
      /\ unwarned' = unwarned \cup {e \in dropped : WarnedTooEarly(e.session_id)}
      /\ UNCHANGED <<flush, signalled>>
  BY DEF Emit, Transmit
<1>2. Elements(upWire) \subseteq Elements(upWire')
  <2>1. env \in Envelope /\ upWire \in Seq(Envelope)
    BY DEF IInv, TypeOK, Event, Envelope
  <2> QED
    BY <1>1, <2>1, ElementsAppend
<1> HIDE DEF env, queue, dropped
<1>3. OverflowReported'
  BY <1>1, <1>2 DEF ReportInv, OverflowReported
<1>4. SuspendedWarningCounts'
  <2> SUFFICES ASSUME flush.pc = "warn", flush.taken, NEW e \in trimmed',
                      e.session_id = flush.sid
               PROVE  \/ Warning(flush.sid) \in Elements(upWire')
                      \/ e \in signalled' \cup unwarned'
    BY <1>1 DEF SuspendedWarningCounts
  <2>1. CASE e \in trimmed
    BY <1>1, <1>2, <2>1 DEF ReportInv, SuspendedWarningCounts
  <2>2. CASE e \in dropped
    BY <1>1, <1>2, <2>2 DEF WarnedTooEarly
  <2> QED
    BY <1>1, <2>1, <2>2
<1> QED
  BY <1>3, <1>4 DEF ReportInv

(* The frames the connection before still carried are gone, but the flags    *)
(* that are left are what the flush warns about.                             *)
LEMMA ConnectReport == ASSUME IInv, ReportInv, Connect PROVE ReportInv'
<1>1. /\ truncated \in SUBSET Sessions /\ outbox \in Seq(Envelope)
      /\ <<>> \in Seq(Envelope) /\ Elements(<<>>) = {}
  BY ElementsEmpty DEF IInv, TypeOK
<1>2. /\ FlushOn(truncated, outbox, <<>>, TRUE)
      /\ unwarned' = unwarned \cup LostSigns(<<>>)
      /\ UNCHANGED <<truncated, trimmed, signalled>>
  BY DEF Connect
<1>3. OverflowReported'
  BY <1>1, <1>2 DEF ReportInv, OverflowReported, LostSigns
<1>4. SuspendedWarningCounts'
  BY <1>1, <1>2, FlushOnWarns DEF SuspendedWarningCounts
<1> QED
  BY <1>3, <1>4 DEF ReportInv

LEMMA WarningSentReport == ASSUME IInv, ReportInv, WarningSent PROVE ReportInv'
<1>1. /\ flush.left \in SUBSET Sessions /\ outbox \in Seq(Envelope)
      /\ upWire \in Seq(Envelope) /\ (ws = "open") \in BOOLEAN
      /\ flush.pc = "warn"
  BY DEF IInv, TypeOK, FlushState, WarningSent
<1>2. /\ FlushOn(flush.left, outbox, upWire, ws = "open")
      /\ UNCHANGED <<trimmed, signalled, unwarned>>
      /\ \/ truncated' = truncated
         \/ flush.taken /\ truncated' = truncated \ {flush.sid}
  BY DEF WarningSent, historyVars
<1>3. /\ Elements(upWire) \subseteq Elements(upWire')
      /\ (flush'.pc = "warn" /\ flush'.taken) =>
             Warning(flush'.sid) \in Elements(upWire')
  BY <1>1, <1>2, FlushOnWarns
<1>4. OverflowReported'
  BY <1>1, <1>2, <1>3 DEF ReportInv, OverflowReported, SuspendedWarningCounts
<1>5. SuspendedWarningCounts'
  BY <1>3 DEF SuspendedWarningCounts
<1> QED
  BY <1>4, <1>5 DEF ReportInv

LEMMA EventResentReport == ASSUME IInv, ReportInv, EventResent PROVE ReportInv'
<1>1. /\ flush.tail \in Seq(Envelope) /\ upWire \in Seq(Envelope)
      /\ (ws = "open") \in BOOLEAN /\ {} \in SUBSET Sessions
  BY DEF IInv, TypeOK, FlushState, EventResent
<1>2. /\ FlushOn({}, flush.tail, upWire, ws = "open")
      /\ UNCHANGED <<truncated, trimmed, signalled, unwarned>>
  BY DEF EventResent, historyVars
<1>3. /\ Elements(upWire) \subseteq Elements(upWire')
      /\ (flush'.pc = "warn" /\ flush'.taken) =>
             Warning(flush'.sid) \in Elements(upWire')
  BY <1>1, <1>2, FlushOnWarns
<1>4. OverflowReported'
  BY <1>2, <1>3 DEF ReportInv, OverflowReported
<1>5. SuspendedWarningCounts'
  BY <1>3 DEF SuspendedWarningCounts
<1> QED
  BY <1>4, <1>5 DEF ReportInv

(* What a loss leaves without a sign is recorded as such. *)
LEMMA SocketReport == ASSUME IInv, ReportInv, SocketSteps PROVE ReportInv'
<1>1. CASE Disconnect \/ RunEnds
  BY <1>1 DEF Disconnect, RunEnds, wireVars, historyVars, ReportInv,
              OverflowReported, SuspendedWarningCounts
<1>2. CASE Cancelled \/ SocketBreaks
  <2>1. /\ unwarned' = unwarned \cup LostSigns(upWire')
        /\ flush' \in {flush, Idle}
        /\ UNCHANGED <<truncated, trimmed, signalled>>
    BY <1>2 DEF Cancelled, SocketBreaks
  <2>2. OverflowReported'
    BY <2>1 DEF ReportInv, OverflowReported, LostSigns
  <2>3. SuspendedWarningCounts'
    <3> SUFFICES ASSUME flush'.pc = "warn", flush'.taken, NEW e \in trimmed',
                        e.session_id = flush'.sid
                 PROVE  \/ Warning(flush'.sid) \in Elements(upWire')
                        \/ e \in signalled' \cup unwarned'
      BY DEF SuspendedWarningCounts
    <3>1. flush' = flush
      BY <2>1 DEF Idle
    <3> QED
      BY <2>1, <3>1 DEF ReportInv, SuspendedWarningCounts, LostSigns
  <2> QED
    BY <2>2, <2>3 DEF ReportInv
<1> QED
  BY <1>1, <1>2 DEF SocketSteps

(* Only a warning's own delivery takes it off the wire. *)
LEMMA RelayReport ==
    ASSUME IInv, ReportInv, RelayStores \/ RelayWarns PROVE ReportInv'
<1>1. /\ upWire # <<>> /\ upWire' = Tail(upWire)
      /\ UNCHANGED <<flush, truncated, trimmed, unwarned>>
      /\ signalled \subseteq signalled'
      /\ Head(upWire).node_seq = 0 =>
             \A e \in trimmed : e.session_id = Head(upWire).session_id => e \in signalled'
  BY DEF RelayStores, RelayWarns, nodeVars, historyVars, IsWarning
<1>2. /\ upWire \in Seq(Envelope) /\ Len(upWire) \in Nat /\ Len(upWire) # 0
      /\ Len(upWire') = Len(upWire) - 1
      /\ \A i \in 1 .. Len(upWire') : upWire'[i] = upWire[i + 1]
      /\ Head(upWire) = upWire[1]
  BY <1>1, ElementsTail, LenProperties, EmptySeq DEF IInv, TypeOK
<1>3. ASSUME NEW s \in Sessions, Warning(s) \in Elements(upWire)
      PROVE  \/ Warning(s) \in Elements(upWire')
             \/ \A e \in trimmed : e.session_id = s => e \in signalled'
  <2>1. PICK i \in 1 .. Len(upWire) : upWire[i] = Warning(s)
    BY <1>3 DEF Elements
  <2>2. CASE i = 1
    BY <1>1, <1>2, <2>1, <2>2 DEF Warning
  <2>3. CASE i # 1
    <3>1. i - 1 \in 1 .. Len(upWire') /\ (i - 1) + 1 = i
      BY <1>2, <2>3
    <3>2. upWire'[i - 1] = Warning(s)
      BY <1>2, <2>1, <3>1
    <3> QED
      BY <3>1, <3>2 DEF Elements
  <2> QED
    BY <2>2, <2>3
<1>4. \A e \in trimmed : e.session_id \in Sessions
  BY DEF IInv, TypeOK, Envelope
<1>5. OverflowReported'
  BY <1>1, <1>3, <1>4 DEF ReportInv, OverflowReported
<1>6. SuspendedWarningCounts'
  BY <1>1, <1>3, <1>4 DEF ReportInv, SuspendedWarningCounts
<1> QED
  BY <1>5, <1>6 DEF ReportInv

LEMMA NextReport == IInv /\ ReportInv /\ [Next]_vars => ReportInv'
<1> SUFFICES ASSUME IInv, ReportInv, [Next]_vars PROVE ReportInv'
  OBVIOUS
<1>1. ASSUME NEW s \in Sessions, Emit(s) PROVE ReportInv'
  BY <1>1, EmitReport
<1>2. CASE Connect
  BY <1>2, ConnectReport
<1>3. CASE WarningSent
  BY <1>3, WarningSentReport
<1>4. CASE EventResent
  BY <1>4, EventResentReport
<1>5. CASE ReceiveAck
  BY <1>5 DEF ReceiveAck, historyVars, ReportInv, OverflowReported,
              SuspendedWarningCounts
<1>6. CASE SocketSteps
  BY <1>6, SocketReport
<1>7. CASE RelayStores \/ RelayWarns
  BY <1>7, RelayReport
<1>8. CASE UNCHANGED vars
  BY <1>8 DEF vars, ReportInv, OverflowReported, SuspendedWarningCounts
<1> QED
  BY <1>1, <1>2, <1>3, <1>4, <1>5, <1>6, <1>7, <1>8 DEF Next, SocketSteps

(* _trim_outbox and _flush_outbox together leave no overflow unreported but  *)
(* for a warning lost after its send returned, or one that was under way     *)
(* when its session overflowed again.                                        *)
THEOREM OverflowIsReported == Spec => []OverflowReported
<1>1. ReportInv => OverflowReported
  BY DEF ReportInv
<1> QED
  BY <1>1, InitReport, NextReport, Inductive, PTL DEF Spec

-----------------------------------------------------------------------------
(* The order of the relay's log.  An event that was not emitted during a     *)
(* flush travels behind every older one that may still be sent: that is what *)
(* the flush is for, and it holds on the wire, not only in the log, because  *)
(* a break may cut the wire anywhere.                                        *)

(* The envelopes that may still reach the relay. *)
Pending == Elements(outbox) \cup FlushTail \cup Elements(upWire)

(* On the wire, an event that is not late has every older event of the pool  *)
(* before it, or the log has that event already.                             *)
Follows(wire, pool, log, late) ==
    \A i \in 1 .. Len(wire) :
        wire[i].node_seq \notin late =>
            \A e \in pool :
                (e.node_seq # 0 /\ e.node_seq < wire[i].node_seq)
                    => e \in log \/ \E j \in 1 .. i - 1 : wire[j] = e

SentAfterOlder == Follows(upWire, Pending, Elements(relayLog), overtaking)

StoredAfterOlder ==
    \A x \in Elements(relayLog) :
        x.node_seq \notin overtaking =>
            \A e \in Pending :
                (e.node_seq # 0 /\ e.node_seq < x.node_seq)
                    => e \in Elements(relayLog)

(* A flush that has begun to resend leaves nothing of the outbox behind. *)
NothingLeftBehind ==
    (ws = "open" /\ flush.pc # "warn") =>
        Elements(outbox) \subseteq
            Elements(relayLog) \cup Elements(upWire) \cup FlushTail

Ascending(s) ==
    \A i, j \in 1 .. Len(s) : i < j => s[i].node_seq < s[j].node_seq

ResendsInOrder == flush.pc = "resend" => Ascending(flush.tail)

OrderInv ==
    /\ SentAfterOlder
    /\ StoredAfterOlder
    /\ NothingLeftBehind
    /\ ResendsInOrder
    /\ OnlyFlushReorders

(* Fewer older events, a longer log, more exemptions: the claim is weaker. *)
LEMMA FollowsWeaken ==
    ASSUME NEW wire, NEW pool, NEW log, NEW late,
           NEW pool2 \in SUBSET pool, NEW log2, log \subseteq log2,
           NEW late2, late \subseteq late2,
           Follows(wire, pool, log, late)
    PROVE  Follows(wire, pool2, log2, late2)
BY DEF Follows

(* A break keeps a prefix of the wire. *)
LEMMA FollowsPrefix ==
    ASSUME NEW wire, NEW pool, NEW log, NEW late, NEW wire2,
           \A i \in 1 .. Len(wire2) : i \in 1 .. Len(wire) /\ wire2[i] = wire[i],
           Len(wire2) \in Nat, Len(wire) \in Nat,
           Follows(wire, pool, log, late)
    PROVE  Follows(wire2, pool, log, late)
<1> SUFFICES ASSUME NEW i \in 1 .. Len(wire2), wire2[i].node_seq \notin late,
                    NEW e \in pool, e.node_seq # 0,
                    e.node_seq < wire2[i].node_seq, e \notin log
             PROVE  \E j \in 1 .. i - 1 : wire2[j] = e
  BY DEF Follows
<1>1. PICK j \in 1 .. i - 1 : wire[j] = e
  BY DEF Follows
<1>2. j \in 1 .. Len(wire2)
  OBVIOUS
<1> QED
  BY <1>1, <1>2

(* What joins the wire follows what must go before it. *)
LEMMA FollowsAppend ==
    ASSUME NEW wire \in Seq(Envelope), NEW x \in Envelope,
           NEW pool, NEW log, NEW late,
           Follows(wire, pool, log, late),
           x.node_seq \notin late =>
               \A e \in pool : (e.node_seq # 0 /\ e.node_seq < x.node_seq)
                                   => e \in log \cup Elements(wire)
    PROVE  Follows(Append(wire, x), pool, log, late)
<1> DEFINE wire2 == Append(wire, x)
<1>1. /\ Len(wire) \in Nat
      /\ Len(wire2) = Len(wire) + 1
      /\ \A i \in 1 .. Len(wire) : wire2[i] = wire[i]
      /\ wire2[Len(wire) + 1] = x
  BY ElementsAppend, LenProperties
<1> HIDE DEF wire2
<1> SUFFICES ASSUME NEW i \in 1 .. Len(wire2), wire2[i].node_seq \notin late,
                    NEW e \in pool, e.node_seq # 0,
                    e.node_seq < wire2[i].node_seq, e \notin log
             PROVE  \E j \in 1 .. i - 1 : wire2[j] = e
  BY DEF Follows, wire2
<1>2. CASE i \in 1 .. Len(wire)
  <2>1. PICK j \in 1 .. i - 1 : wire[j] = e
    BY <1>1, <1>2 DEF Follows
  <2> QED
    BY <1>1, <1>2, <2>1
<1>3. CASE i = Len(wire) + 1
  <2>1. PICK j \in 1 .. Len(wire) : wire[j] = e
    BY <1>1, <1>3 DEF Elements
  <2> QED
    BY <1>1, <1>3, <2>1
<1> QED
  BY <1>1, <1>2, <1>3

(* What leaves the wire for the log still goes before the rest. *)
LEMMA FollowsTail ==
    ASSUME NEW wire \in Seq(Envelope), wire # <<>>,
           NEW pool, NEW log, NEW late, NEW log2, log \subseteq log2,
           Head(wire).node_seq # 0 => Head(wire) \in log2,
           Follows(wire, pool, log, late)
    PROVE  Follows(Tail(wire), pool, log2, late)
<1> DEFINE wire2 == Tail(wire)
<1>1. /\ Len(wire) \in Nat /\ Len(wire2) = Len(wire) - 1
      /\ \A i \in 1 .. Len(wire2) : wire2[i] = wire[i + 1]
      /\ Head(wire) = wire[1]
  BY ElementsTail, LenProperties
<1> HIDE DEF wire2
<1> SUFFICES ASSUME NEW i \in 1 .. Len(wire2), wire2[i].node_seq \notin late,
                    NEW e \in pool, e.node_seq # 0,
                    e.node_seq < wire2[i].node_seq, e \notin log2
             PROVE  \E j \in 1 .. i - 1 : wire2[j] = e
  BY DEF Follows, wire2
<1>2. i + 1 \in 1 .. Len(wire) /\ wire2[i] = wire[i + 1]
  BY <1>1
<1>3. PICK j \in 1 .. (i + 1) - 1 : wire[j] = e
  BY <1>2 DEF Follows
<1>4. j # 1
  BY <1>1, <1>3
<1>5. j - 1 \in 1 .. i - 1 /\ j - 1 \in 1 .. Len(wire2) /\ (j - 1) + 1 = j
  BY <1>1, <1>2, <1>3, <1>4
<1> QED
  BY <1>1, <1>3, <1>5

(* The oldest of an ascending sequence is its head. *)
LEMMA AscendingTail ==
    ASSUME NEW q \in Seq(Envelope), q # <<>>, Ascending(q)
    PROVE  /\ Ascending(Tail(q))
           /\ Elements(q) = {Head(q)} \cup Elements(Tail(q))
           /\ \A e \in Elements(q) : ~ (e.node_seq < Head(q).node_seq)
<1>1. /\ Len(q) \in Nat \ {0} /\ Len(Tail(q)) = Len(q) - 1
      /\ \A i \in 1 .. Len(Tail(q)) : Tail(q)[i] = q[i + 1]
      /\ Head(q) = q[1] /\ Head(q) \in Elements(q)
      /\ Elements(Tail(q)) \subseteq Elements(q)
  BY ElementsTail, EmptySeq
<1>2. \A e \in Elements(q) : e \in Envelope
  BY ElementOfSeq DEF Elements
<1>3. \A i \in 1 .. Len(q) : q[i].node_seq \in Nat
  BY <1>2 DEF Elements, Envelope
<1>4. Ascending(Tail(q))
  <2> SUFFICES ASSUME NEW i \in 1 .. Len(Tail(q)), NEW j \in 1 .. Len(Tail(q)), i < j
               PROVE  Tail(q)[i].node_seq < Tail(q)[j].node_seq
    BY DEF Ascending
  <2>1. i + 1 \in 1 .. Len(q) /\ j + 1 \in 1 .. Len(q) /\ i + 1 < j + 1
    BY <1>1
  <2> QED
    BY <1>1, <2>1 DEF Ascending
<1>5. ASSUME NEW e \in Elements(q)
      PROVE  e = Head(q) \/ e \in Elements(Tail(q))
  <2>1. PICK i \in 1 .. Len(q) : q[i] = e
    BY DEF Elements
  <2>2. CASE i = 1
    BY <1>1, <2>1, <2>2
  <2>3. CASE i # 1
    <3>1. i - 1 \in 1 .. Len(Tail(q)) /\ (i - 1) + 1 = i
      BY <1>1, <2>3
    <3>2. Tail(q)[i - 1] = e
      BY <1>1, <2>1, <3>1
    <3> QED
      BY <3>1, <3>2 DEF Elements
  <2> QED
    BY <2>2, <2>3
<1>6. Elements(q) = {Head(q)} \cup Elements(Tail(q))
  BY <1>1, <1>5
<1>7. \A i \in 1 .. Len(q) : ~ (q[i].node_seq < q[1].node_seq)
  BY <1>1, <1>3 DEF Ascending
<1> QED
  BY <1>1, <1>4, <1>6, <1>7 DEF Elements

(* The outbox is in order. *)
LEMMA OutboxAscends == IInv => Ascending(outbox)
<1> SUFFICES ASSUME IInv, NEW i \in 1 .. Len(outbox), NEW j \in 1 .. Len(outbox), i < j
             PROVE  outbox[i].node_seq < outbox[j].node_seq
  BY DEF Ascending
<1>1. nodeSeq \in Nat /\ Len(outbox) \in Nat
  BY LenProperties DEF IInv, TypeOK
<1> QED
  BY <1>1 DEF IInv, OutboxIsNewest

-----------------------------------------------------------------------------
(* OrderInv holds initially and every action keeps it. *)

LEMMA InitOrder == Init => OrderInv
<1> SUFFICES ASSUME Init PROVE OrderInv
  OBVIOUS
<1>1. /\ Len(upWire) = 0 /\ Len(relayLog) = 0 /\ Elements(relayLog) = {}
      /\ ws = "none" /\ flush.pc = "idle"
  BY ElementsEmpty DEF Init, Idle
<1> QED
  BY <1>1 DEF OrderInv, SentAfterOlder, StoredAfterOlder, NothingLeftBehind,
              ResendsInOrder, OnlyFlushReorders, Follows

(* A step after which less may still be sent, and that stores nothing. *)
LEMMA ShrinkOrder ==
    ASSUME TypeOK, TypeOK', OrderInv,
           UNCHANGED <<relayLog, overtaking>>,
           flush' = flush \/ (flush' = Idle /\ ws' # "open"),
           Elements(outbox') \subseteq Elements(outbox),
           \A i \in 1 .. Len(upWire') :
               i \in 1 .. Len(upWire) /\ upWire'[i] = upWire[i],
           ws' = "open" => ws = "open" /\ upWire' = upWire
    PROVE  OrderInv'
<1>1. Len(upWire) \in Nat /\ Len(upWire') \in Nat
  BY LenProperties DEF TypeOK
<1>2. Elements(upWire') \subseteq Elements(upWire)
  BY DEF Elements
<1>3. /\ FlushTail' \subseteq FlushTail /\ Pending' \subseteq Pending
      /\ flush' = flush => FlushTail' = FlushTail
  BY <1>2 DEF Pending, FlushTail, Idle
<1>4. Follows(upWire', Pending, Elements(relayLog), overtaking)
  BY <1>1, FollowsPrefix DEF OrderInv, SentAfterOlder
<1>5. SentAfterOlder'
  BY <1>3, <1>4 DEF SentAfterOlder, Follows
<1>6. StoredAfterOlder'
  BY <1>3 DEF OrderInv, StoredAfterOlder
<1>7. NothingLeftBehind'
  BY <1>3 DEF OrderInv, NothingLeftBehind
<1>8. ResendsInOrder' /\ OnlyFlushReorders'
  BY DEF OrderInv, ResendsInOrder, OnlyFlushReorders, Idle
<1> QED
  BY <1>5, <1>6, <1>7, <1>8 DEF OrderInv

LEMMA ReceiveAckOrder ==
    ASSUME IInv, IInv', OrderInv, ReceiveAck
    PROVE  OrderInv'
<1>1. PICK k \in 0 .. Len(outbox) : outbox' = SubSeq(outbox, k + 1, Len(outbox))
  BY DEF ReceiveAck
<1>2. /\ outbox \in Seq(Envelope) /\ Len(outbox) \in Nat
      /\ upWire \in Seq(Envelope) /\ TypeOK /\ TypeOK'
  BY LenProperties DEF IInv, TypeOK
<1>3. Elements(outbox') \subseteq Elements(outbox)
  <2> DEFINE m == k + 1
  <2>1. m \in 1 .. Len(outbox) + 1 /\ Len(outbox) \in m - 1 .. Len(outbox)
    BY <1>2
  <2>2. outbox' = SubSeq(outbox, m, Len(outbox))
    BY <1>1
  <2> HIDE DEF m
  <2> QED
    BY <1>2, <2>1, <2>2, ElementsSubSeq
<1>4. UNCHANGED <<ws, flush, upWire, relayLog, overtaking>>
  BY DEF ReceiveAck, historyVars
<1> QED
  BY <1>2, <1>3, <1>4, ShrinkOrder

LEMMA SocketOrder ==
    ASSUME IInv, IInv', OrderInv, SocketSteps
    PROVE  OrderInv'
<1>1. /\ UNCHANGED <<outbox, relayLog, overtaking>>
      /\ flush' = flush \/ (flush' = Idle /\ ws' # "open")
      /\ ws' # "open" /\ TypeOK /\ TypeOK'
  BY DEF SocketSteps, Disconnect, RunEnds, Cancelled, SocketBreaks, historyVars, IInv
<1>2. \A i \in 1 .. Len(upWire') :
          i \in 1 .. Len(upWire) /\ upWire'[i] = upWire[i]
  <2>1. CASE Disconnect \/ RunEnds
    BY <2>1 DEF Disconnect, RunEnds, wireVars
  <2>2. CASE SocketBreaks \/ Cancelled
    <3>1. PICK n \in 0 .. Len(upWire) : upWire' = SubSeq(upWire, 1, n)
      BY <2>2 DEF SocketBreaks, Cancelled
    <3>2. /\ upWire \in Seq(Envelope) /\ Len(upWire) \in Nat
          /\ 1 \in 1 .. Len(upWire) + 1 /\ n \in 1 - 1 .. Len(upWire)
      BY LenProperties DEF IInv, TypeOK
    <3>3. /\ Len(upWire') = n - 1 + 1
          /\ \A i \in 1 .. n - 1 + 1 : upWire'[i] = upWire[1 + i - 1]
      BY <3>1, <3>2, ElementsSubSeq
    <3> QED
      BY <3>2, <3>3
  <2> QED
    BY <2>1, <2>2 DEF SocketSteps
<1> QED
  BY <1>1, <1>2, ShrinkOrder

(* A new event is newer than all that is pending; emitted while nothing is   *)
(* flushed it finds the whole outbox sent.                                   *)
LEMMA EmitOrder ==
    ASSUME IInv, IInv', OrderInv, NEW s \in Sessions, Emit(s)
    PROVE  OrderInv'
<1> DEFINE env   == Event(nodeSeq + 1, s)
           queue == Append(outbox, env)
<1>1. /\ outbox' = SubSeq(queue, Overflow(queue) + 1, Len(queue))
      /\ upWire' = IF ws = "open" THEN Append(upWire, env) ELSE upWire
      /\ overtaking' = IF flush.pc = "idle" THEN overtaking
                                            ELSE overtaking \cup {nodeSeq + 1}
      /\ UNCHANGED <<ws, flush, relayLog>>
  BY DEF Emit, Kept, Transmit
<1>2. /\ nodeSeq \in Nat /\ OutboxMax \in Nat /\ outbox \in Seq(Envelope)
      /\ upWire \in Seq(Envelope) /\ Len(upWire) \in Nat /\ Len(outbox) \in Nat
  BY LenProperties, OutboxAssumption DEF IInv, TypeOK
<1>3. env \in Envelope /\ env.node_seq = nodeSeq + 1
  BY <1>2 DEF Event, Envelope
<1>4. /\ queue \in Seq(Envelope) /\ Len(queue) = Len(outbox) + 1
      /\ Elements(queue) = Elements(outbox) \cup {env}
  BY <1>2, <1>3, ElementsAppend
<1>5. Elements(outbox') \subseteq Elements(outbox) \cup {env}
  <2> DEFINE m == Overflow(queue) + 1
  <2>1. m \in 1 .. Len(queue) + 1 /\ Len(queue) \in m - 1 .. Len(queue)
    BY <1>2, <1>4 DEF Overflow
  <2>2. outbox' = SubSeq(queue, m, Len(queue))
    BY <1>1
  <2> HIDE DEF m, queue
  <2> QED
    BY <1>4, <2>1, <2>2, ElementsSubSeq
<1> HIDE DEF env, queue
<1>6. /\ Elements(upWire) \subseteq Elements(upWire')
      /\ Elements(upWire') \subseteq Elements(upWire) \cup {env}
      /\ ws = "open" => env \in Elements(upWire')
  BY <1>1, <1>2, <1>3, ElementsAppend
<1>7. FlushTail' = FlushTail /\ Pending' \subseteq Pending \cup {env}
  BY <1>1, <1>5, <1>6 DEF Pending, FlushTail
<1>8. \A x \in Known : ~ (env.node_seq < x.node_seq)
  BY <1>2, <1>3, KnownTyped DEF IInv, KnownEmitted, Envelope
<1>9. overtaking \subseteq overtaking'
  BY <1>1
<1>10. Follows(upWire, Pending \cup {env}, Elements(relayLog), overtaking)
  <2>1. \A i \in 1 .. Len(upWire) : ~ (env.node_seq < upWire[i].node_seq)
    BY <1>8 DEF Known, Elements
  <2> QED
    BY <2>1 DEF OrderInv, SentAfterOlder, Follows
<1>11. Follows(upWire, Pending', Elements(relayLog), overtaking')
  BY <1>7, <1>9, <1>10, FollowsWeaken
<1>12. ASSUME ws = "open", env.node_seq \notin overtaking',
              NEW e \in Pending', e.node_seq < env.node_seq
       PROVE  e \in Elements(relayLog) \cup Elements(upWire)
  <2>1. flush.pc = "idle"
    BY <1>1, <1>3, <1>12
  <2>2. e \in Elements(outbox) \cup Elements(upWire)
    <3>1. e # env
      BY <1>2, <1>3, <1>12
    <3> QED
      BY <1>7, <2>1, <3>1 DEF Pending, FlushTail
  <2> QED
    BY <1>12, <2>1, <2>2 DEF OrderInv, NothingLeftBehind, FlushTail
<1>13. SentAfterOlder'
  <2>1. CASE ws = "open"
    <3>1. Follows(Append(upWire, env), Pending', Elements(relayLog), overtaking')
      BY <1>2, <1>3, <1>11, <1>12, <2>1, FollowsAppend
    <3> QED
      BY <1>1, <2>1, <3>1 DEF SentAfterOlder
  <2>2. CASE ws # "open"
    BY <1>1, <1>11, <2>2 DEF SentAfterOlder
  <2> QED
    BY <2>1, <2>2
<1>14. StoredAfterOlder'
  <2>1. \A x \in Elements(relayLog) : ~ (env.node_seq < x.node_seq)
    BY <1>8 DEF Known
  <2> QED
    BY <1>1, <1>7, <1>9, <2>1 DEF OrderInv, StoredAfterOlder
<1>15. NothingLeftBehind'
  BY <1>1, <1>5, <1>6, <1>7 DEF OrderInv, NothingLeftBehind
<1>16. ResendsInOrder' /\ OnlyFlushReorders'
  BY <1>1, <1>9 DEF OrderInv, ResendsInOrder, OnlyFlushReorders
<1> QED
  BY <1>13, <1>14, <1>15, <1>16 DEF OrderInv

(* The flush sends the oldest of what it has left, and what it has left is   *)
(* all of the outbox that was not sent on this connection.                   *)
LEMMA FlushOrder ==
    ASSUME IInv, OrderInv, NEW warn \in SUBSET Sessions, NEW tail \in Seq(Envelope),
           NEW wire \in Seq(Envelope), NEW open \in BOOLEAN,
           FlushOn(warn, tail, wire, open),
           Elements(wire) \subseteq Elements(upWire),
           Elements(tail) \subseteq Elements(outbox) \cup FlushTail,
           Follows(wire, Pending, Elements(relayLog), overtaking),
           Ascending(tail),
           open => Elements(outbox) \subseteq
                     Elements(relayLog) \cup Elements(wire) \cup Elements(tail),
           ws' = "open" => open,
           UNCHANGED <<outbox, relayLog, overtaking>>
    PROVE  OrderInv'
<1>1. CASE \E s \in warn :
             /\ flush' = [pc |-> "warn", sid |-> s, left |-> warn \ {s},
                          taken |-> open]
             /\ upWire' = IF open THEN Append(wire, Warning(s)) ELSE wire
  <2>1. PICK s \in warn :
             /\ flush' = [pc |-> "warn", sid |-> s, left |-> warn \ {s},
                          taken |-> open]
             /\ upWire' = IF open THEN Append(wire, Warning(s)) ELSE wire
    BY <1>1
  <2>2. Warning(s) \in Envelope /\ Warning(s).node_seq = 0
    BY DEF Warning, Envelope
  <2>3. Elements(upWire') \subseteq Elements(upWire) \cup {Warning(s)}
    BY <2>1, <2>2, ElementsAppend
  <2>4. flush'.pc = "warn" /\ FlushTail' = {}
    BY <2>1 DEF FlushTail
  <2>5. \A e \in Pending' : e \in Pending \/ e.node_seq = 0
    BY <2>2, <2>3, <2>4 DEF Pending
  <2>6. Follows(upWire', Pending, Elements(relayLog), overtaking)
    <3>1. \A e \in Pending : e.node_seq # 0 => ~ (e.node_seq < Warning(s).node_seq)
      <4>1. Pending \subseteq Envelope
        BY KnownTyped DEF IInv, Known, Pending
      <4> QED
        BY <2>2, <4>1 DEF Envelope
    <3>2. Follows(Append(wire, Warning(s)), Pending, Elements(relayLog), overtaking)
      BY <2>2, <3>1, FollowsAppend
    <3> QED
      BY <2>1, <3>2
  <2>7. SentAfterOlder' /\ StoredAfterOlder'
    BY <2>5, <2>6 DEF OrderInv, SentAfterOlder, StoredAfterOlder, Follows
  <2> QED
    BY <2>4, <2>7 DEF OrderInv, NothingLeftBehind, ResendsInOrder, OnlyFlushReorders
<1>2. CASE /\ tail # <<>>
           /\ flush' = [pc |-> "resend", tail |-> Tail(tail)]
           /\ upWire' = IF open THEN Append(wire, Head(tail)) ELSE wire
  <2> DEFINE h == Head(tail)
  <2>1. /\ h \in Envelope /\ Tail(tail) \in Seq(Envelope)
        /\ Ascending(Tail(tail))
        /\ Elements(tail) = {h} \cup Elements(Tail(tail))
        /\ \A e \in Elements(tail) : ~ (e.node_seq < h.node_seq)
    BY <1>2, ElementsTail, AscendingTail
  <2> HIDE DEF h
  <2>2. upWire' = IF open THEN Append(wire, h) ELSE wire
    BY <1>2 DEF h
  <2>3. /\ Elements(wire) \subseteq Elements(upWire')
        /\ Elements(upWire') \subseteq Elements(wire) \cup {h}
        /\ open => h \in Elements(upWire')
    BY <2>1, <2>2, ElementsAppend
  <2>4. /\ flush'.pc = "resend" /\ flush'.tail = Tail(tail)
        /\ FlushTail' = Elements(Tail(tail))
    BY <1>2 DEF FlushTail
  <2>5. Pending' \subseteq Pending
    BY <2>1, <2>3, <2>4 DEF Pending
  <2>6. Pending' \subseteq Elements(outbox) \cup Elements(tail) \cup Elements(wire)
    BY <2>1, <2>3, <2>4 DEF Pending
  <2>7. Follows(wire, Pending', Elements(relayLog), overtaking)
    BY <2>5, FollowsWeaken
  <2>8. SentAfterOlder'
    <3>1. CASE open
      <4>1. \A e \in Pending' : e.node_seq < h.node_seq
                                   => e \in Elements(relayLog) \cup Elements(wire)
        BY <2>1, <2>6, <3>1
      <4>2. Follows(Append(wire, h), Pending', Elements(relayLog), overtaking)
        BY <2>1, <2>7, <4>1, FollowsAppend
      <4> QED
        BY <2>2, <3>1, <4>2 DEF SentAfterOlder
    <3>2. CASE ~ open
      BY <2>2, <2>7, <3>2 DEF SentAfterOlder
    <3> QED
      BY <3>1, <3>2
  <2>9. StoredAfterOlder' /\ ResendsInOrder' /\ OnlyFlushReorders'
    BY <2>1, <2>4, <2>5 DEF OrderInv, StoredAfterOlder, ResendsInOrder,
                            OnlyFlushReorders
  <2>10. NothingLeftBehind'
    BY <2>1, <2>3, <2>4 DEF NothingLeftBehind
  <2> QED
    BY <2>8, <2>9, <2>10 DEF OrderInv
<1>3. CASE tail = <<>> /\ flush' = Idle /\ upWire' = wire
  <2>1. FlushTail' = {} /\ flush'.pc = "idle" /\ Elements(tail) = {}
    BY <1>3, ElementsEmpty DEF FlushTail, Idle
  <2>2. Pending' \subseteq Pending
    BY <1>3, <2>1 DEF Pending
  <2>3. SentAfterOlder' /\ StoredAfterOlder'
    BY <1>3, <2>2, FollowsWeaken DEF OrderInv, SentAfterOlder, StoredAfterOlder
  <2>4. NothingLeftBehind'
    BY <1>3, <2>1 DEF NothingLeftBehind
  <2> QED
    BY <2>1, <2>3, <2>4 DEF OrderInv, ResendsInOrder, OnlyFlushReorders
<1> QED
  BY <1>1, <1>2, <1>3 DEF FlushOn

LEMMA ConnectOrder == ASSUME IInv, OrderInv, Connect PROVE OrderInv'
<1>1. /\ truncated \in SUBSET Sessions /\ outbox \in Seq(Envelope)
      /\ Ascending(outbox)
  BY OutboxAscends DEF IInv, TypeOK
<1>2. <<>> \in Seq(Envelope) /\ Len(<<>>) = 0 /\ Elements(<<>>) = {}
  BY ElementsEmpty
<1>3. Follows(<<>>, Pending, Elements(relayLog), overtaking)
  BY <1>2 DEF Follows
<1>4. /\ FlushOn(truncated, outbox, <<>>, TRUE)
      /\ UNCHANGED <<outbox, relayLog, overtaking>>
  BY DEF Connect, historyVars
<1> QED
  BY <1>1, <1>2, <1>3, <1>4, FlushOrder

LEMMA WarningSentOrder == ASSUME IInv, OrderInv, WarningSent PROVE OrderInv'
<1>1. /\ flush.left \in SUBSET Sessions /\ outbox \in Seq(Envelope)
      /\ upWire \in Seq(Envelope) /\ (ws = "open") \in BOOLEAN
      /\ Ascending(outbox)
  BY OutboxAscends DEF IInv, TypeOK, FlushState, WarningSent
<1>2. /\ FlushOn(flush.left, outbox, upWire, ws = "open")
      /\ UNCHANGED <<ws, outbox, relayLog, overtaking>>
  BY DEF WarningSent, historyVars
<1> QED
  BY <1>1, <1>2, FlushOrder DEF OrderInv, SentAfterOlder

LEMMA EventResentOrder == ASSUME IInv, OrderInv, EventResent PROVE OrderInv'
<1>1. /\ flush.tail \in Seq(Envelope) /\ upWire \in Seq(Envelope)
      /\ (ws = "open") \in BOOLEAN /\ {} \in SUBSET Sessions
  BY DEF IInv, TypeOK, FlushState, EventResent
<1>2. Elements(flush.tail) = FlushTail /\ Ascending(flush.tail)
  BY DEF FlushTail, EventResent, OrderInv, ResendsInOrder
<1>3. (ws = "open") => Elements(outbox) \subseteq
          Elements(relayLog) \cup Elements(upWire) \cup Elements(flush.tail)
  BY <1>2 DEF OrderInv, NothingLeftBehind, EventResent
<1>4. /\ FlushOn({}, flush.tail, upWire, ws = "open")
      /\ UNCHANGED <<ws, outbox, relayLog, overtaking>>
  BY DEF EventResent, historyVars
<1> QED
  BY <1>1, <1>2, <1>3, <1>4, FlushOrder DEF OrderInv, SentAfterOlder

(* An event that the log does not have is newer than all in it that is not   *)
(* late: an older one would be there already.                                *)
LEMMA RelayStoresOrder == ASSUME IInv, OrderInv, RelayStores PROVE OrderInv'
<1> DEFINE env == Head(upWire)
<1>1. /\ upWire # <<>> /\ env.node_seq # 0 /\ upWire' = Tail(upWire)
      /\ relayLog' = IF env \in Elements(relayLog)
                     THEN relayLog ELSE Append(relayLog, env)
      /\ UNCHANGED <<outbox, ws, flush, overtaking>>
  BY DEF RelayStores, nodeVars, historyVars, IsWarning
<1>2. /\ upWire \in Seq(Envelope) /\ relayLog \in Seq(Envelope)
      /\ Len(upWire) \in Nat /\ Len(relayLog) \in Nat
  BY LenProperties DEF IInv, TypeOK
<1>3. /\ env \in Envelope /\ env = upWire[1] /\ env \in Elements(upWire)
      /\ Elements(Tail(upWire)) \subseteq Elements(upWire)
      /\ Len(upWire) # 0
      /\ Elements(upWire) \subseteq {env} \cup Elements(Tail(upWire))
  <2>1. /\ env \in Envelope /\ env = upWire[1] /\ env \in Elements(upWire)
        /\ Elements(Tail(upWire)) \subseteq Elements(upWire)
        /\ Len(Tail(upWire)) = Len(upWire) - 1
        /\ \A i \in 1 .. Len(Tail(upWire)) : Tail(upWire)[i] = upWire[i + 1]
    BY <1>1, <1>2, ElementsTail
  <2>2. Len(upWire) # 0
    BY <1>1, <1>2, EmptySeq
  <2>3. ASSUME NEW i \in 1 .. Len(upWire), i # 1
        PROVE  upWire[i] \in Elements(Tail(upWire))
    <3>1. i - 1 \in 1 .. Len(Tail(upWire)) /\ (i - 1) + 1 = i
      BY <1>2, <2>1, <2>3
    <3>2. Tail(upWire)[i - 1] = upWire[i]
      BY <2>1, <3>1
    <3> QED
      BY <3>1, <3>2 DEF Elements
  <2> QED
    BY <2>1, <2>2, <2>3 DEF Elements
<1> HIDE DEF env
<1>4. /\ Elements(relayLog') = Elements(relayLog) \cup {env}
      /\ Len(relayLog') \in Nat
  BY <1>1, <1>2, <1>3, ElementsAppend
<1>5. FlushTail' = FlushTail /\ Pending' \subseteq Pending /\ env \in Pending
  BY <1>1, <1>3 DEF Pending, FlushTail
<1>6. SentAfterOlder'
  <2>1. Follows(Tail(upWire), Pending, Elements(relayLog'), overtaking)
    BY <1>1, <1>2, <1>4, FollowsTail DEF OrderInv, SentAfterOlder, env
  <2> QED
    BY <1>1, <1>5, <2>1 DEF SentAfterOlder, Follows
<1>7. StoredAfterOlder'
  <2> SUFFICES ASSUME NEW x \in Elements(relayLog'), x.node_seq \notin overtaking,
                      NEW e \in Pending, e.node_seq # 0, e.node_seq < x.node_seq
               PROVE  e \in Elements(relayLog')
    BY <1>1, <1>5 DEF StoredAfterOlder
  <2>1. CASE x \in Elements(relayLog)
    BY <1>4, <2>1 DEF OrderInv, StoredAfterOlder
  <2>2. CASE x = env
    <3>1. 1 \in 1 .. Len(upWire) /\ ~ \E j \in 1 .. 1 - 1 : TRUE
      BY <1>2, <1>3
    <3> QED
      BY <1>3, <1>4, <2>2, <3>1 DEF OrderInv, SentAfterOlder, Follows
  <2> QED
    BY <1>4, <2>1, <2>2
<1>8. NothingLeftBehind'
  BY <1>1, <1>3, <1>4, <1>5 DEF OrderInv, NothingLeftBehind
<1>9. ResendsInOrder'
  BY <1>1 DEF OrderInv, ResendsInOrder
<1>10. OnlyFlushReorders'
  <2>1. CASE env \in Elements(relayLog)
    BY <1>1, <2>1 DEF OrderInv, OnlyFlushReorders
  <2>2. CASE env \notin Elements(relayLog)
    <3>1. /\ Len(relayLog') = Len(relayLog) + 1
          /\ \A i \in 1 .. Len(relayLog) : relayLog'[i] = relayLog[i]
          /\ relayLog'[Len(relayLog) + 1] = env
      BY <1>1, <1>2, <1>3, <2>2, ElementsAppend
    <3> SUFFICES ASSUME NEW i \in 1 .. Len(relayLog'), NEW j \in 1 .. Len(relayLog'),
                        i < j, relayLog'[i].node_seq > relayLog'[j].node_seq
                 PROVE  relayLog'[i].node_seq \in overtaking
      BY <1>1 DEF OnlyFlushReorders
    <3>2. i \in 1 .. Len(relayLog) /\ relayLog'[i] = relayLog[i]
      BY <1>2, <3>1
    <3>3. CASE j \in 1 .. Len(relayLog)
      BY <3>1, <3>2, <3>3 DEF OrderInv, OnlyFlushReorders
    <3>4. CASE j = Len(relayLog) + 1
      <4>1. relayLog[i] \in Elements(relayLog) /\ relayLog[i] \in Envelope
        BY <1>2, <3>2, ElementOfSeq DEF Elements
      <4>2. env.node_seq < relayLog[i].node_seq
        BY <1>3, <3>1, <3>2, <3>4, <4>1 DEF Envelope
      <4> QED
        BY <1>1, <1>5, <2>2, <3>2, <4>1, <4>2 DEF OrderInv, StoredAfterOlder
    <3> QED
      BY <1>2, <3>1, <3>3, <3>4
  <2> QED
    BY <2>1, <2>2
<1> QED
  BY <1>6, <1>7, <1>8, <1>9, <1>10 DEF OrderInv

LEMMA RelayWarnsOrder == ASSUME IInv, OrderInv, RelayWarns PROVE OrderInv'
<1>1. /\ upWire # <<>> /\ Head(upWire).node_seq = 0 /\ upWire' = Tail(upWire)
      /\ UNCHANGED <<outbox, ws, flush, relayLog, overtaking>>
  BY DEF RelayWarns, nodeVars, IsWarning
<1>2. /\ upWire \in Seq(Envelope) /\ Len(upWire) \in Nat
      /\ Elements(upWire') \subseteq Elements(upWire)
      /\ Len(upWire') = Len(upWire) - 1
      /\ \A i \in 1 .. Len(upWire') : upWire'[i] = upWire[i + 1]
      /\ Head(upWire) = upWire[1]
  BY <1>1, ElementsTail, LenProperties DEF IInv, TypeOK
<1>3. FlushTail' = FlushTail /\ Pending' \subseteq Pending
  BY <1>1, <1>2 DEF Pending, FlushTail
<1>4. SentAfterOlder'
  <2>1. Follows(Tail(upWire), Pending, Elements(relayLog), overtaking)
    BY <1>1, <1>2, FollowsTail DEF OrderInv, SentAfterOlder
  <2>2. Follows(upWire', Pending', Elements(relayLog), overtaking)
    BY <1>1, <1>3, <2>1, FollowsWeaken
  <2> QED
    BY <1>1, <2>2 DEF SentAfterOlder
<1>5. StoredAfterOlder' /\ ResendsInOrder' /\ OnlyFlushReorders'
  BY <1>1, <1>3 DEF OrderInv, StoredAfterOlder, ResendsInOrder, OnlyFlushReorders
<1>6. NothingLeftBehind'
  <2> SUFFICES ASSUME ws = "open", flush.pc # "warn", NEW e \in Elements(outbox),
                      e \notin Elements(relayLog) \cup FlushTail
               PROVE  e \in Elements(upWire')
    BY <1>1, <1>3 DEF NothingLeftBehind
  <2>1. PICK i \in 1 .. Len(upWire) : upWire[i] = e
    BY DEF OrderInv, NothingLeftBehind, Elements
  <2>2. i # 1
    BY <1>1, <1>2, <2>1, OutboxEventsKnown
  <2>3. i - 1 \in 1 .. Len(upWire') /\ (i - 1) + 1 = i
    BY <1>2, <2>2
  <2>4. upWire'[i - 1] = e
    BY <1>2, <2>1, <2>3
  <2> QED
    BY <2>3, <2>4 DEF Elements
<1> QED
  BY <1>4, <1>5, <1>6 DEF OrderInv

LEMMA NextOrder == IInv /\ IInv' /\ OrderInv /\ [Next]_vars => OrderInv'
<1> SUFFICES ASSUME IInv, IInv', OrderInv, [Next]_vars PROVE OrderInv'
  OBVIOUS
<1>1. ASSUME NEW s \in Sessions, Emit(s) PROVE OrderInv'
  BY <1>1, EmitOrder
<1>2. CASE Connect
  BY <1>2, ConnectOrder
<1>3. CASE WarningSent
  BY <1>3, WarningSentOrder
<1>4. CASE EventResent
  BY <1>4, EventResentOrder
<1>5. CASE ReceiveAck
  BY <1>5, ReceiveAckOrder
<1>6. CASE SocketSteps
  BY <1>6, SocketOrder
<1>7. CASE RelayStores
  BY <1>7, RelayStoresOrder
<1>8. CASE RelayWarns
  BY <1>8, RelayWarnsOrder
<1>9. CASE UNCHANGED vars
  BY <1>9, ShrinkOrder DEF vars, IInv
<1> QED
  BY <1>1, <1>2, <1>3, <1>4, <1>5, <1>6, <1>7, <1>8, <1>9 DEF Next, SocketSteps

(* Whatever is lost, cut off, resent or acknowledged late, the relay's log   *)
(* is out of order only by events emitted while a flush was under way        *)
(* (send_payload during the awaits of _flush_outbox).                        *)
THEOREM OrderKeptButForFlush == Spec => []OnlyFlushReorders
<1>1. OrderInv => OnlyFlushReorders
  BY DEF OrderInv
<1> QED
  BY <1>1, InitOrder, NextOrder, Inductive, PTL DEF Spec
=============================================================================
