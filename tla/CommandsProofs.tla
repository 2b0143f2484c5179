--------------------------- MODULE CommandsProofs ---------------------------
(***************************************************************************)
(* Proofs about Commands for every set of sessions, every size of the ring *)
(* of command ids and of the file of read marks, and any number of         *)
(* commands, deliveries and restarts.                                      *)
(*                                                                         *)
(* The inductive invariant has three parts beside the types.  The ring     *)
(* holds the ids of the last commands, so an id's place tells how many ran *)
(* since.  Every stamp on its way to the file was shown: in a browser, in  *)
(* a command, in the marking thread.  And a mark a user relies on is in    *)
(* the file and in whatever the marking thread will put in its place.      *)
(***************************************************************************)
EXTENDS Commands, SequenceTheorems, TLAPS

InlineState ==
    [at : {"none", "listing", "listed", "reading", "writing", "marked", "sending"},
     id : 0 .. MaxCmds, listing : Listings, data : File, seen : Stamps]

TaskState ==
    [at : {"none", "working", "worked", "sending", "done"}, limit : Limits \cup {0},
     listing : Listings]

SeedingState == [by : {"nobody", "task", "inline"}, data : File]

(* TypeOK leaves the records of the work in progress half open. *)
Shapes ==
    /\ inline \in InlineState
    /\ inline.at \notin {"none", "sending"} => inline.id \in DOMAIN cmds
    /\ task \in [Reads -> TaskState]
    /\ seeding \in SeedingState

(* No command ran, or moved on in the ring, more often than one arrived. *)
Counted ==
    \A c \in Ids : runs[c] <= deliveries /\ since[c] <= deliveries

(* An id's place in the ring tells how many ids were recorded since; an id  *)
(* that left it did so for MaxRing others.                                  *)
RingOrder ==
    /\ \A i \in DOMAIN ring :
          runs[ring[i]] > 0 /\ since[ring[i]] = Len(ring) - i
    /\ \A c \in Ids : runs[c] > 0 /\ ~ Duplicate(c) => since[c] >= MaxRing

(* Stamps travel from a listing over a browser, a command and the marking   *)
(* thread to the file; each was rendered first.  A mark without a stamp may *)
(* take any time, for it is made when nothing was listed of the session.    *)
StampsRendered ==
    /\ \A s \in DOMAIN view : view[s] <= rendered[s]
    /\ \A c \in DOMAIN cmds : cmds[c].seen <= rendered[cmds[c].s]
    /\ inline.at \in {"reading", "writing"} =>
          LET s == cmds[inline.id].s
          IN  /\ inline.seen <= rendered[s]
              /\ inline.seen = 0 => rendered[s] = MaxTime
    /\ \A s \in Sessions : inline.data.marks[s] <= rendered[s]
    /\ \A s \in Sessions : file.marks[s] <= rendered[s]

(* The marks a user relies on are in the file, and a mark being made starts *)
(* from a copy that has them.                                               *)
AckedKept ==
    /\ \A s \in Sessions : acked[s] <= file.marks[s]
    /\ inline.at = "writing" =>
          inline.data.there /\ \A s \in Sessions : acked[s] <= inline.data.marks[s]
    /\ ~ file.there => file.marks = Unmarked
    /\ seeding.data.marks = Unmarked
    /\ seeding # NoSeed => seeding.data.there

IInv ==
    /\ TypeOK
    /\ Shapes
    /\ Counted
    /\ RingOrder
    /\ StampsRendered
    /\ AckedKept
    /\ ReadStaysRead

-----------------------------------------------------------------------------
(* The data: stamps, listings, files. *)

LEMMA StampFacts ==
    /\ MaxTime \in Nat \ {0} /\ 0 \in Stamps /\ MaxTime \in Stamps
    /\ \A n \in 1 .. MaxTime : n \in Stamps
    /\ \A a \in Stamps : a \in Nat /\ a <= MaxTime
    /\ \A a, b \in Stamps :
          Higher(a, b) \in Stamps /\ a <= Higher(a, b) /\ b <= Higher(a, b)
BY CommandsAssumption DEF Stamps, Higher

LEMMA FileFacts ==
    /\ Unmarked \in [Sessions -> Stamps]
    /\ \A s \in Sessions : Unmarked[s] = 0
    /\ NoFile \in File /\ NoFile.marks = Unmarked /\ ~ NoFile.there
    /\ \A n \in Stamps : /\ Seed(n) \in File /\ Seed(n).marks = Unmarked
                         /\ Seed(n).there
    /\ \A f \in File, n \in Stamps :
          LoadOrSeed(f, n) \in File /\ LoadOrSeed(f, n).there
<1>1. Unmarked \in [Sessions -> Stamps] /\ \A s \in Sessions : Unmarked[s] = 0
  BY StampFacts DEF Unmarked
<1>2. NoFile \in File /\ NoFile.marks = Unmarked /\ ~ NoFile.there
  BY <1>1, StampFacts DEF NoFile, File
<1>3. \A n \in Stamps : /\ Seed(n) \in File /\ Seed(n).marks = Unmarked
                       /\ Seed(n).there
  BY <1>1 DEF Seed, File
<1>4. \A f \in File, n \in Stamps :
          LoadOrSeed(f, n) \in File /\ LoadOrSeed(f, n).there
  BY <1>3 DEF LoadOrSeed, File
<1> QED
  BY <1>1, <1>2, <1>3, <1>4

(* The empty listing, and the listing of some sessions. *)
LEMMA ListingFacts ==
    /\ <<>> \in Listings
    /\ \A rows \in SUBSET Sessions : \A f \in [rows -> Stamps] : f \in Listings
    /\ \A f \in Listings : /\ DOMAIN f \subseteq Sessions
                           /\ \A s \in DOMAIN f : f[s] \in Stamps
<1>1. \A rows \in SUBSET Sessions : \A f \in [rows -> Stamps] : f \in Listings
  BY DEF Listings
<1>2. <<>> \in Listings
  <2>1. <<>> \in [{} -> Stamps]
    OBVIOUS
  <2> QED
    BY <1>1, <2>1
<1>3. \A f \in Listings : /\ DOMAIN f \subseteq Sessions
                         /\ \A s \in DOMAIN f : f[s] \in Stamps
  BY DEF Listings
<1> QED
  BY <1>1, <1>2, <1>3

(* A file that is written keeps every mark but an evicted one, and raises   *)
(* the one that was asked for.                                              *)
LEMMA MarkedFacts ==
    ASSUME NEW f \in File, NEW s \in Sessions, NEW seen \in Stamps,
           NEW n \in Stamps, NEW g \in Marked(f, s, seen, n)
    PROVE  /\ g \in File /\ g.there = f.there
           /\ \A x \in Sessions :
                 g.marks[x] = 0 \/ g.marks[x] = IF x = s THEN Higher(f.marks[s], Stamp(seen, n))
                                                      ELSE f.marks[x]
<1> DEFINE raised == [f.marks EXCEPT ![s] = Raised(@, Stamp(seen, n))]
<1>1. PICK marks \in Evicted(raised) : g = [f EXCEPT !.marks = marks]
  BY DEF Marked
<1>2. Stamp(seen, n) \in Stamps /\ f.marks \in [Sessions -> Stamps]
  BY DEF Stamp, File
<1>3. /\ raised \in [Sessions -> Stamps]
      /\ \A x \in Sessions : raised[x] = IF x = s THEN Higher(f.marks[s], Stamp(seen, n))
                                                 ELSE f.marks[x]
  BY <1>2, StampFacts DEF Raised
<1> HIDE DEF raised
<1>4. marks = raised \/ \E x \in Sessions : marks = [raised EXCEPT ![x] = 0]
  BY <1>1 DEF Evicted
<1>5. /\ marks \in [Sessions -> Stamps]
      /\ \A x \in Sessions : marks[x] = 0 \/ marks[x] = raised[x]
  BY <1>3, <1>4, StampFacts
<1>6. g \in File /\ g.there = f.there /\ g.marks = marks
  BY <1>1, <1>5 DEF File
<1> QED
  BY <1>3, <1>5, <1>6

(* A command that is asked for is a command, also where it needs no limit   *)
(* and no session.                                                          *)
LEMMA SomeFacts == Some(Sessions) \in Sessions /\ Some(Limits) \in Limits
BY CommandsAssumption DEF Some

-----------------------------------------------------------------------------
(* Parts of the invariant a step leaves alone. *)

LEMMA RingFrame ==
    ASSUME Counted, RingOrder, UNCHANGED <<ringVars, deliveries>>
    PROVE  Counted' /\ RingOrder'
BY DEF Counted, RingOrder, ringVars, Duplicate

LEMMA StampsFrame ==
    ASSUME StampsRendered, UNCHANGED <<view, rendered, cmds, inline, file>>
    PROVE  StampsRendered'
BY DEF StampsRendered

LEMMA AckedFrame ==
    ASSUME AckedKept, UNCHANGED <<acked, file, inline, seeding>>
    PROVE  AckedKept'
BY DEF AckedKept

(* What Shapes adds to the types covers what TypeOK says of the work. *)
LEMMA WorkTyped ==
    ASSUME Shapes'
    PROVE  /\ inline'.at \in {"none", "listing", "listed", "reading", "writing", "marked", "sending"}
           /\ inline'.listing \in Listings \cup {<<>>} /\ inline'.data \in File
           /\ inline'.seen \in Stamps
           /\ \A a \in Reads : task'[a].at \in {"none", "working", "worked", "sending", "done"}
           /\ seeding'.by \in {"nobody", "task", "inline"} /\ seeding'.data \in File
<1>1. /\ inline'.at \in {"none", "listing", "listed", "reading", "writing", "marked", "sending"}
      /\ inline'.listing \in Listings \cup {<<>>} /\ inline'.data \in File
      /\ inline'.seen \in Stamps
  BY DEF Shapes, InlineState
<1>2. \A a \in Reads : task'[a].at \in {"none", "working", "worked", "sending", "done"}
  BY DEF Shapes, TaskState
<1>3. seeding'.by \in {"nobody", "task", "inline"} /\ seeding'.data \in File
  BY DEF Shapes, SeedingState
<1> QED
  BY <1>1, <1>2, <1>3

LEMMA ShapesFrame ==
    ASSUME Shapes, UNCHANGED <<cmds, workVars>>
    PROVE  Shapes'
BY DEF Shapes, workVars

(* The work in progress when a process starts. *)
LEMMA QuietFacts ==
    /\ Quiet \in InlineState /\ Quiet.at = "none" /\ Quiet.data = NoFile
    /\ Answering \in InlineState /\ Answering.at = "sending" /\ Answering.data = NoFile
    /\ Idle \in TaskState
    /\ NoSeed \in SeedingState /\ NoSeed.data = NoFile
<1>1. Quiet \in InlineState /\ Quiet.at = "none" /\ Quiet.data = NoFile
  <2>1. 0 \in 0 .. MaxCmds
    BY CommandsAssumption
  <2> QED
    BY <2>1, ListingFacts, FileFacts, StampFacts DEF Quiet, InlineState
<1>2. Answering \in InlineState /\ Answering.at = "sending" /\ Answering.data = NoFile
  BY <1>1 DEF Answering, InlineState
<1>3. Idle \in TaskState
  BY ListingFacts DEF Idle, TaskState
<1>4. NoSeed \in SeedingState /\ NoSeed.data = NoFile
  BY FileFacts DEF NoSeed, SeedingState
<1> QED
  BY <1>1, <1>2, <1>3, <1>4

-----------------------------------------------------------------------------
(* The inductive invariant holds initially and every action keeps it. *)

LEMMA InitInv == Init => IInv
<1> SUFFICES ASSUME Init PROVE IInv
  OBVIOUS
<1>1. /\ 1 \in Stamps /\ 0 \in Stamps /\ 1 \in 1 .. MaxTime /\ 0 \in 0 .. MaxDeliveries
      /\ 0 \in 0 .. MaxCrashes /\ 0 <= MaxCmds /\ 0 <= MaxRing
  BY StampFacts, CommandsAssumption
<1>2. /\ updated \in [Sessions -> Stamps] /\ \A s \in Sessions : updated[s] = 1
      /\ view = updated /\ rendered = updated /\ view \in Listings
  BY <1>1, ListingFacts DEF Init
<1>3. /\ file \in File /\ file.marks = Unmarked
  BY <1>1, FileFacts DEF Init, File
<1>4. /\ cmds = <<>> /\ ring = <<>> /\ <<>> \in Seq(Cmd) /\ <<>> \in Seq(Ids)
      /\ Len(<<>>) = 0 /\ DOMAIN cmds = {} /\ DOMAIN ring = {}
  BY EmptySeq DEF Init
<1>5. Shapes
  BY QuietFacts DEF Init, Shapes
<1>6. TypeOK
  <2>1. /\ inline.at \in {"none", "listing", "listed", "reading", "writing", "marked", "sending"}
        /\ inline.listing \in Listings \cup {<<>>} /\ inline.data \in File
        /\ inline.seen \in Stamps
    BY <1>5 DEF Shapes, InlineState
  <2>2. \A a \in Reads : task[a].at \in {"none", "working", "worked", "sending", "done"}
    BY <1>5 DEF Shapes, TaskState
  <2>3. seeding.by \in {"nobody", "task", "inline"} /\ seeding.data \in File
    BY <1>5 DEF Shapes, SeedingState
  <2>4. /\ runs \in [Ids -> 0 .. MaxDeliveries] /\ since \in [Ids -> 0 .. MaxDeliveries]
        /\ waiting \in [Reads -> BOOLEAN] /\ acked \in [Sessions -> Stamps]
    BY <1>1, FileFacts DEF Init
  <2>5. /\ now \in 1 .. MaxTime /\ relit \subseteq Sessions
        /\ deliveries \in 0 .. MaxDeliveries /\ crashes \in 0 .. MaxCrashes
        /\ cache \in {"none", "empty", "full"}
    BY <1>1 DEF Init
  <2> QED
    BY <1>1, <1>2, <1>3, <1>4, <2>1, <2>2, <2>3, <2>4, <2>5 DEF TypeOK
<1>7. Counted /\ RingOrder
  BY <1>4 DEF Init, Counted, RingOrder
<1>8. StampsRendered
  BY <1>2, <1>3, <1>4, FileFacts, QuietFacts DEF Init, StampsRendered
<1>9. AckedKept /\ ReadStaysRead
  BY <1>3, FileFacts, QuietFacts DEF Init, AckedKept, ReadStaysRead
<1> QED
  BY <1>5, <1>6, <1>7, <1>8, <1>9 DEF IInv

LEMMA AgentAppendsInv ==
    ASSUME IInv, NEW s \in Sessions, AgentAppends(s)
    PROVE  IInv'
<1>1. /\ UNCHANGED <<browserVars, deliveries, ringVars, workVars, file, crashes,
                     waiting, acked>>
      /\ now' \in {now, now + 1} /\ now < MaxTime
      /\ updated' = [updated EXCEPT ![s] = now + 1]
  BY DEF AgentAppends
<1>2. Shapes'
  BY <1>1, ShapesFrame DEF IInv, browserVars
<1>3. TypeOK'
  <2>1. now \in 1 .. MaxTime /\ MaxTime \in Nat
    BY CommandsAssumption DEF IInv, TypeOK
  <2>2. now' \in 1 .. MaxTime
    BY <1>1, <2>1
  <2>3. now + 1 \in Stamps
    BY <1>1, <2>1 DEF Stamps
  <2>4. updated' \in [Sessions -> Stamps]
    BY <1>1, <2>3 DEF IInv, TypeOK
  <2> QED
    BY <1>1, <1>2, <2>2, <2>4, WorkTyped
    DEF IInv, TypeOK, browserVars, ringVars, workVars
<1>4. Counted' /\ RingOrder'
  BY <1>1, RingFrame DEF IInv
<1>5. StampsRendered' /\ AckedKept'
  BY <1>1, StampsFrame, AckedFrame DEF IInv, browserVars, workVars
<1>6. ReadStaysRead'
  BY <1>1 DEF IInv, ReadStaysRead, browserVars
<1> QED
  BY <1>2, <1>3, <1>4, <1>5, <1>6 DEF IInv

(* A command carries a stamp of the listing its browser shows, or none. *)
LEMMA IssueInv == ASSUME IInv, Issue PROVE IInv'
<1>1. /\ Len(cmds) < MaxCmds
      /\ UNCHANGED <<view, rendered, relit, clockVars, deliveries, ringVars, workVars,
                     file, crashes, waiting, acked>>
  BY DEF Issue
<1>2. /\ cmds \in Seq(Cmd) /\ view \in Listings /\ rendered \in [Sessions -> Stamps]
      /\ Len(cmds) \in Nat /\ DOMAIN cmds = 1 .. Len(cmds)
  BY LenProperties DEF IInv, TypeOK
<1>3. PICK c \in Cmd : cmds' = Append(cmds, c) /\ c.seen <= rendered[c.s]
  <2>1. CASE \E limit \in Limits, s \in DOMAIN view : \E seen \in {view[s], 0} :
                Asked("history.mark_read", limit, s, seen)
    <3>1. PICK limit \in Limits, s \in DOMAIN view :
              \E seen \in {view[s], 0} : Asked("history.mark_read", limit, s, seen)
      BY <2>1
    <3>2. PICK seen \in {view[s], 0} : Asked("history.mark_read", limit, s, seen)
      BY <3>1
    <3>3. s \in Sessions /\ seen \in Stamps /\ view[s] \in Stamps
      BY <1>2, ListingFacts, StampFacts
    <3>4. seen <= rendered[s]
      <4>1. view[s] <= rendered[s]
        BY DEF IInv, StampsRendered
      <4>2. rendered[s] \in Nat
        BY <1>2, <3>3, StampFacts
      <4> QED
        BY <4>1, <4>2
    <3> QED
      BY <3>2, <3>3, <3>4, CommandsAssumption DEF Asked, Cmd
  <2>2. CASE \/ \E limit \in Limits : Asked("history.list", limit, Some(Sessions), 0)
             \/ Asked("capabilities.get", Some(Limits), Some(Sessions), 0)
    <3>1. PICK action \in Reads, limit \in Limits : Asked(action, limit, Some(Sessions), 0)
      BY <2>2, SomeFacts DEF Reads
    <3>2. Some(Sessions) \in Sessions /\ 0 \in Stamps
      BY SomeFacts, StampFacts
    <3>3. 0 <= rendered[Some(Sessions)]
      <4>1. rendered[Some(Sessions)] \in Nat
        BY <1>2, <3>2, StampFacts
      <4> QED
        BY <4>1
    <3> QED
      BY <3>1, <3>2, <3>3, CommandsAssumption DEF Asked, Cmd
  <2> QED
    BY <2>1, <2>2 DEF Issue
<1>4. /\ cmds' \in Seq(Cmd) /\ Len(cmds') = Len(cmds) + 1 /\ Len(cmds') <= MaxCmds
      /\ DOMAIN cmds' = 1 .. Len(cmds) + 1
      /\ \A i \in DOMAIN cmds : i \in DOMAIN cmds' /\ cmds'[i] = cmds[i]
      /\ cmds'[Len(cmds) + 1] = c
  <2>1. /\ cmds' \in Seq(Cmd) /\ Len(cmds') = Len(cmds) + 1
        /\ \A i \in 1 .. Len(cmds) : cmds'[i] = cmds[i]
        /\ cmds'[Len(cmds) + 1] = c
    BY <1>2, <1>3, AppendProperties
  <2>2. DOMAIN cmds' = 1 .. Len(cmds')
    BY <2>1, LenProperties
  <2>3. Len(cmds) + 1 <= MaxCmds
    BY <1>1, <1>2, CommandsAssumption
  <2> QED
    BY <1>2, <2>1, <2>2, <2>3
<1>5. Shapes'
  BY <1>1, <1>4 DEF IInv, Shapes, workVars
<1>6. TypeOK'
  BY <1>1, <1>4, <1>5, WorkTyped DEF IInv, TypeOK, clockVars, ringVars, workVars
<1>7. Counted' /\ RingOrder'
  BY <1>1, RingFrame DEF IInv
<1>8. StampsRendered'
  <2>1. \A i \in DOMAIN cmds' : cmds'[i].seen <= rendered[cmds'[i].s]
    BY <1>2, <1>3, <1>4 DEF IInv, StampsRendered
  <2>2. inline.at \in {"reading", "writing"} => cmds'[inline.id] = cmds[inline.id]
    BY <1>4 DEF IInv, Shapes
  <2> QED
    BY <1>1, <2>1, <2>2 DEF IInv, StampsRendered, workVars
<1>9. AckedKept'
  BY <1>1, AckedFrame DEF IInv, workVars
<1>10. ReadStaysRead'
  BY <1>1 DEF IInv, ReadStaysRead
<1> QED
  BY <1>5, <1>6, <1>7, <1>8, <1>9, <1>10 DEF IInv

(* Recording an id moves every other one a place from its own. *)
LEMMA RecordRing ==
    ASSUME TypeOK, Counted, RingOrder, deliveries < MaxDeliveries,
           deliveries' = deliveries + 1,
           NEW c \in Ids, cmds[c].named, ~ Duplicate(c), Record(c)
    PROVE  /\ ring' \in Seq(Ids) /\ Len(ring') <= MaxRing
           /\ runs' \in [Ids -> 0 .. MaxDeliveries]
           /\ since' \in [Ids -> 0 .. MaxDeliveries]
           /\ Counted' /\ RingOrder'
<1> DEFINE longer == Append(ring, c)
<1>1. /\ ring \in Seq(Ids) /\ Len(ring) \in Nat /\ DOMAIN ring = 1 .. Len(ring)
      /\ Len(ring) <= MaxRing /\ MaxRing \in Nat \ {0}
      /\ deliveries \in Nat /\ MaxDeliveries \in Nat
      /\ runs \in [Ids -> 0 .. MaxDeliveries] /\ since \in [Ids -> 0 .. MaxDeliveries]
  BY LenProperties, CommandsAssumption DEF TypeOK
<1>2. /\ ring' = IF Len(longer) > MaxRing THEN Tail(longer) ELSE longer
      /\ runs' = [runs EXCEPT ![c] = @ + 1]
      /\ since' = [x \in Ids |-> IF x = c \/ runs[x] = 0 THEN 0 ELSE since[x] + 1]
  BY DEF Record, Trimmed
<1>3. /\ longer \in Seq(Ids) /\ Len(longer) = Len(ring) + 1
      /\ \A i \in 1 .. Len(ring) : longer[i] = ring[i]
      /\ longer[Len(ring) + 1] = c
  BY <1>1, AppendProperties
<1> HIDE DEF longer
<1>4. /\ \A x \in Ids : x # c => runs'[x] = runs[x]
      /\ runs'[c] = runs[c] + 1
      /\ \A x \in Ids : since'[x] = IF x = c \/ runs[x] = 0 THEN 0 ELSE since[x] + 1
  BY <1>1, <1>2
<1>5. \A x \in Ids : /\ runs[x] \in Nat /\ runs[x] <= deliveries
                     /\ since[x] \in Nat /\ since[x] <= deliveries
  BY <1>1 DEF Counted
<1>6. Counted'
  BY <1>1, <1>4, <1>5 DEF Counted
<1>7. \A x \in Ids : runs'[x] \in 0 .. MaxDeliveries /\ since'[x] \in 0 .. MaxDeliveries
  <2> SUFFICES ASSUME NEW x \in Ids
               PROVE  runs'[x] \in 0 .. MaxDeliveries /\ since'[x] \in 0 .. MaxDeliveries
    OBVIOUS
  <2>1. /\ runs[x] \in Nat /\ runs[x] <= deliveries /\ since[x] \in Nat /\ since[x] <= deliveries
        /\ deliveries \in Nat /\ MaxDeliveries \in Nat
    BY <1>1, <1>5
  <2>2. runs'[x] \in {runs[x], runs[x] + 1} /\ since'[x] \in {0, since[x] + 1}
    BY <1>4
  <2> QED
    BY <2>1, <2>2
<1>8. /\ runs' \in [Ids -> 0 .. MaxDeliveries] /\ since' \in [Ids -> 0 .. MaxDeliveries]
  <2>1. runs' = [x \in Ids |-> runs'[x]] /\ since' = [x \in Ids |-> since'[x]]
    BY <1>1, <1>2
  <2> QED
    BY <1>7, <2>1
<1>9. PICK k \in {0, 1} :
        /\ ring' \in Seq(Ids) /\ Len(ring') = Len(ring) + 1 - k /\ Len(ring') <= MaxRing
        /\ \A i \in 1 .. Len(ring') : ring'[i] = longer[i + k]
        /\ k = 1 => Len(ring) = MaxRing
  <2>1. CASE Len(longer) > MaxRing
    <3>1. longer # <<>>
      BY <1>1, <1>3, EmptySeq
    <3>2. /\ ring' \in Seq(Ids) /\ Len(ring') = Len(longer) - 1
          /\ \A i \in 1 .. Len(ring') : ring'[i] = longer[i + 1]
      BY <1>2, <1>3, <2>1, <3>1, HeadTailProperties
    <3>3. Len(ring) + 1 > MaxRing
      BY <1>3, <2>1
    <3>4. Len(ring) = MaxRing
      <4>1. Len(ring) \in Nat /\ MaxRing \in Nat /\ Len(ring) <= MaxRing
        BY <1>1
      <4> QED
        BY <3>3, <4>1
    <3>5. Len(ring') = Len(ring) + 1 - 1
      BY <1>3, <3>2
    <3>6. Len(ring') <= MaxRing
      <4>1. Len(ring) \in Nat
        BY <1>1
      <4> QED
        BY <3>4, <3>5, <4>1
    <3>7. /\ ring' \in Seq(Ids) /\ Len(ring') = Len(ring) + 1 - 1 /\ Len(ring') <= MaxRing
          /\ \A i \in 1 .. Len(ring') : ring'[i] = longer[i + 1]
          /\ 1 = 1 => Len(ring) = MaxRing
      BY <3>2, <3>4, <3>5, <3>6
    <3> QED
      BY <3>7
  <2>2. CASE ~ (Len(longer) > MaxRing)
    <3>1. ring' = longer
      BY <1>2, <2>2
    <3>2. \A i \in 1 .. Len(ring') : i + 0 = i
      BY <1>1, <1>3, <3>1
    <3>3. Len(ring') = Len(ring) + 1 - 0 /\ Len(ring') <= MaxRing
      BY <1>1, <1>3, <2>2, <3>1
    <3>4. /\ ring' \in Seq(Ids) /\ Len(ring') = Len(ring) + 1 - 0 /\ Len(ring') <= MaxRing
          /\ \A i \in 1 .. Len(ring') : ring'[i] = longer[i + 0]
          /\ 0 = 1 => Len(ring) = MaxRing
      BY <1>3, <3>1, <3>2, <3>3
    <3> QED
      BY <3>4
  <2> QED
    BY <2>1, <2>2
<1>10. /\ DOMAIN ring' = 1 .. Len(ring') /\ Len(ring') \in Nat /\ k \in Nat
       /\ k = 0 \/ k = 1
       /\ Len(ring') = Len(ring) + 1 - k
  BY <1>9, LenProperties
<1>11. ASSUME NEW i \in DOMAIN ring'
       PROVE  runs'[ring'[i]] > 0 /\ since'[ring'[i]] = Len(ring') - i
  <2>1. /\ i \in Nat /\ 1 <= i /\ i <= Len(ring') /\ Len(ring) \in Nat
        /\ i + k \in 1 .. Len(ring) + 1
    BY <1>1, <1>10
  <2>2. CASE i + k \in 1 .. Len(ring)
    <3>1. ring'[i] = longer[i + k]
      BY <1>9, <1>10
    <3>2. ring'[i] = ring[i + k] /\ ring[i + k] # c /\ ring[i + k] \in Ids
      BY <1>1, <1>3, <2>2, <3>1, ElementOfSeq DEF Duplicate
    <3>3. runs[ring[i + k]] > 0 /\ since[ring[i + k]] = Len(ring) - (i + k)
      BY <1>1, <2>2 DEF RingOrder
    <3>4. runs'[ring'[i]] > 0
      BY <1>4, <3>2, <3>3
    <3>5. since'[ring'[i]] = Len(ring) - (i + k) + 1
      BY <1>4, <1>5, <3>2, <3>3
    <3> QED
      BY <1>10, <2>1, <3>4, <3>5
  <2>3. CASE i + k = Len(ring) + 1
    <3>1. ring'[i] = longer[i + k]
      BY <1>9, <1>10
    <3>2. ring'[i] = c
      BY <1>3, <2>3, <3>1
    <3>3. Len(ring') - i = 0
      BY <1>10, <2>1, <2>3
    <3> QED
      BY <1>4, <1>5, <3>2, <3>3
  <2> QED
    BY <1>1, <2>1, <2>2, <2>3
<1>12. ASSUME NEW x \in Ids, runs'[x] > 0, ~ \E i \in DOMAIN ring' : ring'[i] = x
       PROVE  since'[x] >= MaxRing
  <2>1. x # c
    <3>1. Len(ring') \in DOMAIN ring' /\ Len(ring') + k = Len(ring) + 1
      <4>1. Len(ring') >= 1
        <5>1. k = 1 => Len(ring) >= 1
          BY <1>1, <1>9
        <5> QED
          BY <1>1, <1>10, <5>1
      <4> QED
        BY <1>1, <1>10, <4>1
    <3>2. ring'[Len(ring')] = c
      BY <1>3, <1>9, <1>10, <3>1
    <3> QED
      BY <1>12, <3>1, <3>2
  <2>2. since'[x] = since[x] + 1 /\ runs[x] > 0
    BY <1>4, <1>5, <1>12, <2>1
  <2>3. CASE Duplicate(x)
    <3>1. PICK i \in 1 .. Len(ring) : ring[i] = x
      BY <1>1, <2>3 DEF Duplicate
    <3>2. i = 1 /\ k = 1
      <4>1. ASSUME i - k \in DOMAIN ring' PROVE FALSE
        <5>1. (i - k) + k = i
          BY <1>9
        <5>2. ring'[i - k] = longer[i]
          BY <1>9, <1>10, <4>1, <5>1
        <5> QED
          BY <1>3, <1>12, <3>1, <4>1, <5>2
      <4>2. i \in Nat /\ 1 <= i /\ i <= Len(ring) /\ Len(ring) \in Nat
        BY <1>1
      <4>3. ~ (1 <= i - k /\ i - k <= Len(ring'))
        BY <1>10, <4>1, <4>2
      <4> QED
        BY <1>10, <4>2, <4>3
    <3>3. since[x] = Len(ring) - 1
      BY <1>1, <3>1, <3>2 DEF RingOrder
    <3> QED
      BY <1>1, <1>9, <2>2, <3>2, <3>3
  <2>4. CASE ~ Duplicate(x)
    <3>1. since[x] >= MaxRing
      BY <2>2, <2>4 DEF RingOrder
    <3> QED
      BY <1>1, <1>5, <2>2, <3>1
  <2> QED
    BY <2>3, <2>4
<1>13. RingOrder'
  BY <1>11, <1>12 DEF RingOrder, Duplicate
<1> QED
  BY <1>6, <1>8, <1>9, <1>13

(* A delivery runs the command only if its id is not in the ring. *)
LEMMA DeliverInv ==
    ASSUME IInv, NEW c \in Ids, Deliver(c)
    PROVE  IInv'
<1>1. /\ c \in DOMAIN cmds /\ deliveries < MaxDeliveries /\ deliveries' = deliveries + 1
      /\ inline.at = "none"
      /\ UNCHANGED <<clockVars, browserVars, cache, seeding, file, crashes, acked>>
  <2>1. deliveries \in Nat /\ crashes \in Nat /\ MaxDeliveries \in Nat
    BY CommandsAssumption DEF IInv, TypeOK
  <2> QED
    BY <2>1 DEF Deliver, Receiving
<1>2. /\ cmds \in Seq(Cmd) /\ cmds[c] \in Cmd /\ c \in 0 .. MaxCmds
      /\ task \in [Reads -> TaskState]
  <2>1. cmds \in Seq(Cmd) /\ task \in [Reads -> TaskState]
    BY DEF IInv, TypeOK, Shapes
  <2>2. cmds[c] \in Cmd
    BY <1>1, <2>1, LenProperties, ElementOfSeq
  <2> QED
    BY <2>1, <2>2, CommandsAssumption DEF Ids
<1>3. deliveries \in Nat /\ MaxDeliveries \in Nat /\ deliveries' \in 0 .. MaxDeliveries
  BY <1>1, CommandsAssumption DEF IInv, TypeOK
<1>4. /\ ring' \in Seq(Ids) /\ Len(ring') <= MaxRing
      /\ runs' \in [Ids -> 0 .. MaxDeliveries]
      /\ since' \in [Ids -> 0 .. MaxDeliveries]
      /\ Counted' /\ RingOrder'
  <2>1. CASE UNCHANGED ringVars
    <3>1. ring' = ring /\ runs' = runs /\ since' = since
      BY <2>1 DEF ringVars
    <3>2. /\ ring' \in Seq(Ids) /\ Len(ring') <= MaxRing
          /\ runs' \in [Ids -> 0 .. MaxDeliveries]
          /\ since' \in [Ids -> 0 .. MaxDeliveries]
      BY <3>1 DEF IInv, TypeOK
    <3>3. Counted'
      <4> SUFFICES ASSUME NEW x \in Ids
                   PROVE  runs[x] <= deliveries + 1 /\ since[x] <= deliveries + 1
        BY <1>1, <3>1 DEF Counted
      <4>1. runs[x] \in Nat /\ since[x] \in Nat
        BY DEF IInv, TypeOK
      <4>2. runs[x] <= deliveries /\ since[x] <= deliveries
        BY DEF IInv, Counted
      <4> QED
        BY <1>3, <4>1, <4>2
    <3>4. RingOrder'
      BY <3>1 DEF IInv, RingOrder, Duplicate
    <3> QED
      BY <3>2, <3>3, <3>4
  <2>2. CASE cmds[c].named /\ ~ Duplicate(c) /\ Record(c)
    BY <1>1, <2>2, RecordRing DEF IInv
  <2> QED
    BY <2>1, <2>2 DEF Deliver, Record
<1>5. \/ inline' = inline
      \/ inline' = [Quiet EXCEPT !.at = "listing", !.id = c]
  BY DEF Deliver
<1>6. inline' \in InlineState /\ (inline'.at \notin {"none", "sending"} => inline'.id = c)
  <2>1. CASE inline' = inline
    BY <1>1, <2>1 DEF IInv, Shapes
  <2>2. CASE inline' = [Quiet EXCEPT !.at = "listing", !.id = c]
    BY <1>2, <2>2, QuietFacts DEF InlineState
  <2> QED
    BY <1>5, <2>1, <2>2
<1>7. /\ inline'.data = inline.data \/ inline'.data = NoFile
      /\ inline'.at \notin {"reading", "writing"}
  BY <1>1, <1>5, QuietFacts DEF Quiet
<1>8. task' \in [Reads -> TaskState] /\ waiting' \in [Reads -> BOOLEAN]
  <2>1. CASE UNCHANGED <<task, waiting>>
    BY <1>2, <2>1 DEF IInv, TypeOK
  <2>2. CASE BeginRead(cmds[c].action, cmds[c].limit)
    <3>1. [at |-> "working", limit |-> cmds[c].limit, listing |-> <<>>] \in TaskState
      BY <1>2, ListingFacts DEF Cmd, TaskState
    <3>2. task' \in [Reads -> TaskState]
      BY <1>2, <2>2, <3>1 DEF BeginRead
    <3>3. waiting' \in [Reads -> BOOLEAN]
      BY <2>2 DEF BeginRead, IInv, TypeOK
    <3> QED
      BY <3>2, <3>3
  <2> QED
    BY <2>1, <2>2 DEF Deliver
<1>9. Shapes'
  BY <1>1, <1>6, <1>8 DEF IInv, Shapes, browserVars
<1>10. TypeOK'
  BY <1>1, <1>3, <1>4, <1>8, <1>9, WorkTyped DEF IInv, TypeOK, clockVars, browserVars
<1>11. StampsRendered'
  <2>1. \A s \in Sessions : rendered[s] \in Nat /\ NoFile.marks[s] = 0
    BY FileFacts, StampFacts DEF IInv, TypeOK
  <2>2. \A s \in Sessions : inline'.data.marks[s] <= rendered[s]
    BY <1>7, <2>1 DEF IInv, StampsRendered
  <2> QED
    BY <1>1, <1>7, <2>2 DEF IInv, StampsRendered, browserVars
<1>12. AckedKept'
  BY <1>1, <1>7 DEF IInv, AckedKept
<1>13. ReadStaysRead'
  BY <1>1 DEF IInv, ReadStaysRead, browserVars
<1> QED
  BY <1>4, <1>9, <1>10, <1>11, <1>12, <1>13 DEF IInv

(* A step of the tasks and threads that sets no mark in motion. *)
LEMMA WorkStep ==
    ASSUME IInv, inline' \in InlineState,
           inline'.at \notin {"none", "sending"} =>
               inline.at \notin {"none", "sending"} /\ inline'.id = inline.id,
           inline'.at \in {"reading", "writing"} => inline' = inline,
           inline'.data = inline.data \/ inline'.data = NoFile,
           task' \in [Reads -> TaskState], waiting' \in [Reads -> BOOLEAN],
           cache' \in {"none", "empty", "full"},
           UNCHANGED <<clockVars, browserVars, deliveries, ringVars, seeding, file,
                       crashes, acked>>
    PROVE  IInv'
<1>1. Shapes'
  BY DEF IInv, Shapes, browserVars
<1>2. TypeOK'
  BY <1>1, WorkTyped DEF IInv, TypeOK, clockVars, browserVars, ringVars
<1>3. Counted' /\ RingOrder'
  BY RingFrame DEF IInv
<1>4. StampsRendered'
  <2>1. \A s \in Sessions : rendered[s] \in Nat /\ NoFile.marks[s] = 0
    BY FileFacts, StampFacts DEF IInv, TypeOK
  <2>2. \A s \in Sessions : inline'.data.marks[s] <= rendered[s]
    BY <2>1 DEF IInv, StampsRendered
  <2> QED
    BY <2>2 DEF IInv, StampsRendered, browserVars
<1>5. AckedKept'
  BY DEF IInv, AckedKept
<1>6. ReadStaysRead'
  BY DEF IInv, ReadStaysRead, browserVars
<1> QED
  BY <1>1, <1>2, <1>3, <1>4, <1>5, <1>6 DEF IInv

(* What list_sessions returns is a listing. *)
LEMMA ListedFacts ==
    ASSUME TypeOK, NEW limit, NEW rows \in Newest(limit)
    PROVE  [s \in rows |-> updated[s]] \in Listings
<1>1. rows \in SUBSET Sessions /\ updated \in [Sessions -> Stamps]
  BY DEF Newest, TypeOK
<1>2. [s \in rows |-> updated[s]] \in [rows -> Stamps]
  BY <1>1
<1> QED
  BY <1>1, <1>2, ListingFacts

LEMMA ListingInv ==
    ASSUME IInv, TaskLists \/ MarkLists \/ ReadFails
    PROVE  IInv'
<1>1. /\ inline \in InlineState /\ task \in [Reads -> TaskState]
      /\ waiting \in [Reads -> BOOLEAN] /\ cache \in {"none", "empty", "full"}
      /\ "history.list" \in Reads
  BY DEF IInv, Shapes, TypeOK, Reads
<1>2. CASE TaskLists
  <2>1. PICK rows \in Newest(task["history.list"].limit) :
            task' = [task EXCEPT !["history.list"].at = "worked",
                                 !["history.list"].listing = [s \in rows |-> updated[s]]]
    BY <1>2 DEF TaskLists
  <2>2. [s \in rows |-> updated[s]] \in Listings
    BY ListedFacts DEF IInv
  <2>3. task' \in [Reads -> TaskState]
    BY <1>1, <2>1, <2>2 DEF TaskState
  <2> QED
    BY <1>1, <1>2, <2>3, WorkStep DEF TaskLists
<1>3. CASE MarkLists
  <2>1. PICK rows \in Newest(cmds[inline.id].limit) :
            inline' = [inline EXCEPT !.at = "listed",
                                     !.listing = [s \in rows |-> updated[s]]]
    BY <1>3 DEF MarkLists
  <2>2. [s \in rows |-> updated[s]] \in Listings
    BY ListedFacts DEF IInv
  <2>3. /\ inline' \in InlineState /\ inline'.at = "listed"
        /\ inline'.id = inline.id /\ inline'.data = inline.data
    BY <1>1, <2>1, <2>2 DEF InlineState
  <2>4. /\ inline.at = "listing"
        /\ UNCHANGED <<clockVars, browserVars, deliveries, ringVars, task, cache,
                       seeding, file, crashes, waiting, acked>>
    BY <1>3 DEF MarkLists
  <2> QED
    BY <1>1, <2>3, <2>4, WorkStep
<1>4. CASE ReadFails
  <2>1. UNCHANGED <<clockVars, browserVars, deliveries, ringVars, cache, seeding, file,
                    crashes, acked>>
    BY <1>4 DEF ReadFails
  <2>2. ASSUME NEW a \in Reads,
               task' = [task EXCEPT ![a].at = "sending", ![a].listing = <<>>],
               waiting' = [waiting EXCEPT ![a] = FALSE], UNCHANGED inline
        PROVE  IInv'
    <3>1. task' \in [Reads -> TaskState] /\ waiting' \in [Reads -> BOOLEAN]
      BY <1>1, <2>2, ListingFacts DEF TaskState
    <3> QED
      BY <1>1, <2>1, <2>2, <3>1, WorkStep
  <2>3. CASE inline' = Answering /\ UNCHANGED <<task, waiting>>
    BY <1>1, <2>1, <2>3, QuietFacts, WorkStep
  <2> QED
    BY <1>4, <2>2, <2>3 DEF ReadFails
<1> QED
  BY <1>2, <1>3, <1>4

LEMMA OtherWorkInv ==
    ASSUME IInv, MarkFails \/ Probed \/ CapabilitiesSent \/ MarkSent
    PROVE  IInv'
<1>1. /\ inline \in InlineState /\ task \in [Reads -> TaskState]
      /\ waiting \in [Reads -> BOOLEAN] /\ cache \in {"none", "empty", "full"}
      /\ "capabilities.get" \in Reads
  BY DEF IInv, Shapes, TypeOK, Reads
<1>2. CASE MarkFails
  <2>1. /\ inline' = [inline EXCEPT !.at = "marked", !.data = NoFile, !.seen = 0]
        /\ inline.at \in {"reading", "writing"}
        /\ UNCHANGED <<clockVars, browserVars, deliveries, ringVars, task, cache, seeding,
                       file, crashes, waiting, acked>>
    BY <1>2 DEF MarkFails
  <2>2. /\ inline' \in InlineState /\ inline'.at = "marked"
        /\ inline'.id = inline.id /\ inline'.data = NoFile
    BY <1>1, <2>1, FileFacts, StampFacts DEF InlineState
  <2> QED
    BY <1>1, <2>1, <2>2, WorkStep
<1>3. CASE Probed
  <2>1. /\ task' = [task EXCEPT !["capabilities.get"].at = "worked"]
        /\ cache' \in {"none", "empty", "full"}
        /\ UNCHANGED <<clockVars, browserVars, deliveries, ringVars, inline, seeding, file,
                       crashes, waiting, acked>>
    BY <1>1, <1>3 DEF Probed
  <2>2. task' \in [Reads -> TaskState]
    BY <1>1, <2>1 DEF TaskState
  <2> QED
    BY <1>1, <2>1, <2>2, WorkStep
<1>4. CASE CapabilitiesSent
  <2>1. /\ task' = [task EXCEPT !["capabilities.get"].at = "sending"]
        /\ waiting' = [waiting EXCEPT !["capabilities.get"] = FALSE]
        /\ UNCHANGED <<clockVars, browserVars, deliveries, ringVars, inline, cache, seeding,
                       file, crashes, acked>>
    BY <1>4 DEF CapabilitiesSent
  <2>2. task' \in [Reads -> TaskState]
    BY <1>1, <2>1 DEF TaskState
  <2>3. waiting' \in [Reads -> BOOLEAN]
    BY <1>1, <2>1
  <2> QED
    BY <1>1, <2>1, <2>2, <2>3, WorkStep
<1>5. CASE MarkSent
  <2>1. /\ inline' = Quiet
        /\ UNCHANGED <<clockVars, browserVars, deliveries, ringVars, task, cache, seeding,
                       file, crashes, waiting, acked>>
    BY <1>5 DEF MarkSent
  <2> QED
    BY <1>1, <2>1, QuietFacts, WorkStep
<1> QED
  BY <1>2, <1>3, <1>4, <1>5

LEMMA TaskSentInv ==
    ASSUME IInv, NEW a \in Reads, TaskSent(a)
    PROVE  IInv'
<1>1. /\ inline \in InlineState /\ task \in [Reads -> TaskState]
      /\ waiting \in [Reads -> BOOLEAN] /\ cache \in {"none", "empty", "full"}
  BY DEF IInv, Shapes, TypeOK
<1>2. /\ task' = [task EXCEPT ![a].at = "done"]
      /\ UNCHANGED <<clockVars, browserVars, deliveries, ringVars, inline, cache, seeding,
                     file, crashes, waiting, acked>>
  BY DEF TaskSent
<1>3. task' \in [Reads -> TaskState]
  BY <1>1, <1>2 DEF TaskState
<1> QED
  BY <1>1, <1>2, <1>3, WorkStep

(* What is rendered only grows, so what was covered stays covered. *)
LEMMA RenderedRises ==
    ASSUME TypeOK, StampsRendered, rendered' \in [Sessions -> Stamps],
           \A s \in Sessions : rendered[s] <= rendered'[s]
    PROVE  /\ \A s \in DOMAIN view : view[s] <= rendered'[s]
           /\ \A c \in DOMAIN cmds : cmds[c].seen <= rendered'[cmds[c].s]
           /\ \A s \in Sessions : /\ inline.data.marks[s] <= rendered'[s]
                                  /\ file.marks[s] <= rendered'[s]
<1>1. \A s \in Sessions : \A n \in Stamps : n <= rendered[s] => n <= rendered'[s]
  <2> SUFFICES ASSUME NEW s \in Sessions, NEW n \in Stamps, n <= rendered[s]
               PROVE  n <= rendered'[s]
    OBVIOUS
  <2>1. rendered[s] \in Stamps /\ rendered'[s] \in Stamps
    BY DEF TypeOK
  <2>2. n \in Nat /\ rendered[s] \in Nat /\ rendered'[s] \in Nat
    BY <2>1, StampFacts
  <2> QED
    BY <2>2
<1>2. \A s \in DOMAIN view : view[s] <= rendered'[s]
  BY <1>1, ListingFacts DEF TypeOK, StampsRendered
<1>3. \A c \in DOMAIN cmds : cmds[c].seen <= rendered'[cmds[c].s]
  <2>1. \A c \in DOMAIN cmds : cmds[c] \in Cmd
    BY LenProperties, ElementOfSeq DEF TypeOK
  <2> QED
    BY <1>1, <2>1 DEF Cmd, StampsRendered
<1>4. \A s \in Sessions : /\ inline.data.marks[s] <= rendered'[s]
                          /\ file.marks[s] <= rendered'[s]
  <2>1. \A s \in Sessions : inline.data.marks[s] \in Stamps /\ file.marks[s] \in Stamps
    BY DEF TypeOK, File
  <2> QED
    BY <1>1, <2>1 DEF StampsRendered
<1> QED
  BY <1>2, <1>3, <1>4

(* Raising what is rendered of a session by a stamp. *)
LEMMA RaiseFacts ==
    ASSUME NEW a \in Stamps, NEW b \in Stamps
    PROVE  a \in Nat /\ a <= a /\ a <= MaxTime /\ Higher(a, b) \in Stamps
           /\ Higher(a, b) \in Nat /\ a <= Higher(a, b) /\ b <= Higher(a, b)
           /\ Higher(a, b) <= MaxTime
BY CommandsAssumption DEF Stamps, Higher

(* The stamp a mark will have is one that was shown, or that was listed for *)
(* the mark; if there is none the mark may take any time.                   *)
LEMMA MarkBeginsInv == ASSUME IInv, MarkBegins PROVE IInv'
<1> DEFINE c      == cmds[inline.id]
           listed == IF c.s \in DOMAIN inline.listing THEN inline.listing[c.s] ELSE 0
<1>1. /\ inline.at = "listed"
      /\ inline' = [inline EXCEPT !.at = "reading",
                                  !.seen = IF c.seen # 0 THEN c.seen ELSE listed]
      /\ rendered' = IF c.seen # 0 THEN rendered
                     ELSE [rendered EXCEPT ![c.s] =
                              Higher(@, IF listed # 0 THEN listed ELSE MaxTime)]
      /\ UNCHANGED <<clockVars, view, relit, cmds, deliveries, ringVars, task, cache, seeding,
                     file, crashes, waiting, acked>>
  BY DEF MarkBegins
<1>2. c \in Cmd /\ c.s \in Sessions /\ c.seen \in Stamps /\ c.seen <= rendered[c.s]
  <2>1. inline.id \in DOMAIN cmds /\ cmds \in Seq(Cmd)
    BY <1>1 DEF IInv, Shapes, TypeOK
  <2>2. c \in Cmd
    BY <2>1, LenProperties, ElementOfSeq
  <2> QED
    BY <2>1, <2>2 DEF Cmd, IInv, StampsRendered
<1>3. inline \in InlineState /\ rendered \in [Sessions -> Stamps]
  BY DEF IInv, Shapes, TypeOK
<1>4. listed \in Stamps
  BY <1>3, ListingFacts, StampFacts DEF InlineState
<1> HIDE DEF c, listed
<1>5. /\ inline' \in InlineState /\ inline'.at = "reading" /\ inline'.id = inline.id
      /\ inline'.data = inline.data
      /\ inline'.seen = IF c.seen # 0 THEN c.seen ELSE listed
  BY <1>1, <1>2, <1>3, <1>4 DEF InlineState
<1>6. /\ rendered' \in [Sessions -> Stamps]
      /\ \A s \in Sessions : rendered[s] <= rendered'[s]
      /\ inline'.seen <= rendered'[c.s]
      /\ inline'.seen = 0 => rendered'[c.s] = MaxTime
  <2>1. CASE c.seen # 0
    <3>1. rendered' = rendered /\ inline'.seen = c.seen
      BY <1>1, <1>5, <2>1
    <3>2. \A s \in Sessions : rendered[s] <= rendered[s]
      BY <1>3, RaiseFacts
    <3> QED
      BY <1>2, <1>3, <2>1, <3>1, <3>2
  <2>2. CASE c.seen = 0
    <3> DEFINE shown == IF listed # 0 THEN listed ELSE MaxTime
    <3>1. shown \in Stamps /\ inline'.seen = listed
      BY <1>4, <1>5, <2>2, StampFacts
    <3>2. rendered' = [rendered EXCEPT ![c.s] = Higher(@, shown)]
      BY <1>1, <2>2
    <3> HIDE DEF shown
    <3>3. /\ rendered' \in [Sessions -> Stamps]
          /\ \A s \in Sessions : rendered[s] <= rendered'[s]
      <4>1. \A s \in Sessions : rendered[s] \in Stamps /\ rendered[s] <= rendered[s]
        BY <1>3, RaiseFacts
      <4>2. Higher(rendered[c.s], shown) \in Stamps
            /\ rendered[c.s] <= Higher(rendered[c.s], shown)
        BY <1>2, <1>3, <3>1, StampFacts
      <4> QED
        BY <1>2, <1>3, <3>2, <4>1, <4>2
    <3>4. rendered'[c.s] = Higher(rendered[c.s], shown) /\ rendered[c.s] \in Stamps
      BY <1>2, <1>3, <3>2
    <3>5. shown <= rendered'[c.s] /\ rendered'[c.s] <= MaxTime
      BY <1>2, <3>1, <3>3, <3>4, StampFacts
    <3>6. CASE listed # 0
      BY <3>1, <3>3, <3>5, <3>6 DEF shown
    <3>7. CASE listed = 0
      <4>1. rendered'[c.s] \in Nat /\ MaxTime \in Nat
        BY <1>2, <3>3, StampFacts
      <4>2. MaxTime <= rendered'[c.s]
        BY <3>5, <3>7 DEF shown
      <4>3. rendered'[c.s] = MaxTime
        BY <3>5, <4>1, <4>2
      <4> QED
        BY <3>1, <3>3, <3>7, <4>1, <4>3
    <3> QED
      BY <3>6, <3>7
  <2> QED
    BY <2>1, <2>2
<1>7. Shapes'
  BY <1>1, <1>5 DEF IInv, Shapes
<1>8. TypeOK'
  BY <1>1, <1>6, <1>7, WorkTyped DEF IInv, TypeOK, clockVars, ringVars
<1>9. Counted' /\ RingOrder'
  BY <1>1, RingFrame DEF IInv
<1>10. StampsRendered'
  BY <1>1, <1>5, <1>6, RenderedRises DEF IInv, StampsRendered, c
<1>11. AckedKept' /\ ReadStaysRead'
  BY <1>1, <1>5 DEF IInv, AckedKept, ReadStaysRead
<1> QED
  BY <1>7, <1>8, <1>9, <1>10, <1>11 DEF IInv

(* mark() copies the file as it is, or seeds a missing one: nothing relied   *)
(* on is missing from the copy, for a missing file has no mark.              *)
LEMMA MarkReadsInv == ASSUME IInv, MarkReads PROVE IInv'
<1> DEFINE loaded == LoadOrSeed(file, now)
<1>1. /\ inline.at = "reading"
      /\ inline' = [inline EXCEPT !.at = "writing", !.data = loaded]
      /\ file' = loaded \/ file' = file
      /\ UNCHANGED <<clockVars, browserVars, deliveries, ringVars, task, cache, seeding,
                     crashes, waiting, acked>>
  BY DEF MarkReads
<1>2. /\ file \in File /\ now \in Stamps /\ inline \in InlineState
      /\ \A s \in Sessions : acked[s] <= file.marks[s] /\ file.marks[s] <= rendered[s]
      /\ ~ file.there => file.marks = Unmarked
  BY StampFacts DEF IInv, TypeOK, Shapes, AckedKept, StampsRendered
<1>3. /\ loaded \in File /\ loaded.there
      /\ loaded = file \/ (~ file.there /\ loaded.marks = Unmarked)
  <2>1. loaded \in File /\ loaded.there
    BY <1>2, FileFacts
  <2>2. ~ file.there => loaded.marks = Unmarked
    BY <1>2, FileFacts DEF LoadOrSeed
  <2>3. file.there => loaded = file
    BY DEF LoadOrSeed
  <2> QED
    BY <2>1, <2>2, <2>3
<1> HIDE DEF loaded
<1>4. \A s \in Sessions : acked[s] <= loaded.marks[s] /\ loaded.marks[s] <= rendered[s]
  BY <1>2, <1>3
<1>5. /\ inline' \in InlineState /\ inline'.at = "writing" /\ inline'.id = inline.id
      /\ inline'.data = loaded /\ inline'.seen = inline.seen
  BY <1>1, <1>2, <1>3 DEF InlineState
<1>6. /\ file' \in File
      /\ \A s \in Sessions : acked[s] <= file'.marks[s] /\ file'.marks[s] <= rendered[s]
      /\ ~ file'.there => file'.marks = Unmarked
  BY <1>1, <1>2, <1>3, <1>4
<1>7. Shapes'
  BY <1>1, <1>5 DEF IInv, Shapes, browserVars
<1>8. TypeOK'
  BY <1>1, <1>6, <1>7, WorkTyped DEF IInv, TypeOK, clockVars, browserVars, ringVars
<1>9. Counted' /\ RingOrder'
  BY <1>1, RingFrame DEF IInv
<1>10. StampsRendered'
  BY <1>1, <1>4, <1>5, <1>6 DEF IInv, StampsRendered, browserVars
<1>11. AckedKept'
  BY <1>1, <1>3, <1>4, <1>5, <1>6 DEF IInv, AckedKept
<1>12. ReadStaysRead'
  BY <1>1 DEF IInv, ReadStaysRead, browserVars
<1> QED
  BY <1>7, <1>8, <1>9, <1>10, <1>11, <1>12 DEF IInv

(* mark() replaces the file by its copy and the mark.  What it drops, an     *)
(* evicted mark, is relied on no more; the rest it has, and the new mark is  *)
(* a stamp that was rendered.                                                *)
LEMMA MarkWritesInv == ASSUME IInv, MarkWrites PROVE IInv'
<1> DEFINE s     == cmds[inline.id].s
           stamp == Stamp(inline.seen, now)
<1>1. inline.at = "writing"
  BY DEF MarkWrites
<1>2. PICK f \in Marked(inline.data, s, inline.seen, now) :
        /\ file' = f
        /\ acked' = [x \in Sessions |->
                        IF f.marks[x] = 0 THEN 0
                        ELSE IF x = s THEN Higher(acked[s], stamp)
                        ELSE acked[x]]
  <2>1. PICK f \in Marked(inline.data, s, inline.seen, now) :
          /\ file' = f
          /\ acked' = [x \in Sessions |->
                          IF f.marks[x] = 0 THEN 0
                          ELSE IF x = s THEN Higher(acked[x], stamp)
                          ELSE acked[x]]
    BY DEF MarkWrites
  <2>2. [x \in Sessions |-> IF f.marks[x] = 0 THEN 0
                            ELSE IF x = s THEN Higher(acked[x], stamp) ELSE acked[x]]
        = [x \in Sessions |-> IF f.marks[x] = 0 THEN 0
                              ELSE IF x = s THEN Higher(acked[s], stamp) ELSE acked[x]]
    OBVIOUS
  <2> QED
    BY <2>1, <2>2
<1>3. /\ inline' = [inline EXCEPT !.at = "marked", !.data = NoFile, !.seen = 0]
      /\ UNCHANGED <<clockVars, browserVars, deliveries, ringVars, task, cache, seeding,
                     crashes, waiting>>
  BY DEF MarkWrites
<1>4. /\ s \in Sessions /\ inline \in InlineState /\ inline.data \in File
      /\ inline.seen \in Stamps /\ now \in Stamps
      /\ acked \in [Sessions -> Stamps] /\ rendered \in [Sessions -> Stamps]
  <2>1. inline.id \in DOMAIN cmds /\ cmds \in Seq(Cmd)
    BY <1>1 DEF IInv, Shapes, TypeOK
  <2>2. cmds[inline.id] \in Cmd
    BY <2>1, LenProperties, ElementOfSeq
  <2>3. inline \in InlineState /\ now \in Stamps
    BY StampFacts DEF IInv, Shapes, TypeOK
  <2> QED
    BY <2>2, <2>3 DEF Cmd, IInv, TypeOK, InlineState
<1>5. stamp \in Stamps /\ stamp <= rendered[s]
  <2>1. inline.seen <= rendered[s] /\ (inline.seen = 0 => rendered[s] = MaxTime)
    BY <1>1 DEF IInv, StampsRendered
  <2>2. now <= MaxTime
    BY <1>4, StampFacts
  <2> QED
    BY <1>4, <2>1, <2>2 DEF Stamp
<1>6. /\ inline.data.there
      /\ \A x \in Sessions : /\ acked[x] <= inline.data.marks[x]
                             /\ inline.data.marks[x] <= rendered[x]
  BY <1>1 DEF IInv, AckedKept, StampsRendered
<1>7. /\ f \in File /\ f.there
      /\ \A x \in Sessions :
            f.marks[x] = 0 \/ f.marks[x] = IF x = s THEN Higher(inline.data.marks[s], stamp)
                                                 ELSE inline.data.marks[x]
  BY <1>4, <1>6, MarkedFacts
<1> HIDE DEF s, stamp
<1>8. ASSUME NEW x \in Sessions
      PROVE  /\ acked'[x] \in Stamps /\ acked'[x] <= f.marks[x] /\ f.marks[x] <= rendered[x]
  <2>1. /\ acked[x] \in Stamps /\ inline.data.marks[x] \in Stamps /\ rendered[x] \in Stamps
        /\ acked[x] \in Nat /\ inline.data.marks[x] \in Nat /\ rendered[x] \in Nat
        /\ stamp \in Nat /\ 0 \in Stamps
    BY <1>4, <1>5, StampFacts DEF File
  <2>2. CASE f.marks[x] = 0
    BY <1>2, <2>1, <2>2
  <2>3. CASE f.marks[x] # 0 /\ x = s
    <3>1. acked'[x] = Higher(acked[x], stamp) /\ f.marks[x] = Higher(inline.data.marks[x], stamp)
      BY <1>2, <1>7, <2>3
    <3>2. acked'[x] \in Stamps
      BY <1>5, <2>1, <3>1, RaiseFacts
    <3>3. acked[x] <= inline.data.marks[x] /\ inline.data.marks[x] <= rendered[x]
          /\ stamp <= rendered[x]
      BY <1>5, <1>6, <2>3
    <3> QED
      BY <2>1, <3>1, <3>2, <3>3 DEF Higher
  <2>4. CASE f.marks[x] # 0 /\ x # s
    <3>1. acked'[x] = acked[x] /\ f.marks[x] = inline.data.marks[x]
      BY <1>2, <1>7, <2>4
    <3> QED
      BY <1>6, <2>1, <3>1
  <2> QED
    BY <2>2, <2>3, <2>4
<1>9. acked' \in [Sessions -> Stamps]
  <2>1. acked' = [x \in Sessions |-> acked'[x]]
    BY <1>2
  <2> QED
    BY <1>8, <2>1
<1>10. /\ inline' \in InlineState /\ inline'.at = "marked" /\ inline'.id = inline.id
       /\ inline'.data = NoFile
  BY <1>3, <1>4, FileFacts, StampFacts DEF InlineState
<1>11. Shapes'
  BY <1>1, <1>3, <1>10 DEF IInv, Shapes, browserVars
<1>12. TypeOK'
  BY <1>2, <1>3, <1>7, <1>9, <1>11, WorkTyped
  DEF IInv, TypeOK, clockVars, browserVars, ringVars
<1>13. Counted' /\ RingOrder'
  BY <1>3, RingFrame DEF IInv
<1>14. StampsRendered'
  <2>1. \A x \in Sessions : NoFile.marks[x] <= rendered[x]
    <3>1. \A x \in Sessions : rendered[x] \in Nat /\ NoFile.marks[x] = 0
      BY <1>4, FileFacts, StampFacts
    <3> QED
      BY <3>1
  <2> QED
    BY <1>2, <1>3, <1>8, <1>10, <2>1 DEF IInv, StampsRendered, browserVars
<1>15. AckedKept'
  BY <1>2, <1>3, <1>7, <1>8, <1>10 DEF IInv, AckedKept
<1>16. ReadStaysRead'
  BY <1>3 DEF IInv, ReadStaysRead, browserVars
<1> QED
  BY <1>11, <1>12, <1>13, <1>14, <1>15, <1>16 DEF IInv

(* A snapshot renders its listing; a row is shown as unread although a mark  *)
(* covers it only if the file it was annotated from lacks the mark.          *)
LEMMA ShownFacts ==
    ASSUME TypeOK, NEW listing \in Listings, NEW data \in File, Shown(listing, data)
    PROVE  /\ view' = listing /\ rendered' \in [Sessions -> Stamps]
           /\ \A s \in Sessions : rendered[s] <= rendered'[s]
           /\ \A s \in DOMAIN listing : listing[s] <= rendered'[s]
           /\ waiting' \in [Reads -> BOOLEAN] /\ relit' \subseteq Sessions
           /\ seeding # NoSeed => relit' = {}
           /\ (\A s \in Sessions : acked[s] <= data.marks[s]) => relit' = {}
           /\ data.baseline = MaxTime => relit' = {}
<1>1. /\ view' = listing
      /\ rendered' = [s \in Sessions |->
                         IF s \in DOMAIN listing THEN Higher(rendered[s], listing[s])
                                                 ELSE rendered[s]]
      /\ waiting' = [waiting EXCEPT !["history.list"] = FALSE]
  BY DEF Shown
<1>2. PICK running \in SUBSET DOMAIN listing :
        relit' = {s \in DOMAIN listing :
                    /\ Unread(data, s, listing[s], s \in running)
                    /\ listing[s] <= acked[s] /\ seeding = NoSeed}
  BY DEF Shown
<1>3. /\ DOMAIN listing \subseteq Sessions
      /\ \A s \in DOMAIN listing : listing[s] \in Stamps
      /\ rendered \in [Sessions -> Stamps] /\ acked \in [Sessions -> Stamps]
      /\ data.marks \in [Sessions -> Stamps] /\ data.baseline \in Stamps
      /\ waiting \in [Reads -> BOOLEAN]
  BY ListingFacts DEF TypeOK, File
<1>4. ASSUME NEW s \in Sessions
      PROVE  /\ rendered'[s] \in Stamps /\ rendered[s] <= rendered'[s]
             /\ s \in DOMAIN listing => listing[s] <= rendered'[s]
  <2>1. CASE s \in DOMAIN listing
    <3>1. rendered'[s] = Higher(rendered[s], listing[s])
      BY <1>1, <2>1
    <3> QED
      BY <1>3, <2>1, <3>1, RaiseFacts
  <2>2. CASE s \notin DOMAIN listing
    <3>1. rendered'[s] = rendered[s]
      BY <1>1, <2>2
    <3> QED
      BY <1>3, <2>2, <3>1, RaiseFacts
  <2> QED
    BY <2>1, <2>2
<1>5. rendered' \in [Sessions -> Stamps]
  <2>1. rendered' = [s \in Sessions |-> rendered'[s]]
    BY <1>1
  <2> QED
    BY <1>4, <2>1
<1>6. waiting' \in [Reads -> BOOLEAN]
  BY <1>1, <1>3
<1>7. relit' \subseteq Sessions /\ (seeding # NoSeed => relit' = {})
  BY <1>2, <1>3
<1>8. ASSUME NEW s \in relit'
      PROVE  ~ (acked[s] <= data.marks[s]) /\ data.baseline # MaxTime
  <2>1. /\ s \in Sessions /\ listing[s] \in Stamps /\ listing[s] <= acked[s]
        /\ listing[s] > Higher(data.marks[s], data.baseline)
    BY <1>2, <1>3 DEF Unread
  <2>2. /\ acked[s] \in Stamps /\ data.marks[s] \in Stamps
    BY <1>3, <2>1
  <2>3. /\ acked[s] \in Nat /\ data.marks[s] \in Nat /\ data.baseline \in Nat
        /\ listing[s] \in Nat /\ listing[s] <= MaxTime /\ MaxTime \in Nat
    BY <1>3, <2>1, <2>2, StampFacts
  <2> QED
    BY <2>1, <2>3 DEF Higher
<1> QED
  BY <1>1, <1>3, <1>4, <1>5, <1>6, <1>7, <1>8

(* A snapshot that is shown, and one that is dropped, which shows nothing.   *)
LEMMA EmittedFacts ==
    ASSUME TypeOK, StampsRendered, relit = {}, NEW by,
           NEW listing \in Listings, NEW data \in File, Emitted(by, listing, data)
    PROVE  /\ view' \in Listings /\ rendered' \in [Sessions -> Stamps]
           /\ \A s \in Sessions : rendered[s] <= rendered'[s]
           /\ \A s \in DOMAIN view' : view'[s] <= rendered'[s]
           /\ waiting' \in [Reads -> BOOLEAN]
           /\ seeding # NoSeed => relit' = {}
           /\ (\A s \in Sessions : acked[s] <= data.marks[s]) => relit' = {}
           /\ data.baseline = MaxTime => relit' = {}
<1>1. CASE Shown(listing, data)
  BY <1>1, ShownFacts
<1>2. CASE Dropped(by)
  <2>1. \A s \in Sessions : rendered[s] \in Nat
    BY StampFacts DEF TypeOK
  <2>2. waiting' \in [Reads -> BOOLEAN]
    <3>1. waiting \in [Reads -> BOOLEAN] /\ (waiting["history.list"] /\ by # "task") \in BOOLEAN
      BY DEF TypeOK
    <3>2. waiting' = [waiting EXCEPT !["history.list"] = waiting["history.list"] /\ by # "task"]
      BY <1>2 DEF Dropped
    <3> QED
      BY <3>1, <3>2
  <2> QED
    BY <1>2, <2>1, <2>2 DEF Dropped, TypeOK, StampsRendered
<1> QED
  BY <1>1, <1>2 DEF Emitted

(* Who had the listing is sending it. *)
LEMMA SendingFacts ==
    ASSUME Shapes, NEW by, Sending(by)
    PROVE  (inline' = inline \/ inline' = Answering) /\ task' \in [Reads -> TaskState]
<1>1. "history.list" \in Reads /\ task \in [Reads -> TaskState]
  BY DEF Reads, Shapes
<1> QED
  BY <1>1, ListingFacts DEF Sending, TaskState

(* A snapshot is sent, and the file is left alone or replaced by one that    *)
(* has every mark that is relied on afterwards.                              *)
LEMMA EmittedInv ==
    ASSUME IInv, NEW by, NEW listing \in Listings, NEW data \in File,
           Emitted(by, listing, data), Sending(by),
           relit' = {},
           \/ file' = file /\ acked' = acked
           \/ file' = seeding.data /\ acked' = Unmarked /\ seeding # NoSeed,
           seeding' = seeding \/ seeding' = NoSeed,
           UNCHANGED <<clockVars, cmds, deliveries, ringVars, cache, crashes>>
    PROVE  IInv'
<1>1. /\ view' \in Listings
      /\ rendered' \in [Sessions -> Stamps]
      /\ \A s \in Sessions : rendered[s] <= rendered'[s]
      /\ \A s \in DOMAIN view' : view'[s] <= rendered'[s]
      /\ waiting' \in [Reads -> BOOLEAN]
  BY EmittedFacts DEF IInv, ReadStaysRead
<1>2. (inline' = inline \/ inline' = Answering) /\ task' \in [Reads -> TaskState]
  BY SendingFacts DEF IInv
<1>3. /\ \A s \in Sessions : /\ Unmarked[s] = 0 /\ NoFile.marks[s] = 0
                            /\ rendered[s] \in Nat /\ rendered'[s] \in Nat
      /\ Unmarked \in [Sessions -> Stamps]
  BY <1>1, FileFacts, StampFacts DEF IInv, TypeOK
<1>4. /\ file' \in File /\ acked' \in [Sessions -> Stamps]
      /\ \A s \in Sessions : acked'[s] <= file'.marks[s]
      /\ ~ file'.there => file'.marks = Unmarked
  <2>1. CASE file' = file /\ acked' = acked
    BY <2>1 DEF IInv, TypeOK, AckedKept
  <2>2. CASE file' = seeding.data /\ acked' = Unmarked /\ seeding # NoSeed
    <3>1. file' \in File /\ file'.marks = Unmarked
      BY <2>2 DEF IInv, Shapes, SeedingState, AckedKept
    <3> QED
      BY <1>3, <2>2, <3>1
  <2> QED
    BY <2>1, <2>2
<1>5. /\ inline' \in InlineState /\ (inline'.at \notin {"none", "sending"} => inline' = inline)
  BY <1>2, QuietFacts DEF IInv, Shapes
<1>6. seeding' \in SeedingState
  BY QuietFacts DEF IInv, Shapes
<1>7. Shapes'
  BY <1>2, <1>5, <1>6 DEF IInv, Shapes
<1>8. TypeOK'
  BY <1>1, <1>4, <1>7, WorkTyped DEF IInv, TypeOK, clockVars, ringVars
<1>9. Counted' /\ RingOrder'
  BY RingFrame DEF IInv
<1>10. StampsRendered'
  <2>1. /\ \A c \in DOMAIN cmds : cmds[c].seen <= rendered'[cmds[c].s]
        /\ \A s \in Sessions : /\ inline.data.marks[s] <= rendered'[s]
                               /\ file.marks[s] <= rendered'[s]
    BY <1>1, RenderedRises DEF IInv
  <2>2. \A s \in Sessions : inline'.data.marks[s] <= rendered'[s]
    BY <1>2, <1>3, <2>1, QuietFacts
  <2>3. \A s \in Sessions : file'.marks[s] <= rendered'[s]
    BY <1>3, <2>1 DEF IInv, AckedKept
  <2>4. inline'.at \in {"reading", "writing"} =>
            LET s == cmds[inline'.id].s
            IN  /\ inline'.seen <= rendered'[s]
                /\ inline'.seen = 0 => rendered'[s] = MaxTime
    <3> SUFFICES ASSUME inline'.at \in {"reading", "writing"}
                 PROVE  /\ inline.seen <= rendered'[cmds[inline.id].s]
                        /\ inline.seen = 0 => rendered'[cmds[inline.id].s] = MaxTime
      BY <1>5
    <3> DEFINE s == cmds[inline.id].s
    <3>1. inline' = inline /\ inline.seen \in Stamps
      BY <1>5 DEF IInv, TypeOK
    <3>2. s \in Sessions
      <4>1. inline.id \in DOMAIN cmds /\ cmds \in Seq(Cmd)
        BY <3>1 DEF IInv, Shapes, TypeOK
      <4>2. cmds[inline.id] \in Cmd
        BY <4>1, LenProperties, ElementOfSeq
      <4> QED
        BY <4>2 DEF Cmd
    <3>3. inline.seen <= rendered[s] /\ (inline.seen = 0 => rendered[s] = MaxTime)
      BY <3>1 DEF IInv, StampsRendered
    <3> HIDE DEF s
    <3>4. /\ rendered[s] \in Nat /\ rendered'[s] \in Nat /\ inline.seen \in Nat
          /\ rendered'[s] <= MaxTime /\ rendered[s] <= rendered'[s] /\ MaxTime \in Nat
      <4>1. rendered'[s] \in Stamps /\ rendered[s] <= rendered'[s]
        BY <1>1, <3>2
      <4> QED
        BY <1>3, <3>1, <3>2, <4>1, StampFacts
    <3> QED
      BY <3>3, <3>4 DEF s
  <2> QED
    BY <1>1, <2>1, <2>2, <2>3, <2>4 DEF StampsRendered
<1>11. AckedKept'
  <2>1. inline'.at = "writing" =>
            inline'.data.there /\ \A s \in Sessions : acked'[s] <= inline'.data.marks[s]
    <3> SUFFICES ASSUME inline'.at = "writing"
                 PROVE  /\ inline.data.there
                        /\ \A s \in Sessions : acked'[s] <= inline.data.marks[s]
      BY <1>5
    <3>1. /\ inline.data.there /\ inline.data \in File
          /\ \A s \in Sessions : acked[s] <= inline.data.marks[s]
      BY <1>5 DEF IInv, TypeOK, AckedKept
    <3>2. \A s \in Sessions : inline.data.marks[s] \in Nat
      BY <3>1, StampFacts DEF File
    <3> QED
      BY <1>3, <3>1, <3>2
  <2>2. /\ seeding'.data.marks = Unmarked
        /\ seeding' # NoSeed => seeding'.data.there
    BY QuietFacts, FileFacts DEF IInv, AckedKept
  <2> QED
    BY <1>4, <2>1, <2>2 DEF AckedKept
<1>12. ReadStaysRead'
  BY DEF ReadStaysRead
<1> QED
  BY <1>7, <1>8, <1>9, <1>10, <1>11, <1>12 DEF IInv

LEMMA AnnotateInv ==
    ASSUME IInv, NEW by \in {"task", "inline"}, Annotate(by)
    PROVE  IInv'
<1> DEFINE listing == ListingOf(by)
<1>1. /\ seeding = NoSeed
      /\ UNCHANGED <<clockVars, cmds, deliveries, ringVars, cache, file, crashes, acked>>
  BY DEF Annotate, LoopFree
<1>2. listing \in Listings
  <2>1. "history.list" \in Reads
    BY DEF Reads
  <2> QED
    BY <2>1 DEF ListingOf, IInv, Shapes, TaskState, InlineState
<1> HIDE DEF listing
<1>3. CASE file.there /\ Emitted(by, listing, file) /\ Sending(by) /\ UNCHANGED seeding
  <2>1. file \in File /\ \A s \in Sessions : acked[s] <= file.marks[s]
    BY DEF IInv, TypeOK, AckedKept
  <2>2. relit' = {}
    BY <1>2, <1>3, <2>1, EmittedFacts DEF IInv, ReadStaysRead
  <2> QED
    BY <1>1, <1>2, <1>3, <2>1, <2>2, EmittedInv
<1>4. CASE Emitted(by, listing, Unreadable(listing)) /\ Sending(by) /\ UNCHANGED seeding
  <2>1. Unreadable(listing) \in File /\ Unreadable(listing).baseline = MaxTime
    BY FileFacts, StampFacts DEF Unreadable, File
  <2>2. relit' = {}
    BY <1>2, <1>4, <2>1, EmittedFacts DEF IInv, ReadStaysRead
  <2> QED
    BY <1>1, <1>2, <1>4, <2>1, <2>2, EmittedInv
<1>5. CASE /\ ~ file.there
           /\ seeding' = [by |-> by, data |-> Seed(now)]
           /\ UNCHANGED <<inline, task, view, relit, rendered, waiting>>
  <2>1. /\ Seed(now) \in File /\ Seed(now).marks = Unmarked /\ Seed(now).there
    BY FileFacts, StampFacts DEF IInv, TypeOK
  <2>2. Shapes'
    BY <1>1, <1>5, <2>1 DEF IInv, Shapes, SeedingState
  <2>3. TypeOK'
    BY <1>1, <1>5, <2>2, WorkTyped DEF IInv, TypeOK, clockVars, ringVars
  <2>4. Counted' /\ RingOrder'
    BY <1>1, RingFrame DEF IInv
  <2>5. StampsRendered'
    BY <1>1, <1>5, StampsFrame DEF IInv
  <2>6. AckedKept'
    BY <1>1, <1>5, <2>1 DEF IInv, AckedKept
  <2>7. ReadStaysRead'
    BY <1>5 DEF IInv, ReadStaysRead
  <2> QED
    BY <2>2, <2>3, <2>4, <2>5, <2>6, <2>7 DEF IInv
<1> QED
  BY <1>3, <1>4, <1>5 DEF Annotate, listing

LEMMA SeedWrittenInv == ASSUME IInv, SeedWritten PROVE IInv'
<1> DEFINE listing == ListingOf(seeding.by)
<1>1. /\ seeding # NoSeed /\ seeding' = NoSeed
      /\ \/ file' = seeding.data /\ acked' = Unmarked
         \/ file' = file /\ acked' = acked
      /\ Emitted(seeding.by, listing, seeding.data) /\ Sending(seeding.by)
      /\ UNCHANGED <<clockVars, cmds, deliveries, ringVars, cache, crashes>>
  BY DEF SeedWritten
<1>2. listing \in Listings
  <2>1. "history.list" \in Reads
    BY DEF Reads
  <2> QED
    BY <2>1 DEF ListingOf, IInv, Shapes, TaskState, InlineState
<1> HIDE DEF listing
<1>3. seeding.data \in File
  BY DEF IInv, TypeOK
<1>4. relit' = {}
  BY <1>1, <1>2, <1>3, EmittedFacts DEF IInv, ReadStaysRead
<1> QED
  BY <1>1, <1>2, <1>3, <1>4, EmittedInv

(* A restart forgets the ring with the work, and keeps the file. *)
LEMMA RestartsInv == ASSUME IInv, Restarts PROVE IInv'
<1>1. /\ crashes < MaxCrashes /\ crashes' = crashes + 1
      /\ ring' = <<>> /\ runs' = [c \in Ids |-> 0] /\ since' = [c \in Ids |-> 0]
      /\ inline' = Quiet /\ task' = [a \in Reads |-> Idle] /\ cache' = "none"
      /\ seeding' = NoSeed /\ waiting' = [a \in Reads |-> FALSE]
      /\ UNCHANGED <<clockVars, browserVars, deliveries, file, acked>>
  BY DEF Restarts
<1>2. /\ crashes' \in 0 .. MaxCrashes
  BY <1>1, CommandsAssumption DEF IInv, TypeOK
<1>3. /\ ring' \in Seq(Ids) /\ Len(ring') = 0 /\ DOMAIN ring' = {}
      /\ 0 <= MaxRing /\ 0 \in 0 .. MaxDeliveries /\ 0 <= deliveries
  BY <1>1, EmptySeq, CommandsAssumption DEF IInv, TypeOK
<1>4. /\ runs' \in [Ids -> 0 .. MaxDeliveries] /\ since' \in [Ids -> 0 .. MaxDeliveries]
      /\ waiting' \in [Reads -> BOOLEAN]
  BY <1>1, <1>3
<1>5. Shapes'
  BY <1>1, QuietFacts DEF Shapes
<1>6. TypeOK'
  <2>1. cache' \in {"none", "empty", "full"}
    BY <1>1
  <2> QED
    BY <1>1, <1>2, <1>3, <1>4, <1>5, <2>1, WorkTyped
    DEF IInv, TypeOK, clockVars, browserVars
<1>7. Counted' /\ RingOrder'
  BY <1>1, <1>3 DEF Counted, RingOrder
<1>8. StampsRendered'
  <2>1. \A s \in Sessions : NoFile.marks[s] = 0 /\ rendered[s] \in Nat
    BY FileFacts, StampFacts DEF IInv, TypeOK
  <2>2. \A s \in Sessions : inline'.data.marks[s] <= rendered[s]
    BY <1>1, <2>1, QuietFacts
  <2> QED
    BY <1>1, <2>2, QuietFacts DEF IInv, StampsRendered, browserVars
<1>9. AckedKept'
  BY <1>1, QuietFacts, FileFacts DEF IInv, AckedKept
<1>10. ReadStaysRead'
  BY <1>1 DEF IInv, ReadStaysRead, browserVars
<1> QED
  BY <1>5, <1>6, <1>7, <1>8, <1>9, <1>10 DEF IInv

LEMMA StutterInv == ASSUME IInv, UNCHANGED vars PROVE IInv'
<1>1. /\ UNCHANGED <<clockVars, browserVars, deliveries, ringVars, seeding, file, crashes, acked>>
      /\ UNCHANGED <<inline, task, waiting, cache>>
  BY DEF vars, workVars
<1>2. /\ inline \in InlineState /\ task \in [Reads -> TaskState]
      /\ waiting \in [Reads -> BOOLEAN] /\ cache \in {"none", "empty", "full"}
  BY DEF IInv, Shapes, TypeOK
<1> QED
  BY <1>1, <1>2, WorkStep

LEMMA NextInv == IInv /\ [Next]_vars => IInv'
<1> SUFFICES ASSUME IInv, [Next]_vars PROVE IInv'
  OBVIOUS
<1>1. ASSUME NEW s \in Sessions, AgentAppends(s) PROVE IInv'
  BY <1>1, AgentAppendsInv
<1>2. CASE Issue
  BY <1>2, IssueInv
<1>3. ASSUME NEW c \in Ids, Deliver(c) PROVE IInv'
  BY <1>3, DeliverInv
<1>4. CASE TaskLists \/ MarkLists \/ ReadFails
  BY <1>4, ListingInv
<1>5. CASE MarkFails \/ Probed \/ CapabilitiesSent \/ MarkSent
  BY <1>5, OtherWorkInv
<1>6. CASE MarkBegins
  BY <1>6, MarkBeginsInv
<1>7. CASE MarkReads
  BY <1>7, MarkReadsInv
<1>8. CASE MarkWrites
  BY <1>8, MarkWritesInv
<1>9. CASE SeedWritten
  BY <1>9, SeedWrittenInv
<1>10. ASSUME NEW by \in {"task", "inline"}, Annotate(by) PROVE IInv'
  BY <1>10, AnnotateInv
<1>11. ASSUME NEW a \in Reads, TaskSent(a) PROVE IInv'
  BY <1>11, TaskSentInv
<1>12. CASE Restarts
  BY <1>12, RestartsInv
<1>13. CASE UNCHANGED vars
  BY <1>13, StutterInv
<1> QED
  BY <1>1, <1>2, <1>3, <1>4, <1>5, <1>6, <1>7, <1>8, <1>9, <1>10, <1>11, <1>12,
     <1>13
  DEF Next, Work

-----------------------------------------------------------------------------
(* The inductive invariant holds in every behaviour, whatever is delivered   *)
(* twice, whenever the process restarts and however the marking thread and   *)
(* annotate() interleave.                                                    *)
THEOREM Inductive == Spec => []IInv
BY InitInv, NextInv, PTL DEF Spec

(* The state is well typed, and the ring holds at most MaxRing ids. *)
THEOREM TypeCorrect == Spec => []TypeOK
<1>1. IInv => TypeOK
  BY DEF IInv
<1> QED
  BY <1>1, Inductive, PTL

(* No mark in the file covers output that no listing has shown (reads.mark   *)
(* with the stamp of the payload or of the listing).                         *)
THEOREM UnseenNeverMarked == Spec => []UnseenStaysUnread
<1>1. IInv => UnseenStaysUnread
  BY DEF IInv, StampsRendered, UnseenStaysUnread
<1> QED
  BY <1>1, Inductive, PTL

(* A snapshot never shows as unread what a mark that still stands covers     *)
(* (reads.mark, reads.annotate).                                             *)
THEOREM MarkedStaysRead == Spec => []ReadStaysRead
<1>1. IInv => ReadStaysRead
  BY DEF IInv
<1> QED
  BY <1>1, Inductive, PTL

(* A request that is not answered yet has a task that has still to answer it *)
(* (_read_tasks): a task that is done, or is sending, took every request it  *)
(* was left with along.                                                      *)
THEOREM AnswerIsOnItsWay == Spec => []AwaitedIsWorkedOn
<1>1. Init => AwaitedIsWorkedOn
  BY DEF Init, AwaitedIsWorkedOn
<1>2. IInv /\ AwaitedIsWorkedOn /\ [Next]_vars => AwaitedIsWorkedOn'
  <2> SUFFICES ASSUME IInv, AwaitedIsWorkedOn, [Next]_vars PROVE AwaitedIsWorkedOn'
    OBVIOUS
  <2>0. /\ task \in [Reads -> TaskState] /\ waiting \in [Reads -> BOOLEAN]
        /\ "history.list" \in Reads /\ "capabilities.get" \in Reads
    BY DEF IInv, Shapes, TypeOK, Reads
  <2>1. CASE UNCHANGED <<task, waiting>>
    BY <2>1 DEF AwaitedIsWorkedOn
  <2>2. ASSUME NEW c \in Ids, Deliver(c) PROVE AwaitedIsWorkedOn'
    <3>1. CASE UNCHANGED <<task, waiting>>
      BY <3>1 DEF AwaitedIsWorkedOn
    <3>2. CASE cmds[c].action \in Reads /\ BeginRead(cmds[c].action, cmds[c].limit)
      <4> DEFINE a == cmds[c].action
      <4>1. \A b \in Reads \ {a} : task'[b] = task[b] /\ waiting'[b] = waiting[b]
        BY <2>0, <3>2 DEF BeginRead
      <4>2. CASE task[a].at \notin {"none", "done"}
        <5>1. /\ task' = task
              /\ waiting'[a] = (waiting[a] \/ task[a].at # "sending")
          BY <2>0, <3>2, <4>2 DEF BeginRead, Busy
        <5>2. task[a].at \in {"working", "worked", "sending"}
          BY <2>0, <3>2, <4>2 DEF TaskState
        <5> QED
          BY <3>2, <4>1, <5>1, <5>2 DEF AwaitedIsWorkedOn
      <4>3. CASE task[a].at \in {"none", "done"}
        <5>1. task'[a].at = "working"
          BY <2>0, <3>2, <4>3 DEF BeginRead, Busy
        <5> QED
          BY <3>2, <4>1, <5>1 DEF AwaitedIsWorkedOn
      <4> QED
        BY <4>2, <4>3
    <3> QED
      BY <2>2, <3>1, <3>2 DEF Deliver
  <2>3. CASE TaskLists
    <3>1. PICK rows : task' = [task EXCEPT !["history.list"].at = "worked",
                                           !["history.list"].listing = [s \in rows |-> updated[s]]]
      BY <2>3 DEF TaskLists
    <3>2. task'["history.list"].at = "worked" /\ \A b \in Reads \ {"history.list"} : task'[b] = task[b]
      BY <2>0, <3>1 DEF TaskState
    <3> QED
      BY <2>3, <3>2 DEF TaskLists, AwaitedIsWorkedOn
  <2>4. CASE ReadFails
    <3>1. ASSUME NEW a \in Reads, waiting' = [waiting EXCEPT ![a] = FALSE],
                 task' = [task EXCEPT ![a].at = "sending", ![a].listing = <<>>]
          PROVE  AwaitedIsWorkedOn'
      <4>1. \A b \in Reads \ {a} : task'[b] = task[b] /\ waiting'[b] = waiting[b]
        BY <2>0, <3>1
      <4> QED
        BY <2>0, <3>1, <4>1 DEF AwaitedIsWorkedOn
    <3> QED
      BY <2>1, <2>4, <3>1 DEF ReadFails
  <2>5. ASSUME NEW by, NEW listing, NEW data, Emitted(by, listing, data), Sending(by)
        PROVE  AwaitedIsWorkedOn'
    <3>1. /\ by = "task" => ~ waiting'["history.list"]
          /\ \A b \in Reads : waiting'[b] => waiting[b]
      BY <2>0, <2>5 DEF Emitted, Shown, Dropped
    <3>2. /\ by # "task" => task' = task
          /\ \A b \in Reads \ {"history.list"} : task'[b] = task[b]
      BY <2>0, <2>5 DEF Sending
    <3> QED
      BY <3>1, <3>2 DEF AwaitedIsWorkedOn
  <2>6. ASSUME NEW by \in {"task", "inline"}, Annotate(by) PROVE AwaitedIsWorkedOn'
    BY <2>1, <2>5, <2>6 DEF Annotate
  <2>7. CASE SeedWritten
    BY <2>5, <2>7 DEF SeedWritten
  <2>8. CASE Probed
    <3>1. /\ task'["capabilities.get"].at = "worked" /\ waiting' = waiting
          /\ \A b \in Reads \ {"capabilities.get"} : task'[b] = task[b]
      BY <2>0, <2>8 DEF Probed, TaskState
    <3> QED
      BY <3>1 DEF AwaitedIsWorkedOn
  <2>9. CASE CapabilitiesSent
    <3>1. /\ ~ waiting'["capabilities.get"]
          /\ \A b \in Reads \ {"capabilities.get"} : task'[b] = task[b] /\ waiting'[b] = waiting[b]
      BY <2>0, <2>9 DEF CapabilitiesSent
    <3> QED
      BY <3>1 DEF AwaitedIsWorkedOn
  <2>10. ASSUME NEW a \in Reads, TaskSent(a) PROVE AwaitedIsWorkedOn'
    <3>1. /\ task[a].at = "sending" /\ waiting' = waiting
          /\ \A b \in Reads \ {a} : task'[b] = task[b]
      BY <2>0, <2>10 DEF TaskSent
    <3> QED
      BY <3>1 DEF AwaitedIsWorkedOn
  <2>11. CASE Restarts
    BY <2>11 DEF Restarts, AwaitedIsWorkedOn
  <2>12. CASE Issue \/ UNCHANGED vars \/ \E s \in Sessions : AgentAppends(s)
    BY <2>1, <2>12 DEF Issue, AgentAppends, vars, workVars
  <2>13. CASE MarkLists \/ MarkBegins \/ MarkReads \/ MarkWrites \/ MarkFails \/ MarkSent
    BY <2>1, <2>13 DEF MarkLists, MarkBegins, MarkReads, MarkWrites, MarkFails, MarkSent
  <2> QED
    BY <2>2, <2>3, <2>4, <2>6, <2>7, <2>8, <2>9, <2>10, <2>11, <2>12, <2>13 DEF Next, Work
<1> QED
  BY <1>1, <1>2, Inductive, PTL DEF Spec

(* The ring of _is_duplicate_command: a command runs a second time only      *)
(* after MaxRing others were recorded.                                       *)
THEOREM SecondRunsOnlyAfterRing == Spec => RunsOnce
<1> DEFINE Once == \A c \in Ids : runs'[c] > runs[c] /\ runs[c] > 0 => since[c] >= MaxRing
<1>1. IInv /\ [Next]_vars => [Once]_vars
  <2> SUFFICES ASSUME IInv, Next PROVE Once
    OBVIOUS
  <2>1. \A x \in Ids : runs[x] \in Nat
    BY DEF IInv, TypeOK
  <2>2. ASSUME NEW c \in Ids, Deliver(c) PROVE Once
    <3>1. CASE UNCHANGED ringVars
      BY <2>1, <3>1 DEF ringVars
    <3>2. CASE cmds[c].named /\ ~ Duplicate(c) /\ Record(c)
      <4>1. \A x \in Ids : x # c => runs'[x] = runs[x]
        BY <3>2 DEF Record, IInv, TypeOK
      <4>2. runs[c] > 0 => since[c] >= MaxRing
        BY <3>2 DEF IInv, RingOrder
      <4> QED
        BY <2>1, <4>1, <4>2
    <3> QED
      BY <2>2, <3>1, <3>2 DEF Deliver, Record
  <2>3. CASE Restarts
    <3>1. \A x \in Ids : runs'[x] = 0
      BY <2>3 DEF Restarts
    <3> QED
      BY <2>1, <3>1
  <2>4. CASE (\E s \in Sessions : AgentAppends(s)) \/ Issue
    <3>1. runs' = runs
      BY <2>4 DEF AgentAppends, Issue, ringVars
    <3> QED
      BY <2>1, <3>1
  <2>5. CASE Work
    <3>1. runs' = runs
      BY <2>5 DEF Work, TaskLists, MarkLists, ReadFails, MarkBegins, MarkReads, MarkWrites,
                  MarkFails, TaskSent, MarkSent, SeedWritten, Probed, CapabilitiesSent, Annotate, ringVars
    <3> QED
      BY <2>1, <3>1
  <2> QED
    BY <2>2, <2>3, <2>4, <2>5 DEF Next
<1> QED
  BY <1>1, Inductive, PTL DEF Spec, RunsOnce
=============================================================================
