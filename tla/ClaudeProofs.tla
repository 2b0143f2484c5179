----------------------------- MODULE ClaudeProofs -----------------------------
(***************************************************************************)
(* Theorems about module Claude, for any number of turns, clients, messages *)
(* and text blocks.                                                         *)
(*                                                                          *)
(* The inductive invariant has three parts.  The first is about what is     *)
(* between turns: the transcripts (FilesSound), the clients (LiveKept),     *)
(* what a client is brought up for (GoalKnown), and what its CLI has left   *)
(* to say (CliSound).  The second is about a turn while what comes before   *)
(* its answer is read (ReplayGuarded, ReplayBubbles): such a message has at *)
(* most one bubble, which is open until the message is there, and the turn  *)
(* gets to its answer only if nothing of that has a bubble.  The third is   *)
(* about a turn while the CLI answers: the bubbles that wait for their text *)
(* are those of the blocks that wait for theirs, in the same order          *)
(* (AnswerMatched).                                                         *)
(***************************************************************************)
EXTENDS Claude, SequenceTheorems, TLAPS

Distinct(s) == \A i, j \in DOMAIN s : s[i] = s[j] => i = j

(* Sessions are numbered, and a transcript has messages that were written,  *)
(* each once; a repaired copy is signed, and so is what is empty.           *)
FilesSound ==
    /\ nextId > 0
    /\ \A s \in DOMAIN files :
        /\ 0 < s.n /\ s.n < nextId
        /\ ToSet(files[s].msgs) \subseteq 1 .. msgs
        /\ Distinct(files[s].msgs)
        /\ files[s].msgs = <<>> \/ s.made # <<>> => files[s].unsigned = "no"
    /\ {sdkSid, cli.sid} \subseteq DOMAIN files \cup {NoSid}

(* A client that is not connected, nor being connected, runs no CLI that    *)
(* was not cut off.                                                         *)
LiveKept ==
    /\ NoStrayCli
    /\ pc = "connecting" => client \in 1 .. clients
    /\ ~ connected /\ pc # "connecting" => live \subseteq cutOff
    /\ pc = "fresh" => ~ connected /\ sdkSid = NoSid

(* What is resumed is there, with as many messages as are to be kept.       *)
GoalKnown ==
    pc = "connecting" =>
        /\ ~ connected
        /\ goal.sid = NoSid => goal.keep = 0
        /\ goal.sid # NoSid =>
                goal.sid \in DOMAIN files /\ goal.keep <= Len(files[goal.sid].msgs)

(* What the CLI c has left to say are messages that were written, of which  *)
(* a result is still to come.                                               *)
Backlog(c, m) ==
    /\ ToSet(c.loaded) \subseteq 1 .. m /\ Distinct(c.loaded)
    /\ ToSet(c.todo) \subseteq 1 .. m /\ Distinct(c.todo)
    /\ c.todo # <<>> => c.owed \/ c.behind # 0 \/ ~ c.done

CliSound ==
    /\ Backlog(cli, msgs)
    /\ pc = "receiving" => cli.loaded = <<>> /\ ~ cli.done

Replaying == pc = "receiving" /\ Behind
Replied == pc = "receiving" /\ ~ Behind

(* A replay the guard has seen has had its result, or it was not only that. *)
Accounted(g) == g.replay => g.swallowed \/ g.genuine

(* Nothing comes before the answer of c any more. *)
Settled(c) == c.todo = <<>> /\ ~ c.owed /\ c.behind = 0

(* Before the answer nothing of it is there, and unless something genuine   *)
(* was seen there is no bubble.                                             *)
ReplayGuarded ==
    /\ Replied => cli.todo = <<>> /\ Accounted(gate)
    /\ Replaying =>
        /\ told = {} /\ cli.blocks = <<>>
        /\ ~ gate.genuine => bubbles = <<>> /\ open = NoBlock /\ streamed = <<>>

(* A message still to come before the answer has no bubble, but for the     *)
(* first of them, whose bubble is open.                                     *)
ReplayBubbles ==
    Replaying =>
        /\ \A i \in DOMAIN bubbles : bubbles[i].of[1] \in 1 .. msgs
        /\ \A i \in DOMAIN bubbles :
            bubbles[i].of[1] \in ToSet(cli.todo) => i = open.bubble /\ ~ open.committed
        /\ open.bubble # 0 /\ ~ open.committed =>
                /\ cli.todo # <<>>
                /\ open.bubble \in DOMAIN bubbles
                /\ bubbles[open.bubble].of = <<Head(cli.todo), 1>>
        /\ \A i \in DOMAIN streamed : streamed[i] \in DOMAIN bubbles

(* The number of blocks of the message that have stopped. *)
StoppedCount == IF open.bubble = 0 THEN Len(cli.blocks) ELSE Len(cli.blocks) - 1

(* The texts of the first k blocks were delivered, and the bubbles of the   *)
(* other blocks that have stopped are kept in order.                        *)
InOrder(k) ==
    /\ \A b \in DOMAIN cli.blocks : cli.blocks[b].told <=> b <= k
    /\ Len(streamed) = IF k <= StoppedCount THEN StoppedCount - k ELSE 0
    /\ \A i \in DOMAIN streamed :
        streamed[i] \in DOMAIN bubbles /\ bubbles[streamed[i]].of = <<cli.msg, k + i>>

(* The bubbles of a message are those of its blocks. *)
OwnBubbles ==
    Replied =>
        /\ cli.msg \in 0 .. msgs
        /\ cli.msg # 0 => ~ gate.stream
        /\ \A i \in DOMAIN bubbles :
            /\ bubbles[i].of[1] \in 1 .. cli.msg
            /\ bubbles[i].of[1] = cli.msg => bubbles[i].of[2] <= Len(cli.blocks)

(* The open bubble is that of the one block that has not stopped.           *)
AnswerMatched ==
    Replied =>
        /\ \A b \in DOMAIN cli.blocks :
            cli.blocks[b].stopped <=> b # Len(cli.blocks) \/ open.bubble = 0
        /\ open.bubble # 0 =>
            /\ cli.blocks # <<>>
            /\ open.bubble \in DOMAIN bubbles
            /\ bubbles[open.bubble].of = <<cli.msg, Len(cli.blocks)>>
            /\ open.committed <=> cli.blocks[Len(cli.blocks)].told
        /\ \E k \in 0 .. Len(cli.blocks) : InOrder(k)

Shown ==
    /\ \A x \in told : \E i \in DOMAIN bubbles : bubbles[i] = [of |-> x, full |-> TRUE]
    /\ \A i, j \in DOMAIN bubbles : bubbles[i].of = bubbles[j].of => i = j

IInv ==
    /\ TypeOK
    /\ FilesSound
    /\ LiveKept
    /\ GoalKnown
    /\ CliSound
    /\ ReplayGuarded
    /\ ReplayBubbles
    /\ OwnBubbles
    /\ AnswerMatched
    /\ Shown

-----------------------------------------------------------------------------
(* Sequences. *)

LEMMA InSeq ==
    ASSUME NEW S, NEW s \in Seq(S)
    PROVE  /\ DOMAIN s = 1 .. Len(s) /\ Len(s) \in Nat
           /\ ToSet(s) \subseteq S
           /\ \A x : x \in ToSet(s) <=> \E i \in DOMAIN s : x = s[i]
           /\ s # <<>> => Len(s) > 0 /\ Head(s) = s[1] /\ Head(s) \in ToSet(s)
<1>1. DOMAIN s = 1 .. Len(s) /\ Len(s) \in Nat /\ \A i \in 1 .. Len(s) : s[i] \in S
  BY LenProperties, ElementOfSeq
<1>2. s # <<>> => Len(s) > 0
  BY EmptySeq
<1>3. Head(s) = s[1]
  OBVIOUS
<1> QED
  BY <1>1, <1>2, <1>3 DEF ToSet

LEMMA OfEmpty == ToSet(<<>>) = {} /\ Distinct(<<>>) /\ DOMAIN <<>> = {}
BY DEF ToSet, Distinct

LEMMA OfTail ==
    ASSUME NEW S, NEW s \in Seq(S), s # <<>>, Distinct(s)
    PROVE  /\ Tail(s) \in Seq(S) /\ Distinct(Tail(s))
           /\ ToSet(Tail(s)) = ToSet(s) \ {Head(s)}
<1>1. /\ DOMAIN s = 1 .. Len(s) /\ Len(s) \in Nat /\ Len(s) > 0 /\ Head(s) = s[1]
  BY InSeq
<1>2. /\ Tail(s) \in Seq(S) /\ Len(Tail(s)) = Len(s) - 1
      /\ \A i \in 1 .. Len(Tail(s)) : Tail(s)[i] = s[i + 1]
  BY HeadTailProperties
<1>3. DOMAIN Tail(s) = 1 .. Len(s) - 1
  BY <1>2, LenProperties
<1>4. \A i \in DOMAIN Tail(s) : i + 1 \in DOMAIN s /\ Tail(s)[i] = s[i + 1] /\ i + 1 # 1
  BY <1>1, <1>2, <1>3
<1>5. Distinct(Tail(s))
  <2> SUFFICES ASSUME NEW i \in DOMAIN Tail(s), NEW j \in DOMAIN Tail(s), Tail(s)[i] = Tail(s)[j]
               PROVE  i = j
    BY DEF Distinct
  <2>1. i + 1 = j + 1
    BY <1>4 DEF Distinct
  <2> QED
    BY <1>1, <1>3, <2>1
<1>6. ASSUME NEW x \in ToSet(Tail(s)) PROVE x \in ToSet(s) \ {Head(s)}
  <2>1. PICK i \in DOMAIN Tail(s) : x = Tail(s)[i]
    BY <1>6 DEF ToSet
  <2>2. x = s[i + 1] /\ i + 1 \in DOMAIN s /\ i + 1 # 1 /\ 1 \in DOMAIN s
    BY <1>1, <1>4, <2>1
  <2> QED
    BY <1>1, <2>2 DEF ToSet, Distinct
<1>7. ASSUME NEW x \in ToSet(s) \ {Head(s)} PROVE x \in ToSet(Tail(s))
  <2>1. PICK i \in DOMAIN s : x = s[i]
    BY <1>7 DEF ToSet
  <2>2. i # 1
    BY <1>1, <1>7, <2>1
  <2>3. i - 1 \in DOMAIN Tail(s) /\ (i - 1) + 1 = i
    BY <1>1, <1>3, <2>2
  <2>4. Tail(s)[i - 1] = x
    BY <1>4, <2>1, <2>3
  <2> QED
    BY <2>3, <2>4 DEF ToSet
<1> QED
  BY <1>2, <1>5, <1>6, <1>7

LEMMA OfAppend ==
    ASSUME NEW S, NEW s \in Seq(S), NEW e \in S
    PROVE  /\ Append(s, e) \in Seq(S) /\ Append(s, e) # <<>>
           /\ DOMAIN Append(s, e) = 1 .. Len(s) + 1 /\ Len(Append(s, e)) = Len(s) + 1
           /\ \A i \in DOMAIN s : Append(s, e)[i] = s[i]
           /\ Append(s, e)[Len(s) + 1] = e
           /\ ToSet(Append(s, e)) = ToSet(s) \cup {e}
           /\ Distinct(s) /\ e \notin ToSet(s) => Distinct(Append(s, e))
<1> DEFINE a == Append(s, e)
<1>1. /\ a \in Seq(S) /\ a # <<>> /\ Len(a) = Len(s) + 1 /\ a[Len(s) + 1] = e
      /\ \A i \in 1 .. Len(s) : a[i] = s[i]
  BY AppendProperties
<1>2. DOMAIN s = 1 .. Len(s) /\ Len(s) \in Nat /\ DOMAIN a = 1 .. Len(s) + 1
  BY <1>1, LenProperties
<1> HIDE DEF a
<1>3. \A i \in DOMAIN a : (i \in DOMAIN s /\ a[i] = s[i]) \/ (i = Len(s) + 1 /\ a[i] = e)
  BY <1>1, <1>2
<1>4. \A i \in DOMAIN s : i \in DOMAIN a /\ a[i] = s[i]
  BY <1>1, <1>2
<1>5. Len(s) + 1 \in DOMAIN a
  BY <1>2
<1>6. ToSet(a) = ToSet(s) \cup {e}
  BY <1>1, <1>3, <1>4, <1>5 DEF ToSet
<1>7. ASSUME Distinct(s), e \notin ToSet(s) PROVE Distinct(a)
  BY <1>3, <1>7 DEF Distinct, ToSet
<1> QED
  BY <1>1, <1>2, <1>6, <1>7 DEF a

LEMMA OfPrefix ==
    ASSUME NEW S, NEW s \in Seq(S), NEW n \in 0 .. Len(s)
    PROVE  /\ SubSeq(s, 1, n) \in Seq(S)
           /\ ToSet(SubSeq(s, 1, n)) \subseteq ToSet(s)
           /\ Distinct(s) => Distinct(SubSeq(s, 1, n))
<1> DEFINE p == SubSeq(s, 1, n)
<1>1. DOMAIN s = 1 .. Len(s) /\ Len(s) \in Nat /\ \A i \in 1 .. Len(s) : s[i] \in S
  BY LenProperties, ElementOfSeq
<1>2. n \in Int /\ 1 \in Int /\ \A i \in 1 .. n : s[i] \in S
  BY <1>1
<1>3. /\ p \in Seq(S) /\ Len(p) = IF 1 <= n THEN n - 1 + 1 ELSE 0
      /\ \A i \in 1 .. n - 1 + 1 : p[i] = s[1 + i - 1]
  BY <1>2, SubSeqProperties
<1> HIDE DEF p
<1>4. Len(p) = n
  BY <1>1, <1>3
<1>5. DOMAIN p = 1 .. n
  BY <1>3, <1>4, LenProperties
<1>6. \A i \in 1 .. n : 1 + i - 1 = i /\ i \in 1 .. n - 1 + 1 /\ i \in 1 .. Len(s)
  BY <1>1
<1>7. \A i \in DOMAIN p : p[i] = s[i] /\ i \in DOMAIN s
  BY <1>1, <1>3, <1>5, <1>6
<1>8. ToSet(p) \subseteq ToSet(s)
  BY <1>7 DEF ToSet
<1>9. Distinct(s) => Distinct(p)
  BY <1>7 DEF Distinct
<1> QED
  BY <1>3, <1>8, <1>9 DEF p

-----------------------------------------------------------------------------
(* Transcripts. *)

SoundTranscript(s, t, n, m) ==
    /\ s \in Sid /\ t \in Transcript
    /\ 0 < s.n /\ s.n < n
    /\ ToSet(t.msgs) \subseteq 1 .. m
    /\ Distinct(t.msgs)
    /\ t.msgs = <<>> \/ s.made # <<>> => t.unsigned = "no"

Sound(f, n, m) == \A s \in DOMAIN f : SoundTranscript(s, f[s], n, m)

LEMMA NoSidTyped == NoSid \in Sid
BY EmptySeq DEF NoSid, Sid

LEMMA FilesAreSound ==
    TypeOK /\ FilesSound => Sound(files, nextId, msgs) /\ NoSid \notin DOMAIN files
BY DEF TypeOK, FilesSound, Sound, SoundTranscript, NoSid

LEMMA SoundGrows ==
    ASSUME NEW s, NEW t, NEW n \in Nat, NEW m \in Nat, NEW n2 \in Nat, NEW m2 \in Nat,
           n <= n2, m <= m2, SoundTranscript(s, t, n, m)
    PROVE  SoundTranscript(s, t, n2, m2)
<1>1. s.n \in Nat
  BY DEF SoundTranscript, Sid
<1>2. s.n < n2
  BY <1>1 DEF SoundTranscript
<1>3. 1 .. m \subseteq 1 .. m2
  OBVIOUS
<1> QED
  BY <1>2, <1>3 DEF SoundTranscript

(* What prepare_resume leaves behind. *)
LEMMA AfterRepair ==
    ASSUME TypeOK, FilesSound, NEW s \in DOMAIN files \cup {NoSid}
    PROVE  /\ s = NoSid => Resumed(s) = NoSid /\ Repaired(s) = files
           /\ s # NoSid =>
                /\ Resumed(s) # NoSid
                /\ Resumed(s) = s \/ Resumed(s).made # <<>>
                /\ DOMAIN Repaired(s) = DOMAIN files \cup {Resumed(s)}
                /\ Repaired(s)[Resumed(s)].msgs = files[s].msgs
                /\ Repaired(s)[s].msgs = files[s].msgs
           /\ \A t \in DOMAIN files : t # Resumed(s) => Repaired(s)[t] = files[t]
           /\ Resumed(s) \in Sid
           /\ Sound(Repaired(s), nextId, msgs)
<1>1. Sound(files, nextId, msgs) /\ NoSid \notin DOMAIN files
  BY FilesAreSound
<1>2. CASE Resumed(s) = s
  <2>1. Repaired(s) = files
    BY <1>2 DEF Repaired
  <2>2. s \in Sid
    BY <1>1, NoSidTyped DEF Sound, SoundTranscript
  <2> QED
    BY <1>1, <1>2, <2>1, <2>2
<1>3. CASE Resumed(s) # s
  <2> DEFINE r == Resumed(s)
             copy == [msgs |-> files[s].msgs, unsigned |-> "no"]
  <2>1. s \in DOMAIN files /\ files[s].unsigned # "no" /\ r = RepairedId(s)
    BY <1>3 DEF Resumed
  <2>2. SoundTranscript(s, files[s], nextId, msgs)
    BY <1>1, <2>1 DEF Sound
  <2>3. files[s].msgs # <<>> /\ files[s].msgs \in Seq(Nat) /\ s.n \in Nat
    BY <2>1, <2>2 DEF SoundTranscript, Transcript, Sid
  <2>4. r = [n |-> s.n, made |-> files[s].msgs]
    BY <2>1 DEF RepairedId
  <2>5. r \in Sid /\ r.n = s.n /\ r.made = files[s].msgs
    BY <2>3, <2>4 DEF Sid
  <2>6. r # NoSid
    BY <2>3, <2>5 DEF NoSid
  <2>7. Repaired(s) = [t \in DOMAIN files \cup {r} |-> IF t = r THEN copy ELSE files[t]]
    BY <1>3 DEF Repaired
  <2> HIDE DEF r
  <2>8. copy \in Transcript /\ copy.msgs = files[s].msgs /\ copy.unsigned = "no"
    BY <2>3 DEF Transcript
  <2>9. SoundTranscript(r, copy, nextId, msgs)
    BY <2>2, <2>5, <2>8 DEF SoundTranscript
  <2> HIDE DEF copy
  <2>10. Repaired(s)[r] = copy /\ DOMAIN Repaired(s) = DOMAIN files \cup {r}
    BY <2>7
  <2>11. \A t \in DOMAIN files : t # r => Repaired(s)[t] = files[t]
    BY <2>7
  <2>12. Sound(Repaired(s), nextId, msgs)
    BY <1>1, <2>9, <2>10, <2>11 DEF Sound
  <2>13. Repaired(s)[s].msgs = files[s].msgs
    BY <2>1, <2>8, <2>10, <2>11
  <2>14. r.made # <<>>
    BY <2>3, <2>5
  <2> QED
    BY <2>1, <2>5, <2>6, <2>8, <2>10, <2>11, <2>12, <2>13, <2>14, <1>1 DEF r
<1> QED
  BY <1>2, <1>3

(* A transcript with one message more. *)
LEMMA AfterAppend ==
    ASSUME TypeOK, FilesSound, NEW s \in DOMAIN files, NEW e \in Nat, NEW m \in Nat,
           e \in 1 .. m, msgs <= m, e \notin ToSet(files[s].msgs), NEW f,
           DOMAIN f = DOMAIN files, \A t \in DOMAIN files \ {s} : f[t] = files[t],
           f[s].msgs = Append(files[s].msgs, e), f[s] \in Transcript,
           f[s].unsigned = files[s].unsigned \/ s.made = <<>>
    PROVE  Sound(f, nextId, m) /\ ToSet(f[s].msgs) = ToSet(files[s].msgs) \cup {e}
<1>1. Sound(files, nextId, msgs)
  BY FilesAreSound
<1>2. nextId \in Nat /\ msgs \in Nat
  BY DEF TypeOK
<1>3. \A t \in DOMAIN files : SoundTranscript(t, files[t], nextId, m)
  BY <1>1, <1>2, SoundGrows DEF Sound
<1>4. files[s].msgs \in Seq(Nat)
  BY <1>3 DEF SoundTranscript, Transcript
<1>5. /\ f[s].msgs # <<>> /\ ToSet(f[s].msgs) = ToSet(files[s].msgs) \cup {e}
      /\ Distinct(files[s].msgs) => Distinct(f[s].msgs)
  BY <1>4, OfAppend
<1>6. SoundTranscript(s, f[s], nextId, m)
  BY <1>3, <1>5 DEF SoundTranscript
<1> QED
  BY <1>3, <1>5, <1>6 DEF Sound

-----------------------------------------------------------------------------
(* Types. *)

Bubble == [of : Nat \X Nat, full : BOOLEAN]
OpenBlock == [bubble : Nat, committed : BOOLEAN]
Blocks == Seq([stopped : BOOLEAN, told : BOOLEAN])
Goal == [sid : Sid, keep : Nat, guard : Sid]

TextTyped ==
    /\ gate \in Gate
    /\ open \in OpenBlock
    /\ streamed \in Seq(Nat)
    /\ bubbles \in Seq(Bubble)
    /\ cli \in Cli

ClientTyped ==
    /\ <<nextId, msgs, client, clients, turns>> \in Nat \X Nat \X Nat \X Nat \X Nat
    /\ live \cup cutOff \subseteq 1 .. clients
    /\ connected \in BOOLEAN
    /\ sdkSid \in Sid
    /\ pc \in {"fresh", "idle", "connecting", "receiving", "cancelled"}
    /\ goal \in Goal
    /\ outcome \in {"none", "result", "failed"}

LEMMA TypeParts ==
    TypeOK <=> /\ \A s \in DOMAIN files : s \in Sid /\ files[s] \in Transcript
               /\ TextTyped /\ ClientTyped
BY DEF TypeOK, TextTyped, ClientTyped, Bubble, OpenBlock, Goal

LEMMA TypePartsNext ==
    TypeOK' <=> /\ \A s \in DOMAIN files' : s \in Sid /\ files'[s] \in Transcript
                /\ TextTyped' /\ ClientTyped'
BY DEF TypeOK, TextTyped, ClientTyped, Bubble, OpenBlock, Goal

LEMMA SoundIsTyped ==
    ASSUME NEW n, NEW m, Sound(files', n, m)
    PROVE  \A s \in DOMAIN files' : s \in Sid /\ files'[s] \in Transcript
BY DEF Sound, SoundTranscript

LEMMA MessagesBounded ==
    ASSUME TypeOK, FilesSound, NEW s
    PROVE  MessagesOf(s) \subseteq 1 .. msgs /\ MessagesOf(s) \subseteq Nat
<1>1. MessagesOf(s) \subseteq 1 .. msgs
  BY DEF FilesSound, MessagesOf
<1> QED
  BY <1>1 DEF TypeOK

LEMMA NoGateTyped ==
    /\ NoGate \in Gate /\ NoBlock \in OpenBlock /\ Fresh \in Cli
    /\ \A b \in BOOLEAN, ids \in SUBSET Nat :
        [NoGate EXCEPT !.on = b, !.ids = ids] \in Gate
<1>1. <<>> \in Seq(Nat) /\ <<>> \in Blocks
  BY EmptySeq DEF Blocks
<1>2. Fresh \in Cli
  BY <1>1, NoSidTyped DEF Fresh, Cli, Blocks
<1> QED
  BY <1>2 DEF NoGate, Gate, NoBlock, OpenBlock

(* What a query leaves behind. *)
LEMMA AfterQuery ==
    ASSUME TypeOK, FilesSound, NEW session \in Cli, NEW guard, Query(session, guard),
           Backlog(session, msgs)
    PROVE  /\ TextTyped'
           /\ pc' = "receiving"
           /\ open' = NoBlock /\ streamed' = <<>> /\ bubbles' = <<>> /\ told' = {}
           /\ cli'.sid = session.sid /\ cli'.loaded = <<>> /\ cli'.blocks = <<>> /\ ~ cli'.done
           /\ Backlog(cli', msgs)
           /\ Settled(cli') => cli'.msg = 0
           /\ cli'.todo # <<>> => cli'.owed \/ cli'.behind # 0
           /\ ~ gate'.stream /\ ~ gate'.replay /\ ~ gate'.genuine /\ ~ gate'.swallowed
<1>1. <<>> \in Seq(Nat) /\ <<>> \in Blocks /\ <<>> \in Seq(Bubble)
  BY EmptySeq DEF Blocks
<1>2. gate' = [NoGate EXCEPT !.on = MessagesOf(guard) # {}, !.ids = MessagesOf(guard)]
  BY DEF Query
<1>3. gate' \in Gate
  BY <1>2, NoGateTyped, MessagesBounded
<1>4. ~ gate'.stream /\ ~ gate'.replay /\ ~ gate'.genuine /\ ~ gate'.swallowed
  BY <1>2 DEF NoGate
<1>5. PICK replays \in BOOLEAN :
        cli' = [session EXCEPT !.loaded = <<>>,
                               !.todo = IF replays /\ @ = <<>> THEN session.loaded ELSE @,
                               !.owed = @ \/ (replays /\ session.loaded # <<>>),
                               !.behind = IF session.done THEN @ ELSE @ + 1,
                               !.msg = IF session.todo = <<>> THEN 0 ELSE @,
                               !.blocks = <<>>, !.done = FALSE]
  BY DEF Query
<1> DEFINE todo == IF replays /\ session.todo = <<>> THEN session.loaded ELSE session.todo
           owed == session.owed \/ (replays /\ session.loaded # <<>>)
           behind == IF session.done THEN session.behind ELSE session.behind + 1
           msg == IF session.todo = <<>> THEN 0 ELSE session.msg
<1>6. todo \in Seq(Nat) /\ owed \in BOOLEAN /\ behind \in Nat /\ msg \in Nat
  BY DEF Cli
<1>7. cli' = [session EXCEPT !.loaded = <<>>, !.todo = todo, !.owed = owed, !.behind = behind,
                             !.msg = msg, !.blocks = <<>>, !.done = FALSE]
  BY <1>5 DEF Cli
<1>8. session.todo # <<>> => session.owed \/ session.behind # 0 \/ ~ session.done
  BY DEF Backlog
<1>9. /\ todo # <<>> => owed \/ behind # 0
      /\ todo = <<>> => msg = 0
      /\ todo \in {session.todo, session.loaded}
  <2>1. session.behind \in Nat
    BY DEF Cli
  <2>2. session.behind + 1 # 0
    BY <2>1
  <2> QED
    BY <1>8, <2>2
<1> HIDE DEF todo, owed, behind, msg
<1>10. cli' \in Cli
  BY <1>1, <1>6, <1>7 DEF Cli, Blocks
<1>11. /\ cli'.sid = session.sid /\ cli'.loaded = <<>> /\ cli'.msg = msg /\ cli'.todo = todo
       /\ cli'.owed = owed /\ cli'.behind = behind /\ cli'.blocks = <<>> /\ ~ cli'.done
  BY <1>7 DEF Cli
<1>12. Backlog(cli', msgs)
  BY <1>9, <1>11, OfEmpty DEF Backlog
<1>13. open' = NoBlock /\ streamed' = <<>> /\ bubbles' = <<>> /\ told' = {} /\ pc' = "receiving"
  BY DEF Query
<1> QED
  BY <1>1, <1>3, <1>4, <1>9, <1>10, <1>11, <1>12, <1>13, NoGateTyped DEF TextTyped, Settled

(* What _ensure_client leaves behind. *)
LEMMA AfterConnecting ==
    ASSUME TypeOK, FilesSound, NEW s \in DOMAIN files \cup {NoSid}, NEW keep \in Nat,
           NEW guard \in DOMAIN files \cup {NoSid}, NEW lives \in SUBSET live,
           Connecting(s, keep, guard, lives)
    PROVE  /\ Sound(files', nextId, msgs) /\ DOMAIN files \subseteq DOMAIN files'
           /\ client' \in Nat /\ clients' \in Nat /\ live' \cup cutOff \subseteq 1 .. clients'
           /\ ~ connected' /\ connected' \in BOOLEAN
           /\ goal' \in Goal
           /\ \/ pc' = "idle" /\ outcome' = "failed" /\ live' = lives
              \/ /\ pc' = "connecting" /\ outcome' = "none"
                 /\ live' = lives \cup {client'} /\ client' \in 1 .. clients'
                 /\ files' = Repaired(s)
                 /\ goal'.sid = Resumed(s) /\ goal'.keep = keep /\ goal'.guard = guard
<1>1. ClientTyped /\ Sound(files, nextId, msgs)
  BY TypeParts, FilesAreSound
<1>2. clients \in Nat /\ live \cup cutOff \subseteq 1 .. clients /\ goal \in Goal
  BY <1>1 DEF ClientTyped
<1>3. CASE s \in DOMAIN files /\ files[s].unsigned = "only"
  <2>1. /\ pc' = "idle" /\ outcome' = "failed" /\ live' = lives /\ client' = 0
        /\ connected' = FALSE /\ UNCHANGED <<files, clients, goal>>
    BY <1>3 DEF Connecting
  <2> QED
    BY <1>1, <1>2, <2>1
<1>4. CASE ~ (s \in DOMAIN files /\ files[s].unsigned = "only")
  <2>1. /\ files' = Repaired(s) /\ clients' = clients + 1 /\ client' = clients + 1
        /\ live' = lives \cup {clients + 1} /\ connected' = FALSE
        /\ goal' = [sid |-> Resumed(s), keep |-> keep, guard |-> guard]
        /\ pc' = "connecting" /\ outcome' = "none"
    BY <1>4 DEF Connecting
  <2>2. /\ Sound(files', nextId, msgs) /\ DOMAIN files \subseteq DOMAIN files' /\ Resumed(s) \in Sid
    BY <2>1, AfterRepair
  <2>3. guard \in Sid
    BY <1>1, NoSidTyped DEF Sound, SoundTranscript
  <2>4. goal' \in Goal
    BY <2>1, <2>2, <2>3 DEF Goal
  <2>5. live' \cup cutOff \subseteq 1 .. clients' /\ clients' \in Nat /\ client' \in 1 .. clients'
    BY <1>2, <2>1
  <2> QED
    BY <2>1, <2>2, <2>4, <2>5
<1> QED
  BY <1>3, <1>4

(* What is queried first once connect() returns. *)
LEMMA AfterConnected ==
    ASSUME TypeOK, FilesSound, GoalKnown, Connected
    PROVE  /\ Sound(files', nextId', msgs) /\ DOMAIN files \subseteq DOMAIN files'
           /\ \A t \in DOMAIN files : files'[t] = files[t]
           /\ nextId' \in Nat /\ nextId' > 0
           /\ \E session \in Cli :
                /\ session.sid \in DOMAIN files'
                /\ Backlog(session, msgs)
                /\ \/ UNCHANGED outcome /\ \E guard : Query(session, guard)
                   \/ SlashAnswered(session)
<1> DEFINE s == goal.sid
           new == [n |-> nextId, made |-> <<>>]
           kept == IF goal.keep # 0 THEN SubSeq(files[s].msgs, 1, goal.keep) ELSE <<>>
           isNew == s = NoSid \/ goal.keep # 0
           loaded == IF isNew THEN kept ELSE files[s].msgs
           sid == IF isNew THEN new ELSE s
           session == [Fresh EXCEPT !.sid = sid, !.loaded = loaded]
<1>1. /\ ClientTyped /\ Sound(files, nextId, msgs) /\ NoSid \notin DOMAIN files
      /\ nextId \in Nat /\ msgs \in Nat /\ goal \in Goal
  BY TypeParts, FilesAreSound DEF ClientTyped
<1>2. /\ files' = IF isNew
                  THEN [t \in DOMAIN files \cup {new} |->
                          IF t = new THEN [msgs |-> kept, unsigned |-> "no"] ELSE files[t]]
                  ELSE files
      /\ nextId' = IF isNew THEN nextId + 1 ELSE nextId
      /\ msgs' = msgs /\ pc = "connecting"
  BY DEF Connected
<1>3. \/ Query(session, IF goal.guard = NoSid THEN sdkSid ELSE goal.guard) /\ UNCHANGED outcome
      \/ SlashAnswered(session)
  BY DEF Connected
<1>5. (UNCHANGED outcome /\ \E guard : Query(session, guard)) \/ SlashAnswered(session)
  BY <1>3
<1>6. s # NoSid =>
        /\ s \in DOMAIN files
        /\ goal.keep \in 0 .. Len(files[s].msgs)
        /\ files[s].msgs \in Seq(Nat) /\ Distinct(files[s].msgs)
        /\ ToSet(files[s].msgs) \subseteq 1 .. msgs
  <2> SUFFICES ASSUME s # NoSid
               PROVE  /\ s \in DOMAIN files
                      /\ goal.keep \in 0 .. Len(files[s].msgs)
                      /\ files[s].msgs \in Seq(Nat) /\ Distinct(files[s].msgs)
                      /\ ToSet(files[s].msgs) \subseteq 1 .. msgs
    OBVIOUS
  <2>1. s \in DOMAIN files /\ goal.keep <= Len(files[s].msgs)
    BY <1>2 DEF GoalKnown
  <2>2. SoundTranscript(s, files[s], nextId, msgs)
    BY <1>1, <2>1 DEF Sound
  <2>3. files[s].msgs \in Seq(Nat)
    BY <2>2 DEF SoundTranscript, Transcript
  <2>4. goal.keep \in Nat /\ Len(files[s].msgs) \in Nat
    BY <1>1, <2>3, InSeq DEF Goal
  <2> QED
    BY <2>1, <2>2, <2>3, <2>4 DEF SoundTranscript
<1>7. s = NoSid => goal.keep = 0
  BY <1>2 DEF GoalKnown
<1>8. kept \in Seq(Nat) /\ Distinct(kept) /\ ToSet(kept) \subseteq 1 .. msgs
  <2>1. CASE goal.keep # 0
    BY <1>6, <1>7, <2>1, OfPrefix
  <2>2. CASE goal.keep = 0
    BY <2>2, OfEmpty, EmptySeq
  <2> QED
    BY <2>1, <2>2
<1>9. loaded \in Seq(Nat) /\ Distinct(loaded) /\ ToSet(loaded) \subseteq 1 .. msgs
  BY <1>6, <1>8
<1>10. SoundTranscript(new, [msgs |-> kept, unsigned |-> "no"], nextId + 1, msgs)
  <2>1. new \in Sid /\ new.n = nextId
    BY <1>1, EmptySeq DEF Sid
  <2>2. nextId > 0
    BY DEF FilesSound
  <2>3. [msgs |-> kept, unsigned |-> "no"] \in Transcript
    BY <1>8 DEF Transcript
  <2> QED
    BY <1>1, <1>8, <2>1, <2>2, <2>3 DEF SoundTranscript
<1>11. new \notin DOMAIN files
  BY <1>1 DEF Sound, SoundTranscript
<1>12. \A t \in DOMAIN files : SoundTranscript(t, files[t], nextId + 1, msgs)
  BY <1>1, SoundGrows DEF Sound
<1> HIDE DEF new, kept
<1>13. Sound(files', nextId', msgs) /\ DOMAIN files \subseteq DOMAIN files' /\ sid \in DOMAIN files'
       /\ \A t \in DOMAIN files : files'[t] = files[t]
  <2>1. CASE isNew
    <3>1. /\ files' = [t \in DOMAIN files \cup {new} |->
                         IF t = new THEN [msgs |-> kept, unsigned |-> "no"] ELSE files[t]]
          /\ nextId' = nextId + 1
      BY <1>2, <2>1
    <3> QED
      BY <1>10, <1>11, <1>12, <2>1, <3>1 DEF Sound
  <2>2. CASE ~ isNew
    BY <1>1, <1>2, <1>6, <2>2 DEF Sound
  <2> QED
    BY <2>1, <2>2
<1>14. session \in Cli /\ session.sid = sid /\ session.loaded = loaded /\ session.todo = <<>>
  <2>1. sid \in Sid
    BY <1>13 DEF Sound, SoundTranscript
  <2> HIDE DEF sid, loaded
  <2> QED
    BY <1>9, <2>1, NoGateTyped DEF Cli, Fresh
<1>16. Backlog(session, msgs)
  <2> HIDE DEF session, loaded
  <2> QED
    BY <1>9, <1>14, OfEmpty DEF Backlog
<1>15. nextId' \in Nat /\ nextId' > 0
  BY <1>1, <1>2 DEF FilesSound
<1> HIDE DEF session, sid, loaded
<1> QED
  BY <1>5, <1>13, <1>14, <1>15, <1>16

(* The bubbles a text may go to are there. *)
Targets ==
    /\ open.bubble # 0 /\ ~ open.committed => open.bubble \in DOMAIN bubbles
    /\ \A i \in DOMAIN streamed : streamed[i] \in DOMAIN bubbles

LEMMA TargetsThere ==
    ASSUME TypeOK, ReplayGuarded, ReplayBubbles, AnswerMatched, pc = "receiving"
    PROVE  Targets
<1>1. CASE Behind
  BY <1>1 DEF Targets, Replaying, ReplayBubbles
<1>2. CASE ~ Behind
  BY <1>2 DEF Targets, Replied, AnswerMatched, InOrder
<1> QED
  BY <1>1, <1>2

(* Where a delivered text goes. *)
LEMMA AfterDelivery ==
    ASSUME TextTyped, Targets, NEW m \in Nat, NEW b \in Nat, Delivered(m, b), NEW full,
           full = [of |-> <<m, b>>, full |-> TRUE]
    PROVE  /\ bubbles' \in Seq(Bubble) /\ open' \in OpenBlock /\ streamed' \in Seq(Nat)
           /\ \/ /\ open.bubble # 0 /\ ~ open.committed /\ open.bubble \in DOMAIN bubbles
                 /\ DOMAIN bubbles' = DOMAIN bubbles
                 /\ \A i \in DOMAIN bubbles :
                        bubbles'[i] = IF i = open.bubble THEN full ELSE bubbles[i]
                 /\ open'.bubble = open.bubble /\ open'.committed /\ streamed' = streamed
              \/ /\ open.bubble = 0 \/ open.committed
                 /\ streamed # <<>> /\ streamed' = Tail(streamed) /\ open' = open
                 /\ Head(streamed) \in DOMAIN bubbles /\ DOMAIN bubbles' = DOMAIN bubbles
                 /\ \A i \in DOMAIN bubbles :
                        bubbles'[i] = IF i = Head(streamed) THEN full ELSE bubbles[i]
              \/ /\ open.bubble = 0 \/ open.committed
                 /\ streamed = <<>> /\ UNCHANGED <<open, streamed>>
                 /\ bubbles' = Append(bubbles, full)
                 /\ DOMAIN bubbles' = 1 .. Len(bubbles) + 1
                 /\ \A i \in DOMAIN bubbles : bubbles'[i] = bubbles[i]
                 /\ bubbles'[Len(bubbles) + 1] = full
<1>1. full \in Bubble
  BY DEF Bubble
<1>2. bubbles \in Seq(Bubble) /\ open \in OpenBlock /\ streamed \in Seq(Nat)
      /\ DOMAIN bubbles = 1 .. Len(bubbles)
  BY InSeq DEF TextTyped
<1>3. \/ /\ open.bubble # 0 /\ ~ open.committed
         /\ bubbles' = [bubbles EXCEPT ![open.bubble] = full]
         /\ open' = [open EXCEPT !.committed = TRUE]
         /\ UNCHANGED streamed
      \/ /\ open.bubble = 0 \/ open.committed
         /\ streamed # <<>>
         /\ bubbles' = [bubbles EXCEPT ![Head(streamed)] = full]
         /\ streamed' = Tail(streamed)
         /\ UNCHANGED open
      \/ /\ open.bubble = 0 \/ open.committed
         /\ streamed = <<>>
         /\ bubbles' = Append(bubbles, full)
         /\ UNCHANGED <<open, streamed>>
  BY DEF Delivered
<1>4. ASSUME NEW k \in DOMAIN bubbles, bubbles' = [bubbles EXCEPT ![k] = full]
      PROVE  /\ bubbles' \in Seq(Bubble) /\ DOMAIN bubbles' = DOMAIN bubbles
             /\ \A i \in DOMAIN bubbles : bubbles'[i] = IF i = k THEN full ELSE bubbles[i]
  BY <1>1, <1>2, <1>4, ExceptSeq
<1>5. CASE open.bubble # 0 /\ ~ open.committed
  <2>1. /\ bubbles' = [bubbles EXCEPT ![open.bubble] = full]
        /\ open' = [open EXCEPT !.committed = TRUE] /\ streamed' = streamed
    BY <1>3, <1>5
  <2>2. open.bubble \in DOMAIN bubbles
    BY <1>5 DEF Targets
  <2>3. open' \in OpenBlock /\ open'.bubble = open.bubble /\ open'.committed
    BY <1>2, <2>1 DEF OpenBlock
  <2> QED
    BY <1>2, <1>4, <1>5, <2>1, <2>2, <2>3
<1>6. CASE (open.bubble = 0 \/ open.committed) /\ streamed # <<>>
  <2>1. /\ bubbles' = [bubbles EXCEPT ![Head(streamed)] = full]
        /\ streamed' = Tail(streamed) /\ open' = open
    BY <1>3, <1>6
  <2>2. Head(streamed) \in DOMAIN bubbles
    <3>1. DOMAIN streamed = 1 .. Len(streamed) /\ Len(streamed) \in Nat /\ Len(streamed) > 0
          /\ Head(streamed) = streamed[1]
      BY <1>2, <1>6, InSeq
    <3>2. 1 \in DOMAIN streamed
      BY <3>1
    <3> QED
      BY <3>1, <3>2 DEF Targets
  <2>3. streamed' \in Seq(Nat)
    BY <1>2, <1>6, <2>1, HeadTailProperties
  <2> QED
    BY <1>2, <1>4, <1>6, <2>1, <2>2, <2>3
<1>7. CASE (open.bubble = 0 \/ open.committed) /\ streamed = <<>>
  <2>1. bubbles' = Append(bubbles, full) /\ UNCHANGED <<open, streamed>>
    BY <1>3, <1>7
  <2>2. /\ bubbles' \in Seq(Bubble)
        /\ DOMAIN bubbles' = 1 .. Len(bubbles) + 1
        /\ \A i \in DOMAIN bubbles : bubbles'[i] = bubbles[i]
        /\ bubbles'[Len(bubbles) + 1] = full
    BY <1>1, <1>2, <2>1, OfAppend
  <2> QED
    BY <1>2, <1>7, <2>1, <2>2
<1> QED
  BY <1>5, <1>6, <1>7

(* A block that starts to stream. *)
LEMMA AfterStart ==
    ASSUME TextTyped, NEW m \in Nat, NEW b \in Nat, StreamStarts(m, b)
    PROVE  /\ gate' \in Gate /\ open' \in OpenBlock /\ bubbles' \in Seq(Bubble)
           /\ gate.stream => UNCHANGED <<gate, bubbles, open>>
           /\ ~ gate.stream =>
                /\ gate'.genuine /\ ~ gate'.stream
                /\ open'.bubble = Len(bubbles) + 1 /\ ~ open'.committed
                /\ DOMAIN bubbles' = 1 .. Len(bubbles) + 1
                /\ \A i \in DOMAIN bubbles : bubbles'[i] = bubbles[i]
                /\ bubbles'[Len(bubbles) + 1] = [of |-> <<m, b>>, full |-> FALSE]
<1>1. /\ gate \in Gate /\ open \in OpenBlock /\ bubbles \in Seq(Bubble) /\ Len(bubbles) \in Nat
  BY InSeq DEF TextTyped
<1>2. CASE gate.stream
  BY <1>1, <1>2 DEF StreamStarts
<1>3. CASE ~ gate.stream
  <2>1. /\ gate' = [gate EXCEPT !.genuine = TRUE]
        /\ bubbles' = Append(bubbles, [of |-> <<m, b>>, full |-> FALSE])
        /\ open' = [bubble |-> Len(bubbles) + 1, committed |-> FALSE]
    BY <1>3 DEF StreamStarts
  <2>2. [of |-> <<m, b>>, full |-> FALSE] \in Bubble
    BY DEF Bubble
  <2>3. gate' \in Gate /\ gate'.genuine /\ gate'.stream = gate.stream
    BY <1>1, <2>1 DEF Gate
  <2>4. open' \in OpenBlock /\ open'.bubble = Len(bubbles) + 1 /\ ~ open'.committed
    BY <1>1, <2>1 DEF OpenBlock
  <2>5. /\ bubbles' \in Seq(Bubble) /\ DOMAIN bubbles' = 1 .. Len(bubbles) + 1
        /\ \A i \in DOMAIN bubbles : bubbles'[i] = bubbles[i]
        /\ bubbles'[Len(bubbles) + 1] = [of |-> <<m, b>>, full |-> FALSE]
    BY <1>1, <2>1, <2>2, OfAppend
  <2> QED
    BY <1>3, <2>3, <2>4, <2>5
<1> QED
  BY <1>2, <1>3

(* A result. *)
LEMMA AfterResult ==
    ASSUME TextTyped, Result
    PROVE  /\ gate' \in Gate /\ open' \in OpenBlock
           /\ \/ /\ gate.on /\ gate.replay /\ ~ gate.genuine /\ ~ gate.swallowed
                 /\ gate'.swallowed /\ gate'.stream = gate.stream /\ gate'.genuine = gate.genuine
                 /\ UNCHANGED <<pc, outcome, sdkSid, open>>
              \/ /\ ~ (gate.on /\ gate.replay /\ ~ gate.genuine /\ ~ gate.swallowed)
                 /\ pc' = "idle" /\ outcome' = "result" /\ sdkSid' = cli.sid
                 /\ open' = NoBlock /\ UNCHANGED gate
<1>1. gate \in Gate /\ open \in OpenBlock
  BY DEF TextTyped
<1>2. CASE gate.on /\ gate.replay /\ ~ gate.genuine /\ ~ gate.swallowed
  <2>1. gate' = [gate EXCEPT !.swallowed = TRUE] /\ UNCHANGED <<pc, outcome, sdkSid, open>>
    BY <1>2 DEF Result
  <2>2. gate' \in Gate /\ gate'.swallowed /\ gate'.stream = gate.stream /\ gate'.genuine = gate.genuine
    BY <1>1, <2>1 DEF Gate
  <2> QED
    BY <1>1, <1>2, <2>1, <2>2
<1>3. CASE ~ (gate.on /\ gate.replay /\ ~ gate.genuine /\ ~ gate.swallowed)
  BY <1>1, <1>3, NoGateTyped DEF Result
<1> QED
  BY <1>2, <1>3

-----------------------------------------------------------------------------
(* Between turns. *)

TurnInv ==
    /\ ReplayGuarded
    /\ ReplayBubbles
    /\ OwnBubbles
    /\ AnswerMatched
    /\ Shown

SessionInv ==
    /\ TypeOK
    /\ FilesSound
    /\ LiveKept
    /\ GoalKnown
    /\ CliSound

LEMMA InvParts == IInv <=> SessionInv /\ TurnInv
BY DEF IInv, SessionInv, TurnInv

(* An answer without a block of which nothing is known has nothing in order. *)
LEMMA NothingInOrder ==
    ASSUME cli'.blocks = <<>>, streamed' = <<>>, open'.bubble = 0
    PROVE  AnswerMatched'
<1>1. Len(cli'.blocks) = 0 /\ Len(streamed') = 0 /\ DOMAIN streamed' = {} /\ DOMAIN cli'.blocks = {}
  BY OfEmpty, EmptySeq
<1>2. StoppedCount' = 0
  BY <1>1 DEF StoppedCount
<1>3. InOrder(0)'
  BY <1>1, <1>2 DEF InOrder
<1>4. \E k \in 0 .. Len(cli'.blocks) : InOrder(k)'
  BY <1>1, <1>3
<1> QED
  BY <1>1, <1>4 DEF AnswerMatched

(* A turn that is over, or none yet, has nothing but what it has shown.     *)
LEMMA TurnIsOver ==
    ASSUME TurnInv, pc' # "receiving", UNCHANGED <<bubbles, told>>
    PROVE  TurnInv'
<1>1. (ReplayGuarded /\ ReplayBubbles /\ OwnBubbles /\ AnswerMatched)'
  BY DEF ReplayGuarded, ReplayBubbles, OwnBubbles, AnswerMatched, Replaying, Replied
<1>2. Shown'
  BY DEF TurnInv, Shown
<1> QED
  BY <1>1, <1>2 DEF TurnInv

(* A turn that was just asked for. *)
LEMMA TurnAsked ==
    ASSUME TypeOK, FilesSound, NEW session \in Cli, NEW guard, Query(session, guard),
           Backlog(session, msgs), msgs' = msgs
    PROVE  TurnInv' /\ CliSound'
<1>1. /\ pc' = "receiving"
      /\ open' = NoBlock /\ streamed' = <<>> /\ bubbles' = <<>> /\ told' = {}
      /\ cli'.loaded = <<>> /\ cli'.blocks = <<>> /\ ~ cli'.done
      /\ Backlog(cli', msgs)
      /\ Settled(cli') => cli'.msg = 0
      /\ cli'.todo # <<>> => cli'.owed \/ cli'.behind # 0
      /\ ~ gate'.stream /\ ~ gate'.replay /\ ~ gate'.genuine /\ ~ gate'.swallowed
  BY AfterQuery
<1>2. msgs \in Nat
  BY DEF TypeOK
<1>3. CliSound'
  BY <1>1 DEF CliSound
<1>4. Replied' => Settled(cli')
  BY <1>1 DEF Replied, Behind, Settled
<1>5. NoBlock.bubble = 0
  BY DEF NoBlock
<1>6. ReplayGuarded'
  BY <1>1, <1>4 DEF ReplayGuarded, Accounted, Settled
<1>7. ReplayBubbles'
  BY <1>1, <1>5, OfEmpty DEF ReplayBubbles
<1>8. OwnBubbles'
  BY <1>1, <1>2, <1>4, OfEmpty DEF OwnBubbles
<1>9. AnswerMatched'
  BY <1>1, <1>5, NothingInOrder
<1>10. Shown'
  BY <1>1, OfEmpty DEF Shown
<1> QED
  BY <1>3, <1>6, <1>7, <1>8, <1>9, <1>10 DEF TurnInv

(* What start(), send() without a client and edit() have in common. *)
LEMMA Connects ==
    ASSUME SessionInv, Start \/ SendConnects \/ Edit
    PROVE  /\ \E s \in DOMAIN files \cup {NoSid}, guard \in DOMAIN files \cup {NoSid},
                 keep \in Nat, lives \in SUBSET live :
                /\ Connecting(s, keep, guard, lives)
                /\ lives \subseteq cutOff
                /\ s = NoSid => keep = 0
                /\ s # NoSid => keep <= Len(files[s].msgs)
           /\ turns' \in Nat
           /\ UNCHANGED <<nextId, msgs, cutOff, sdkSid, gate, textVars, cli>>
<1>1. TypeOK /\ FilesSound /\ LiveKept
  BY DEF SessionInv
<1>2. turns \in Nat /\ sdkSid \in DOMAIN files \cup {NoSid} /\ NoSid \notin DOMAIN files
  BY <1>1, FilesAreSound DEF TypeOK, FilesSound
<1>3. \A s \in DOMAIN files : files[s].msgs \in Seq(Nat) /\ Len(files[s].msgs) \in Nat
  <2>1. \A s \in DOMAIN files : files[s].msgs \in Seq(Nat)
    BY <1>1 DEF TypeOK, Transcript
  <2> QED
    BY <2>1, InSeq
<1>4. pc = "idle" => LiveAfterClose \in SUBSET live /\ LiveAfterClose \subseteq cutOff
  BY <1>1 DEF LiveAfterClose, LiveKept, NoStrayCli
<1>5. CASE Start
  <2>1. PICK s \in DOMAIN files \cup {NoSid} : Connecting(s, 0, s, live)
    BY <1>5 DEF Start
  <2>2. live \subseteq cutOff /\ sdkSid = NoSid
    BY <1>1, <1>5 DEF Start, LiveKept
  <2>3. turns' \in Nat /\ UNCHANGED <<nextId, msgs, cutOff, sdkSid, gate, textVars, cli>>
    BY <1>2, <1>5 DEF Start
  <2>4. s # NoSid => 0 <= Len(files[s].msgs)
    BY <1>3
  <2> QED
    BY <2>1, <2>2, <2>3, <2>4
<1>6. CASE SendConnects
  <2>1. /\ Connecting(sdkSid, 0, sdkSid, LiveAfterClose) /\ pc = "idle"
        /\ turns' \in Nat /\ UNCHANGED <<nextId, msgs, cutOff, sdkSid, gate, textVars, cli>>
    BY <1>2, <1>6 DEF SendConnects
  <2>2. sdkSid # NoSid => 0 <= Len(files[sdkSid].msgs)
    BY <1>2, <1>3
  <2> QED
    BY <1>2, <1>4, <2>1, <2>2
<1>7. CASE Edit
  <2>1. /\ pc = "idle" /\ turns' \in Nat
        /\ UNCHANGED <<nextId, msgs, cutOff, sdkSid, gate, textVars, cli>>
    BY <1>2, <1>7 DEF Edit
  <2>2. CASE Connecting(NoSid, 0, sdkSid, LiveAfterClose)
    BY <1>2, <1>4, <2>1, <2>2
  <2>3. CASE /\ sdkSid \in DOMAIN files
             /\ \E keep \in 1 .. Len(files[sdkSid].msgs) :
                    Connecting(sdkSid, keep, sdkSid, LiveAfterClose)
    <3>1. PICK keep \in 1 .. Len(files[sdkSid].msgs) :
            Connecting(sdkSid, keep, sdkSid, LiveAfterClose)
      BY <2>3
    <3>2. keep \in Nat /\ keep <= Len(files[sdkSid].msgs)
      BY <1>3, <2>3
    <3> QED
      BY <1>2, <1>4, <2>1, <2>3, <3>1, <3>2
  <2> QED
    BY <1>7, <2>2, <2>3 DEF Edit
<1> QED
  BY <1>5, <1>6, <1>7

LEMMA ConnectsKeeps ==
    ASSUME SessionInv, TurnInv, Start \/ SendConnects \/ Edit
    PROVE  SessionInv' /\ TurnInv'
<1>1. /\ TypeOK /\ FilesSound /\ LiveKept /\ CliSound
      /\ TextTyped /\ ClientTyped /\ Sound(files, nextId, msgs) /\ NoSid \notin DOMAIN files
  BY TypeParts, FilesAreSound DEF SessionInv
<1>2. PICK s \in DOMAIN files \cup {NoSid}, guard \in DOMAIN files \cup {NoSid},
           keep \in Nat, lives \in SUBSET live :
        /\ Connecting(s, keep, guard, lives)
        /\ lives \subseteq cutOff
        /\ s = NoSid => keep = 0
        /\ s # NoSid => keep <= Len(files[s].msgs)
  BY Connects
<1>3. /\ turns' \in Nat
      /\ UNCHANGED <<nextId, msgs, cutOff, sdkSid, gate, textVars, cli>>
  BY Connects
<1>4. /\ Sound(files', nextId, msgs) /\ DOMAIN files \subseteq DOMAIN files'
      /\ client' \in Nat /\ clients' \in Nat /\ live' \cup cutOff \subseteq 1 .. clients'
      /\ ~ connected' /\ connected' \in BOOLEAN
      /\ goal' \in Goal
      /\ \/ pc' = "idle" /\ outcome' = "failed" /\ live' = lives
         \/ /\ pc' = "connecting" /\ outcome' = "none"
            /\ live' = lives \cup {client'} /\ client' \in 1 .. clients'
            /\ files' = Repaired(s)
            /\ goal'.sid = Resumed(s) /\ goal'.keep = keep /\ goal'.guard = guard
  BY <1>1, <1>2, AfterConnecting
<1>5. TypeOK'
  <2>1. \A t \in DOMAIN files' : t \in Sid /\ files'[t] \in Transcript
    BY <1>4, SoundIsTyped
  <2>2. TextTyped'
    BY <1>1, <1>3 DEF TextTyped, textVars
  <2>3. ClientTyped'
    BY <1>1, <1>3, <1>4 DEF ClientTyped
  <2> QED
    BY <2>1, <2>2, <2>3, TypePartsNext
<1>6. FilesSound'
  BY <1>1, <1>3, <1>4 DEF FilesSound, Sound, SoundTranscript
<1>7. LiveKept'
  BY <1>2, <1>3, <1>4 DEF LiveKept, NoStrayCli
<1>8. GoalKnown'
  <2> SUFFICES ASSUME pc' = "connecting" PROVE GoalKnown'
    BY DEF GoalKnown
  <2>1. /\ goal'.sid = Resumed(s) /\ goal'.keep = keep /\ goal'.guard = guard /\ files' = Repaired(s)
    BY <1>4
  <2>2. CASE s = NoSid
    BY <1>1, <1>2, <1>3, <1>4, <2>1, <2>2, AfterRepair DEF GoalKnown
  <2>3. CASE s # NoSid
    <3>1. /\ Resumed(s) # NoSid
          /\ Resumed(s) = s \/ Resumed(s).made # <<>>
          /\ DOMAIN files' = DOMAIN files \cup {Resumed(s)}
          /\ files'[Resumed(s)].msgs = files[s].msgs
          /\ files'[s].msgs = files[s].msgs
      BY <1>1, <2>1, <2>3, AfterRepair
    <3>2. keep <= Len(files[s].msgs) /\ s \in DOMAIN files
      BY <1>2, <2>3
    <3> QED
      BY <1>2, <1>3, <1>4, <2>1, <3>1, <3>2 DEF GoalKnown
  <2> QED
    BY <2>2, <2>3
<1>9. CliSound'
  BY <1>1, <1>3, <1>4 DEF CliSound
<1>10. TurnInv'
  BY <1>3, <1>4, TurnIsOver DEF textVars
<1> QED
  BY <1>5, <1>6, <1>7, <1>8, <1>9, <1>10 DEF SessionInv

LEMMA ConnectedKeeps ==
    ASSUME SessionInv, TurnInv, Connected
    PROVE  SessionInv' /\ TurnInv'
<1>1. /\ TypeOK /\ FilesSound /\ LiveKept /\ GoalKnown
      /\ TextTyped /\ ClientTyped /\ NoSid \notin DOMAIN files
  BY TypeParts, FilesAreSound DEF SessionInv
<1>2. /\ pc = "connecting" /\ connected' = TRUE
      /\ UNCHANGED <<msgs, live, client, clients, cutOff, sdkSid, goal, turns>>
  BY DEF Connected
<1>3. /\ Sound(files', nextId', msgs) /\ DOMAIN files \subseteq DOMAIN files'
      /\ \A t \in DOMAIN files : files'[t] = files[t]
      /\ nextId' \in Nat /\ nextId' > 0
  BY <1>1, AfterConnected
<1>4. PICK session \in Cli :
        /\ session.sid \in DOMAIN files'
        /\ Backlog(session, msgs)
        /\ \/ UNCHANGED outcome /\ \E guard : Query(session, guard)
           \/ SlashAnswered(session)
  BY <1>1, AfterConnected
<1>5. /\ TextTyped' /\ TurnInv' /\ CliSound' /\ cli'.sid = session.sid
      /\ \/ pc' = "receiving" /\ UNCHANGED outcome
         \/ pc' = "idle" /\ outcome' = "none"
  <2>1. CASE UNCHANGED outcome /\ \E guard : Query(session, guard)
    <3>1. PICK guard : Query(session, guard)
      BY <2>1
    <3> QED
      BY <1>1, <1>2, <1>4, <2>1, <3>1, AfterQuery, TurnAsked
  <2>2. CASE SlashAnswered(session)
    <3>1. /\ cli' = session /\ pc' = "idle" /\ outcome' = "none"
          /\ UNCHANGED <<gate, open, streamed, bubbles, told>>
      BY <2>2 DEF SlashAnswered, textVars
    <3>2. TextTyped'
      BY <1>1, <3>1 DEF TextTyped
    <3>3. TurnInv'
      BY <3>1, TurnIsOver
    <3>4. CliSound'
      BY <1>2, <1>4, <3>1 DEF CliSound
    <3> QED
      BY <3>1, <3>2, <3>3, <3>4
  <2> QED
    BY <1>4, <2>1, <2>2
<1>6. TypeOK'
  <2>1. \A t \in DOMAIN files' : t \in Sid /\ files'[t] \in Transcript
    BY <1>3, SoundIsTyped
  <2>2. ClientTyped'
    BY <1>1, <1>2, <1>3, <1>5 DEF ClientTyped
  <2> QED
    BY <1>5, <2>1, <2>2, TypePartsNext
<1>7. FilesSound'
  <2>1. {sdkSid', cli'.sid} \subseteq DOMAIN files' \cup {NoSid}
    BY <1>1, <1>2, <1>3, <1>4, <1>5 DEF FilesSound
  <2>2. msgs' = msgs
    BY <1>2
  <2> QED
    BY <1>3, <2>1, <2>2 DEF FilesSound, Sound, SoundTranscript
<1>8. LiveKept'
  BY <1>1, <1>2, <1>5 DEF LiveKept, NoStrayCli
<1>9. GoalKnown'
  BY <1>5 DEF GoalKnown
<1> QED
  BY <1>5, <1>6, <1>7, <1>8, <1>9 DEF SessionInv

(* The end of a connect, of a CLI, of a turn that is cancelled, and close() *)
(* leave the transcripts and what was shown as they are.                    *)
LEMMA LeavesKeep ==
    ASSUME SessionInv, TurnInv, ConnectEnds \/ CliDies \/ Cancel \/ Close
    PROVE  SessionInv' /\ TurnInv'
<1>1. /\ TypeOK /\ FilesSound /\ LiveKept /\ GoalKnown /\ CliSound
      /\ TextTyped /\ ClientTyped
  BY TypeParts DEF SessionInv
<1>2. /\ UNCHANGED <<files, nextId, msgs, clients, goal, turns, gate, open, streamed, bubbles, told,
                     cli>>
      /\ pc' \in {"idle", "cancelled", "fresh"}
  BY DEF ConnectEnds, CliDies, Cancel, Close, fileVars, clientVars, textVars
<1>3. /\ live' \subseteq live
      /\ cutOff' = cutOff \/ (pc = "connecting" /\ cutOff' = cutOff \cup {client})
      /\ client' \in {client, 0}
      /\ sdkSid' = sdkSid \/ (sdkSid' = NoSid /\ ~ connected')
      /\ outcome' = "failed" \/ (pc' = "fresh" /\ outcome' = outcome)
  <2>1. CASE ConnectEnds
    BY <2>1 DEF ConnectEnds
  <2>2. CASE CliDies
    BY <2>2 DEF CliDies
  <2>3. CASE Cancel
    BY <2>3 DEF Cancel, clientVars
  <2>4. CASE Close
    BY <2>4 DEF Close, LiveAfterClose
  <2> QED
    BY <2>1, <2>2, <2>3, <2>4
<1>4. LiveKept'
  <2>1. CASE ConnectEnds
    BY <1>1, <2>1 DEF ConnectEnds, LiveKept, NoStrayCli
  <2>2. CASE CliDies
    BY <1>1, <2>2 DEF CliDies, LiveKept, NoStrayCli
  <2>3. CASE Cancel
    BY <1>1, <2>3 DEF Cancel, LiveKept, NoStrayCli, clientVars
  <2>4. CASE Close
    BY <1>1, <2>4 DEF Close, LiveKept, NoStrayCli, LiveAfterClose
  <2> QED
    BY <2>1, <2>2, <2>3, <2>4
<1>5. live' \cup cutOff' \subseteq 1 .. clients'
  <2>1. CASE ConnectEnds
    <3>1. client \in 1 .. clients
      BY <1>1, <2>1 DEF ConnectEnds, LiveKept
    <3> QED
      BY <1>1, <1>2, <1>3, <3>1 DEF ClientTyped
  <2>2. CASE ~ ConnectEnds
    BY <1>1, <1>2, <1>3, <2>2 DEF ClientTyped, CliDies, Cancel, Close, clientVars
  <2> QED
    BY <2>1, <2>2
<1>6. TypeOK'
  <2>1. \A t \in DOMAIN files' : t \in Sid /\ files'[t] \in Transcript
    BY <1>1, <1>2 DEF TypeOK
  <2>2. TextTyped'
    BY <1>1, <1>2 DEF TextTyped
  <2>3. connected' \in BOOLEAN
    BY <1>1 DEF ClientTyped, ConnectEnds, CliDies, Cancel, Close, clientVars
  <2>4. client' \in Nat /\ sdkSid' \in Sid /\ outcome' \in {"none", "result", "failed"}
    BY <1>1, <1>3, NoSidTyped DEF ClientTyped
  <2>5. ClientTyped'
    BY <1>1, <1>2, <1>5, <2>3, <2>4 DEF ClientTyped
  <2> QED
    BY <2>1, <2>2, <2>5, TypePartsNext
<1>7. FilesSound'
  BY <1>1, <1>2, <1>3 DEF FilesSound
<1>8. GoalKnown'
  BY <1>2 DEF GoalKnown
<1>9. CliSound'
  BY <1>1, <1>2 DEF CliSound
<1>10. TurnInv'
  BY <1>2, TurnIsOver
<1> QED
  BY <1>4, <1>6, <1>7, <1>8, <1>9, <1>10 DEF SessionInv

LEMMA SendKeeps ==
    ASSUME SessionInv, TurnInv, Send
    PROVE  SessionInv' /\ TurnInv'
<1>1. /\ TypeOK /\ FilesSound /\ LiveKept /\ GoalKnown /\ CliSound
      /\ TextTyped /\ ClientTyped /\ cli \in Cli
  BY TypeParts DEF SessionInv, TextTyped
<1>2. /\ pc = "idle" /\ connected /\ turns' = turns + 1
      /\ UNCHANGED <<files, nextId, msgs, live, clients, cutOff, sdkSid, goal>>
  BY DEF Send, fileVars
<1>3. \/ Query(cli, sdkSid) /\ outcome' = "none" /\ UNCHANGED <<client, connected>>
      \/ SlashAnswered(cli) /\ UNCHANGED <<client, connected>>
      \/ /\ client \notin live /\ outcome' = "failed" /\ client' = 0 /\ connected' = FALSE
         /\ UNCHANGED <<pc, gate, textVars, cli>>
  BY DEF Send
<1>4. /\ TextTyped' /\ TurnInv' /\ CliSound' /\ cli'.sid = cli.sid
      /\ pc' \in {"receiving", "idle"}
      /\ outcome' \in {"none", "failed"}
  <2>1. CASE Query(cli, sdkSid) /\ outcome' = "none"
    <3>1. Backlog(cli, msgs)
      BY <1>1 DEF CliSound
    <3> QED
      BY <1>1, <1>2, <2>1, <3>1, AfterQuery, TurnAsked
  <2>2. ASSUME pc' = "idle", outcome' \in {"none", "failed"},
               UNCHANGED <<gate, open, streamed, bubbles, told, cli>>
        PROVE  TextTyped' /\ TurnInv' /\ CliSound' /\ cli'.sid = cli.sid
    <3>1. TextTyped'
      BY <1>1, <2>2 DEF TextTyped
    <3>2. TurnInv'
      BY <2>2, TurnIsOver
    <3>3. CliSound'
      BY <1>1, <1>2, <2>2 DEF CliSound
    <3> QED
      BY <2>2, <3>1, <3>2, <3>3
  <2>3. CASE SlashAnswered(cli)
    <3>1. /\ pc' = "idle" /\ outcome' = "none"
          /\ UNCHANGED <<gate, open, streamed, bubbles, told, cli>>
      BY <2>3 DEF SlashAnswered, textVars
    <3> QED
      BY <2>2, <3>1
  <2>4. CASE outcome' = "failed" /\ UNCHANGED <<pc, gate, textVars, cli>>
    <3>1. pc' = "idle" /\ UNCHANGED <<gate, open, streamed, bubbles, told, cli>>
      BY <1>2, <2>4 DEF textVars
    <3> QED
      BY <2>2, <2>4, <3>1
  <2> QED
    BY <1>3, <2>1, <2>3, <2>4
<1>5. TypeOK'
  <2>1. \A t \in DOMAIN files' : t \in Sid /\ files'[t] \in Transcript
    BY <1>1, <1>2 DEF TypeOK
  <2>2. client' \in {client, 0} /\ client' \in Nat
    BY <1>1, <1>3 DEF ClientTyped
  <2>3. connected' \in BOOLEAN
    BY <1>1, <1>3 DEF ClientTyped
  <2>4. ClientTyped'
    BY <1>1, <1>2, <1>4, <2>2, <2>3 DEF ClientTyped
  <2> QED
    BY <1>4, <2>1, <2>4, TypePartsNext
<1>6. FilesSound'
  BY <1>1, <1>2, <1>4 DEF FilesSound
<1>7. LiveKept'
  <2>1. CASE UNCHANGED <<client, connected>>
    BY <1>1, <1>2, <1>4, <2>1 DEF LiveKept, NoStrayCli
  <2>2. CASE client \notin live
    BY <1>1, <1>2, <1>4, <2>2 DEF LiveKept, NoStrayCli
  <2> QED
    BY <1>3, <2>1, <2>2
<1>8. GoalKnown'
  BY <1>4 DEF GoalKnown
<1> QED
  BY <1>4, <1>5, <1>6, <1>7, <1>8 DEF SessionInv

LEMMA OtherAppendsKeeps ==
    ASSUME SessionInv, TurnInv, NEW s \in DOMAIN files, OtherAppends(s)
    PROVE  SessionInv' /\ TurnInv'
<1>1. /\ TypeOK /\ FilesSound /\ LiveKept /\ GoalKnown /\ CliSound
      /\ TextTyped /\ ClientTyped /\ Sound(files, nextId, msgs)
  BY TypeParts, FilesAreSound DEF SessionInv
<1>2. /\ s.made = <<>> /\ msgs' = msgs + 1
      /\ UNCHANGED <<nextId, live, client, clients, connected, cutOff, sdkSid, pc, goal, turns,
                     outcome, gate, open, streamed, bubbles, told, cli>>
  BY DEF OtherAppends, clientVars, textVars
<1>3. PICK u \in {"no", "some"} :
        files' = [files EXCEPT ![s].msgs = Append(@, msgs + 1),
                               ![s].unsigned = IF @ = "no" THEN u ELSE @]
  BY DEF OtherAppends
<1>4. msgs \in Nat /\ msgs' \in Nat /\ msgs <= msgs' /\ 1 .. msgs \subseteq 1 .. msgs'
  BY <1>1, <1>2 DEF ClientTyped
<1>5. /\ SoundTranscript(s, files[s], nextId, msgs) /\ files[s] \in Transcript
      /\ files[s].msgs \in Seq(Nat)
  BY <1>1 DEF Sound, SoundTranscript, Transcript
<1>6. /\ DOMAIN files' = DOMAIN files
      /\ \A t \in DOMAIN files \ {s} : files'[t] = files[t]
      /\ files'[s].msgs = Append(files[s].msgs, msgs + 1)
      /\ files'[s] \in Transcript
  <2>1. DOMAIN files' = DOMAIN files /\ \A t \in DOMAIN files \ {s} : files'[t] = files[t]
    BY <1>3
  <2>2. files'[s] = [files[s] EXCEPT !.msgs = Append(@, msgs + 1),
                                     !.unsigned = IF @ = "no" THEN u ELSE @]
    BY <1>3
  <2>3. Append(files[s].msgs, msgs + 1) \in Seq(Nat)
    BY <1>4, <1>5, OfAppend
  <2>4. (IF files[s].unsigned = "no" THEN u ELSE files[s].unsigned) \in {"no", "some", "only"}
    BY <1>5 DEF Transcript
  <2>5. files'[s] \in Transcript /\ files'[s].msgs = Append(files[s].msgs, msgs + 1)
    BY <1>5, <2>2, <2>3, <2>4 DEF Transcript
  <2> QED
    BY <2>1, <2>5
<1>7. msgs + 1 \notin ToSet(files[s].msgs) /\ msgs + 1 \in 1 .. msgs + 1
  BY <1>4, <1>5 DEF SoundTranscript
<1>8. /\ Sound(files', nextId, msgs')
      /\ ToSet(files'[s].msgs) = ToSet(files[s].msgs) \cup {msgs + 1}
  BY <1>1, <1>2, <1>4, <1>6, <1>7, AfterAppend
<1>9. TypeOK'
  <2>1. \A t \in DOMAIN files' : t \in Sid /\ files'[t] \in Transcript
    BY <1>8, SoundIsTyped
  <2>2. TextTyped'
    BY <1>1, <1>2 DEF TextTyped
  <2>3. ClientTyped'
    BY <1>1, <1>2, <1>4 DEF ClientTyped
  <2> QED
    BY <2>1, <2>2, <2>3, TypePartsNext
<1>10. FilesSound'
  BY <1>1, <1>2, <1>6, <1>8 DEF FilesSound, Sound, SoundTranscript
<1>11. LiveKept'
  BY <1>1, <1>2 DEF LiveKept, NoStrayCli
<1>12. GoalKnown'
  <2> SUFFICES ASSUME pc = "connecting", goal.sid # NoSid
               PROVE  goal.sid \in DOMAIN files' /\ goal.keep <= Len(files'[goal.sid].msgs)
    BY <1>1, <1>2 DEF GoalKnown
  <2>1. goal.sid \in DOMAIN files /\ goal.keep <= Len(files[goal.sid].msgs)
    BY <1>1 DEF GoalKnown
  <2>3. goal.keep <= Len(files'[goal.sid].msgs)
    <3>1. CASE goal.sid = s
      <4>1. Len(files'[s].msgs) = Len(files[s].msgs) + 1
        BY <1>4, <1>5, <1>6, OfAppend
      <4>2. goal.keep \in Nat /\ Len(files[s].msgs) \in Nat
        BY <1>1, <1>5, InSeq DEF ClientTyped, Goal
      <4> QED
        BY <2>1, <3>1, <4>1, <4>2
    <3>2. CASE goal.sid # s
      BY <1>6, <2>1, <3>2
    <3> QED
      BY <3>1, <3>2
  <2> QED
    BY <1>6, <2>1, <2>3
<1>13. CliSound'
  BY <1>1, <1>2, <1>4 DEF CliSound, Backlog
<1>14. TurnInv'
  <2>1. Behind' <=> Behind
    BY <1>2 DEF Behind
  <2>2. ReplayGuarded'
    BY <1>2, <2>1 DEF TurnInv, ReplayGuarded, Replaying, Replied, Accounted
  <2>3. ReplayBubbles'
    BY <1>2, <1>4, <2>1 DEF TurnInv, ReplayBubbles, Replaying
  <2>4. OwnBubbles'
    BY <1>2, <1>4, <2>1 DEF TurnInv, OwnBubbles, Replied
  <2>5. AnswerMatched'
    BY <1>2, <2>1 DEF TurnInv, AnswerMatched, Replied, InOrder, StoppedCount
  <2>6. Shown'
    BY <1>2 DEF TurnInv, Shown
  <2> QED
    BY <2>2, <2>3, <2>4, <2>5, <2>6 DEF TurnInv
<1> QED
  BY <1>9, <1>10, <1>11, <1>12, <1>13, <1>14 DEF SessionInv

-----------------------------------------------------------------------------
(* A turn that receives. *)

(* What the steps of a turn that receives do to what is between turns.      *)
LEMMA ReceivingKeeps ==
    ASSUME SessionInv, Receiving, Kept, TextTyped', Sound(files', nextId', msgs'),
           DOMAIN files \subseteq DOMAIN files', nextId' \in Nat, nextId' > 0,
           msgs' \in Nat, msgs <= msgs',
           sdkSid' \in {sdkSid, cli.sid}, cli'.sid = cli.sid, cli'.loaded = cli.loaded,
           Settled(cli') \/ Backlog(cli', msgs'), pc' = "receiving" => ~ cli'.done,
           pc' \in {"receiving", "idle"}, outcome' \in {outcome, "result", "failed"}
    PROVE  SessionInv'
<1>1. /\ TypeOK /\ FilesSound /\ LiveKept /\ CliSound /\ TextTyped /\ ClientTyped
  BY TypeParts DEF SessionInv
<1>2. /\ pc = "receiving" /\ cli.loaded = <<>>
      /\ UNCHANGED <<live, client, clients, connected, cutOff, goal, turns>>
  BY <1>1 DEF Receiving, Kept, clientVars, CliSound
<1>3. TypeOK'
  <2>1. \A t \in DOMAIN files' : t \in Sid /\ files'[t] \in Transcript
    BY SoundIsTyped
  <2>2. cli.sid \in Sid
    BY <1>1 DEF TextTyped, Cli
  <2>3. ClientTyped'
    BY <1>1, <1>2, <2>2 DEF ClientTyped
  <2> QED
    BY <2>1, <2>3, TypePartsNext
<1>4. FilesSound'
  <2>1. {sdkSid', cli'.sid} \subseteq DOMAIN files' \cup {NoSid}
    BY <1>1 DEF FilesSound
  <2> QED
    BY <2>1 DEF FilesSound, Sound, SoundTranscript
<1>5. LiveKept'
  BY <1>1, <1>2 DEF LiveKept, NoStrayCli
<1>6. GoalKnown'
  BY DEF GoalKnown
<1>7. CliSound'
  <2>1. Settled(cli') => Backlog(cli', msgs')
    BY <1>2, OfEmpty DEF Settled, Backlog
  <2> QED
    BY <1>2, <2>1 DEF CliSound
<1> QED
  BY <1>3, <1>4, <1>5, <1>6, <1>7 DEF SessionInv

(* The steps of the CLI that leave the transcripts alone.                   *)
LEMMA ReceivingKeepsFiles ==
    ASSUME SessionInv, Receiving, Kept, TextTyped', UNCHANGED fileVars,
           sdkSid' \in {sdkSid, cli.sid}, cli'.sid = cli.sid, cli'.loaded = cli.loaded,
           Settled(cli') \/ Backlog(cli', msgs), pc' = "receiving" => ~ cli'.done,
           pc' \in {"receiving", "idle"}, outcome' \in {outcome, "result", "failed"}
    PROVE  SessionInv'
<1>1. /\ UNCHANGED <<files, nextId, msgs>> /\ Sound(files, nextId, msgs)
      /\ nextId \in Nat /\ msgs \in Nat /\ nextId > 0
  BY FilesAreSound DEF SessionInv, fileVars, TypeOK, FilesSound
<1> QED
  BY <1>1, ReceivingKeeps

LEMMA ReceivingFacts ==
    ASSUME SessionInv, TurnInv, Receiving, Kept
    PROVE  /\ TypeOK /\ FilesSound /\ TextTyped /\ msgs \in Nat /\ cli \in Cli /\ gate \in Gate
           /\ pc = "receiving" /\ Targets
           /\ Backlog(cli, msgs) /\ cli.loaded = <<>> /\ ~ cli.done
           /\ cli.todo \in Seq(Nat) /\ cli.blocks \in Blocks /\ cli.owed \in BOOLEAN
           /\ cli.behind \in Nat /\ cli.msg \in Nat
           /\ bubbles \in Seq(Bubble) /\ DOMAIN bubbles = 1 .. Len(bubbles) /\ Len(bubbles) \in Nat
           /\ open \in OpenBlock /\ open.bubble \in Nat
           /\ streamed \in Seq(Nat)
           /\ ReplayGuarded /\ ReplayBubbles /\ OwnBubbles /\ AnswerMatched /\ Shown
<1>1. /\ TypeOK /\ FilesSound /\ TextTyped /\ CliSound
      /\ ReplayGuarded /\ ReplayBubbles /\ OwnBubbles /\ AnswerMatched /\ Shown
      /\ pc = "receiving"
  BY TypeParts DEF SessionInv, TurnInv, Receiving
<1>2. /\ cli \in Cli /\ gate \in Gate /\ bubbles \in Seq(Bubble) /\ open \in OpenBlock
      /\ streamed \in Seq(Nat)
  BY <1>1 DEF TextTyped
<1>3. /\ cli.todo \in Seq(Nat) /\ cli.blocks \in Blocks /\ cli.owed \in BOOLEAN
      /\ cli.behind \in Nat /\ cli.msg \in Nat /\ open.bubble \in Nat
  BY <1>2 DEF Cli, Blocks, OpenBlock
<1>4. DOMAIN bubbles = 1 .. Len(bubbles) /\ Len(bubbles) \in Nat
  BY <1>2, InSeq
<1>5. Backlog(cli, msgs) /\ cli.loaded = <<>> /\ ~ cli.done
  BY <1>1 DEF CliSound
<1>6. Targets
  BY <1>1, TargetsThere
<1>7. msgs \in Nat
  BY <1>1 DEF TypeOK
<1> QED
  BY <1>1, <1>2, <1>3, <1>4, <1>5, <1>6, <1>7

LEMMA OfOne ==
    ASSUME NEW e \in Nat
    PROVE  <<e>> \in Seq(Nat) /\ ToSet(<<e>>) = {e} /\ Distinct(<<e>>)
<1> DEFINE one == Append(<<>>, e)
<1>1. <<e>> = one
  OBVIOUS
<1>2. <<>> \in Seq(Nat)
  BY EmptySeq
<1>3. /\ \A s \in Seq(Nat) : Append(s, e) \in Seq(Nat) /\ ToSet(Append(s, e)) = ToSet(s) \cup {e}
      /\ \A s \in Seq(Nat) : Distinct(s) /\ e \notin ToSet(s) => Distinct(Append(s, e))
  BY OfAppend
<1>4. one \in Seq(Nat) /\ ToSet(one) = {e} /\ Distinct(one)
  BY <1>2, <1>3, OfEmpty
<1> HIDE DEF one
<1> QED
  BY <1>1, <1>4

LEMMA PastResultTyped ==
    ASSUME cli \in Cli, Behind, cli' = PastResult
    PROVE  /\ cli' \in Cli /\ cli'.msg = 0 /\ cli'.todo = cli.todo /\ cli'.done = cli.done
           /\ cli'.blocks = cli.blocks /\ cli'.sid = cli.sid /\ cli'.loaded = cli.loaded
<1>1. CASE cli.owed
  <2>1. cli' = [cli EXCEPT !.owed = FALSE, !.msg = 0]
    BY <1>1 DEF PastResult
  <2>2. cli' \in Cli
    <3>1. FALSE \in BOOLEAN /\ 0 \in Nat
      OBVIOUS
    <3> QED
      BY <2>1, <3>1 DEF Cli
  <2>3. /\ cli'.msg = 0 /\ cli'.todo = cli.todo /\ cli'.done = cli.done
        /\ cli'.blocks = cli.blocks /\ cli'.sid = cli.sid /\ cli'.loaded = cli.loaded
    BY <2>1 DEF Cli
  <2> QED
    BY <2>2, <2>3
<1>2. CASE ~ cli.owed
  <2>1. cli' = [cli EXCEPT !.behind = @ - 1, !.msg = 0]
    BY <1>2 DEF PastResult
  <2>2. cli.behind - 1 \in Nat
    BY <1>2 DEF Cli, Behind
  <2>3. cli' \in Cli
    <3> DEFINE b == cli.behind - 1
    <3>1. cli' = [cli EXCEPT !.behind = b, !.msg = 0] /\ b \in Nat /\ 0 \in Nat
      BY <2>1, <2>2
    <3> HIDE DEF b
    <3> QED
      BY <3>1 DEF Cli
  <2>4. /\ cli'.msg = 0 /\ cli'.todo = cli.todo /\ cli'.done = cli.done
        /\ cli'.blocks = cli.blocks /\ cli'.sid = cli.sid /\ cli'.loaded = cli.loaded
    BY <2>1 DEF Cli
  <2> QED
    BY <2>3, <2>4
<1> QED
  BY <1>1, <1>2

(* Once the CLI answers, nothing comes before that.                         *)
LEMMA AnswerSettled ==
    ASSUME SessionInv, TurnInv, Answering
    PROVE  Replied /\ Settled(cli) /\ Accounted(gate) /\ ~ cli.done
<1>1. pc = "receiving" /\ ~ Behind /\ ~ cli.done
  BY DEF Answering, Receiving
<1>2. ReplayGuarded
  BY DEF TurnInv
<1>3. ~ cli.owed /\ cli.behind = 0
  BY <1>1 DEF Behind
<1> QED
  BY <1>1, <1>2, <1>3 DEF Replied, ReplayGuarded, Settled

(* While the CLI replays nothing is said of an answer.                      *)
LEMMA StillReplays ==
    ASSUME Behind', ReplayGuarded', ReplayBubbles', Shown'
    PROVE  TurnInv'
<1>1. OwnBubbles' /\ AnswerMatched'
  BY DEF OwnBubbles, AnswerMatched, Replied
<1> QED
  BY <1>1 DEF TurnInv

(* What comes before the answer is there only while a result is to come.    *)
LEMMA ReplayFacts ==
    ASSUME SessionInv, TurnInv, Receiving, cli.todo # <<>>, NEW h, h = Head(cli.todo)
    PROVE  /\ Replaying /\ Behind
           /\ told = {} /\ cli.blocks = <<>>
           /\ ~ gate.genuine => bubbles = <<>> /\ open = NoBlock /\ streamed = <<>>
           /\ h \in 1 .. msgs /\ h \in Nat /\ h \in ToSet(cli.todo)
           /\ \A i \in DOMAIN bubbles : bubbles[i].of[1] \in 1 .. msgs
           /\ \A i \in DOMAIN bubbles :
                bubbles[i].of[1] \in ToSet(cli.todo) => i = open.bubble /\ ~ open.committed
           /\ open.bubble # 0 /\ ~ open.committed =>
                open.bubble \in DOMAIN bubbles /\ bubbles[open.bubble].of = <<h, 1>>
           /\ \A i \in DOMAIN streamed : streamed[i] \in DOMAIN bubbles
<1>1. /\ pc = "receiving" /\ ReplayGuarded /\ ReplayBubbles /\ CliSound
      /\ cli.todo \in Seq(Nat) /\ msgs \in Nat
  BY DEF SessionInv, TurnInv, Receiving, TypeOK, Cli
<1>2. Replaying /\ Behind
  BY <1>1 DEF ReplayGuarded, Replaying, Replied
<1>3. h \in ToSet(cli.todo)
  BY <1>1, InSeq
<1>4. h \in 1 .. msgs
  BY <1>1, <1>3 DEF CliSound, Backlog
<1> QED
  BY <1>1, <1>2, <1>3, <1>4 DEF ReplayGuarded, ReplayBubbles

LEMMA ReplayStreamsKeeps ==
    ASSUME SessionInv, TurnInv, ReplayStreams
    PROVE  SessionInv' /\ TurnInv'
<1>1. /\ Receiving /\ Kept /\ cli.todo # <<>>
      /\ UNCHANGED fileVars /\ UNCHANGED <<sdkSid, pc, outcome, open, bubbles, told>>
  BY DEF ReplayStreams
<1>2. /\ TextTyped /\ cli \in Cli /\ gate \in Gate /\ pc = "receiving"
      /\ cli.todo \in Seq(Nat) /\ streamed \in Seq(Nat)
      /\ Backlog(cli, msgs) /\ ~ cli.done
      /\ ReplayBubbles /\ Shown
  BY <1>1, ReceivingFacts
<1> DEFINE h == Head(cli.todo)
           known == gate.on /\ h \in gate.ids
<1>3. /\ gate' = [gate EXCEPT !.stream = known, !.replay = @ \/ known]
      /\ streamed' = IF known THEN streamed ELSE <<>>
      /\ cli' = [cli EXCEPT !.msg = h]
  BY DEF ReplayStreams
<1>4. /\ h \in Nat /\ Behind /\ told = {} /\ cli.blocks = <<>>
      /\ ~ gate.genuine => bubbles = <<>> /\ open = NoBlock /\ streamed = <<>>
  BY <1>1, ReplayFacts
<1>5. /\ cli' \in Cli /\ cli'.todo = cli.todo /\ cli'.owed = cli.owed
      /\ cli'.behind = cli.behind /\ cli'.done = cli.done
      /\ cli'.blocks = cli.blocks /\ cli'.sid = cli.sid /\ cli'.loaded = cli.loaded
  BY <1>2, <1>3, <1>4 DEF Cli
<1>6. known \in BOOLEAN /\ (gate.replay \/ known) \in BOOLEAN
  OBVIOUS
<1> HIDE DEF h, known
<1>7. gate' \in Gate /\ gate'.genuine = gate.genuine
  BY <1>2, <1>3, <1>6 DEF Gate
<1>8. streamed' \in {streamed, <<>>} /\ streamed' \in Seq(Nat)
  BY <1>2, <1>3, EmptySeq
<1>9. TextTyped'
  BY <1>1, <1>2, <1>5, <1>7, <1>8 DEF TextTyped
<1>10. Behind' /\ Backlog(cli', msgs) /\ msgs' = msgs
  BY <1>1, <1>2, <1>4, <1>5 DEF Behind, Backlog, fileVars
<1>11. ReplayGuarded'
  BY <1>1, <1>4, <1>5, <1>7, <1>8, <1>10 DEF ReplayGuarded, Replaying, Replied
<1>12. ReplayBubbles'
  <2>1. Replaying
    BY <1>2, <1>4 DEF Replaying
  <2>2. \A i \in DOMAIN streamed' : streamed'[i] \in DOMAIN bubbles
    BY <1>2, <1>8, <2>1, OfEmpty DEF ReplayBubbles
  <2> QED
    BY <1>1, <1>2, <1>5, <1>10, <2>1, <2>2 DEF ReplayBubbles
<1>13. Shown'
  BY <1>1, <1>2 DEF Shown
<1>14. TurnInv'
  BY <1>10, <1>11, <1>12, <1>13, StillReplays
<1> QED
  BY <1>1, <1>2, <1>5, <1>9, <1>10, <1>14, ReceivingKeepsFiles

(* One bubble more, which is no other's. *)
LEMMA OneMore ==
    ASSUME Shown, DOMAIN bubbles = 1 .. Len(bubbles), Len(bubbles) \in Nat,
           DOMAIN bubbles' = 1 .. Len(bubbles) + 1,
           \A i \in DOMAIN bubbles : bubbles'[i] = bubbles[i],
           \A i \in DOMAIN bubbles : bubbles[i].of # bubbles'[Len(bubbles) + 1].of,
           \A x \in told' \ told : bubbles'[Len(bubbles) + 1] = [of |-> x, full |-> TRUE]
    PROVE  Shown'
<1> DEFINE last == Len(bubbles) + 1
<1>1. /\ last \in DOMAIN bubbles' /\ last \notin DOMAIN bubbles
      /\ DOMAIN bubbles' = DOMAIN bubbles \cup {last}
  OBVIOUS
<1>2. /\ \A x \in told' \ told : bubbles'[last] = [of |-> x, full |-> TRUE]
      /\ \A i \in DOMAIN bubbles : bubbles[i].of # bubbles'[last].of
  OBVIOUS
<1> HIDE DEF last
<1>3. ASSUME NEW y \in told'
      PROVE  \E i \in DOMAIN bubbles' : bubbles'[i] = [of |-> y, full |-> TRUE]
  <2>1. CASE y \in told
    <3>1. PICK i \in DOMAIN bubbles : bubbles[i] = [of |-> y, full |-> TRUE]
      BY <2>1 DEF Shown
    <3>2. i \in DOMAIN bubbles' /\ bubbles'[i] = [of |-> y, full |-> TRUE]
      BY <1>1, <3>1
    <3> QED
      BY <3>2
  <2>2. CASE y \notin told
    BY <1>1, <1>2, <1>3, <2>2
  <2> QED
    BY <2>1, <2>2
<1>4. ASSUME NEW i \in DOMAIN bubbles', NEW j \in DOMAIN bubbles', bubbles'[i].of = bubbles'[j].of
      PROVE  i = j
  BY <1>1, <1>2, <1>4 DEF Shown
<1> QED
  BY <1>3, <1>4 DEF Shown

(* A bubble of a block gets all of its text. *)
LEMMA OneFilled ==
    ASSUME Shown, NEW k \in DOMAIN bubbles, NEW x, NEW full, full = [of |-> x, full |-> TRUE],
           DOMAIN bubbles' = DOMAIN bubbles,
           \A i \in DOMAIN bubbles : bubbles'[i] = IF i = k THEN full ELSE bubbles[i],
           bubbles[k].of = x, told' \in {told, told \cup {x}}
    PROVE  Shown'
<1>1. full.of = x
  OBVIOUS
<1>2. \A i \in DOMAIN bubbles : bubbles'[i].of = bubbles[i].of
  BY <1>1
<1>3. ASSUME NEW y \in told'
      PROVE  \E i \in DOMAIN bubbles' : bubbles'[i] = [of |-> y, full |-> TRUE]
  <2>1. CASE y = x
    BY <2>1
  <2>2. CASE y # x
    <3>1. PICK i \in DOMAIN bubbles : bubbles[i] = [of |-> y, full |-> TRUE]
      BY <1>3, <2>2 DEF Shown
    <3>2. bubbles[i].of = y
      BY <3>1
    <3> QED
      BY <2>2, <3>1, <3>2
  <2> QED
    BY <2>1, <2>2
<1> QED
  BY <1>2, <1>3 DEF Shown

(* A bubble becomes that of a block of which nothing was delivered.         *)
LEMMA OneReplaced ==
    ASSUME Shown, NEW k \in DOMAIN bubbles, NEW full, told' = {},
           DOMAIN bubbles' = DOMAIN bubbles,
           \A i \in DOMAIN bubbles : bubbles'[i] = IF i = k THEN full ELSE bubbles[i],
           \A i \in DOMAIN bubbles \ {k} : bubbles[i].of # full.of
    PROVE  Shown'
BY DEF Shown

LEMMA ReplayBlockKeeps ==
    ASSUME SessionInv, TurnInv, ReplayBlock
    PROVE  SessionInv' /\ TurnInv'
<1> DEFINE h == Head(cli.todo)
<1>1. /\ Receiving /\ Kept /\ cli.todo # <<>> /\ open.bubble = 0
      /\ StreamStarts(h, 1)
      /\ UNCHANGED fileVars /\ UNCHANGED <<sdkSid, pc, outcome, streamed, cli, told>>
  BY DEF ReplayBlock
<1>2. /\ TextTyped /\ cli \in Cli /\ gate \in Gate /\ pc = "receiving"
      /\ Backlog(cli, msgs) /\ ~ cli.done
      /\ bubbles \in Seq(Bubble) /\ DOMAIN bubbles = 1 .. Len(bubbles) /\ Len(bubbles) \in Nat
      /\ ReplayGuarded /\ ReplayBubbles /\ Shown
  BY <1>1, ReceivingFacts
<1>3. /\ Behind /\ told = {} /\ cli.blocks = <<>>
      /\ h \in Nat /\ h \in 1 .. msgs
      /\ \A i \in DOMAIN bubbles : bubbles[i].of[1] \in 1 .. msgs
      /\ \A i \in DOMAIN bubbles :
            bubbles[i].of[1] \in ToSet(cli.todo) => i = open.bubble
      /\ h \in ToSet(cli.todo)
      /\ \A i \in DOMAIN streamed : streamed[i] \in DOMAIN bubbles
  BY <1>1, ReplayFacts
<1>4. /\ gate' \in Gate /\ open' \in OpenBlock /\ bubbles' \in Seq(Bubble)
      /\ gate.stream => UNCHANGED <<gate, bubbles, open>>
      /\ ~ gate.stream =>
                /\ gate'.genuine
                /\ open'.bubble = Len(bubbles) + 1 /\ ~ open'.committed
                /\ DOMAIN bubbles' = 1 .. Len(bubbles) + 1
                /\ \A i \in DOMAIN bubbles : bubbles'[i] = bubbles[i]
                /\ bubbles'[Len(bubbles) + 1] = [of |-> <<h, 1>>, full |-> FALSE]
  BY <1>1, <1>2, <1>3, AfterStart
<1>5. TextTyped'
  BY <1>1, <1>2, <1>4 DEF TextTyped
<1>6. Behind' /\ msgs' = msgs /\ pc' = "receiving" /\ Backlog(cli', msgs) /\ ~ cli'.done
  BY <1>1, <1>2, <1>3 DEF Behind, fileVars
<1>7. CASE gate.stream
  <2>1. UNCHANGED <<gate, bubbles, open, streamed, cli, told, pc>>
    BY <1>1, <1>4, <1>7
  <2>2. ReplayGuarded' /\ ReplayBubbles' /\ Shown'
    BY <1>2, <1>3, <1>6, <2>1 DEF ReplayGuarded, ReplayBubbles, Shown, Replaying, Replied, Behind
  <2> QED
    BY <1>1, <1>2, <1>5, <1>6, <2>2, StillReplays, ReceivingKeepsFiles
<1> HIDE DEF h
<1>8. CASE ~ gate.stream
  <2> DEFINE last == Len(bubbles) + 1
  <2>1. /\ gate'.genuine /\ open'.bubble = last /\ ~ open'.committed
        /\ DOMAIN bubbles' = DOMAIN bubbles \cup {last} /\ last # 0 /\ last \in DOMAIN bubbles'
        /\ \A i \in DOMAIN bubbles : bubbles'[i] = bubbles[i]
        /\ bubbles'[last].of = <<h, 1>> /\ <<h, 1>>[1] = h
    <3>1. /\ gate'.genuine /\ open'.bubble = last /\ ~ open'.committed
          /\ DOMAIN bubbles' = 1 .. Len(bubbles) + 1
          /\ \A i \in DOMAIN bubbles : bubbles'[i] = bubbles[i]
          /\ bubbles'[last] = [of |-> <<h, 1>>, full |-> FALSE]
      BY <1>4, <1>8
    <3>2. [of |-> <<h, 1>>, full |-> FALSE].of = <<h, 1>> /\ <<h, 1>>[1] = h
      OBVIOUS
    <3>3. 1 .. Len(bubbles) + 1 = 1 .. Len(bubbles) \cup {last} /\ last # 0
      BY <1>2
    <3> QED
      BY <1>2, <3>1, <3>2, <3>3
  <2>2. \A i \in DOMAIN bubbles : bubbles[i].of[1] \notin ToSet(cli.todo)
    <3>1. \A i \in DOMAIN bubbles : i # 0
      BY <1>2
    <3> QED
      BY <1>1, <1>3, <3>1
  <2>3. Shown'
    <3>1. \A i \in DOMAIN bubbles : bubbles[i].of # bubbles'[last].of
      BY <1>3, <2>1, <2>2
    <3>2. told' = told
      BY <1>1
    <3>3. DOMAIN bubbles' = 1 .. Len(bubbles) + 1 /\ \A i \in DOMAIN bubbles : bubbles'[i] = bubbles[i]
      BY <1>4, <1>8
    <3> QED
      BY <1>2, <3>1, <3>2, <3>3, OneMore
  <2> HIDE DEF last
  <2>4. ReplayGuarded'
    BY <1>1, <1>3, <1>6, <2>1 DEF ReplayGuarded, Replaying, Replied
  <2>5. ReplayBubbles'
    <3>1. \A i \in DOMAIN bubbles' : bubbles'[i].of[1] \in 1 .. msgs'
      BY <1>3, <1>6, <2>1
    <3>2. \A i \in DOMAIN bubbles' : bubbles'[i].of[1] \in ToSet(cli'.todo) => i = last
      BY <1>1, <2>1, <2>2
    <3>3. \A i \in DOMAIN streamed' : streamed'[i] \in DOMAIN bubbles'
      BY <1>1, <1>3, <2>1
    <3>4. cli'.todo # <<>> /\ h = Head(cli'.todo)
      BY <1>1 DEF h
    <3> QED
      BY <2>1, <3>1, <3>2, <3>3, <3>4 DEF ReplayBubbles
  <2>6. TurnInv'
    BY <1>6, <2>3, <2>4, <2>5, StillReplays
  <2> QED
    BY <1>1, <1>2, <1>5, <1>6, <2>6, ReceivingKeepsFiles
<1> QED
  BY <1>7, <1>8

(* The transcript gets a message it does not have. *)
LEMMA WrittenIsSound ==
    ASSUME TypeOK, FilesSound, NEW e \in 1 .. msgs, files' = Written(e)
    PROVE  Sound(files', nextId, msgs) /\ DOMAIN files' = DOMAIN files
<1> DEFINE s == cli.sid
<1>0. files' = IF e \in MessagesOf(s) THEN files ELSE [files EXCEPT ![s].msgs = Append(@, e)]
  BY DEF Written
<1>1. Sound(files, nextId, msgs) /\ msgs \in Nat
  BY FilesAreSound DEF TypeOK
<1>2. CASE e \in MessagesOf(s)
  BY <1>0, <1>1, <1>2
<1>3. CASE e \notin MessagesOf(s) /\ s \notin DOMAIN files
  <2>1. DOMAIN files' = DOMAIN files /\ \A t \in DOMAIN files : files'[t] = files[t]
    BY <1>0, <1>3
  <2> QED
    BY <1>1, <2>1 DEF Sound
<1>4. CASE e \notin MessagesOf(s) /\ s \in DOMAIN files
  <2>1. files' = [files EXCEPT ![s].msgs = Append(@, e)]
    BY <1>0, <1>4
  <2>2. e \in Nat /\ e \in 1 .. msgs
    BY <1>1
  <2>3. e \notin ToSet(files[s].msgs)
    BY <1>4 DEF MessagesOf
  <2> HIDE DEF s
  <2>4. files[s] \in Transcript /\ files[s].msgs \in Seq(Nat)
    BY <1>1, <1>4 DEF Sound, SoundTranscript, Transcript
  <2>5. Append(files[s].msgs, e) \in Seq(Nat)
    BY <2>2, <2>4, OfAppend
  <2>6. /\ DOMAIN files' = DOMAIN files /\ \A t \in DOMAIN files \ {s} : files'[t] = files[t]
        /\ files'[s] = [files[s] EXCEPT !.msgs = Append(@, e)]
    BY <1>4, <2>1
  <2>7. /\ files'[s].msgs = Append(files[s].msgs, e) /\ files'[s] \in Transcript
        /\ files'[s].unsigned = files[s].unsigned
    BY <2>4, <2>5, <2>6 DEF Transcript
  <2>8. s \in DOMAIN files /\ msgs <= msgs
    BY <1>1, <1>4
  <2>9. Sound(files', nextId, msgs)
    BY <1>1, <2>2, <2>3, <2>6, <2>7, <2>8, AfterAppend
  <2> QED
    BY <2>6, <2>9
<1> QED
  BY <1>2, <1>3, <1>4

(* A message before the answer is dropped, and its bubble stops; or it is   *)
(* let through, to a bubble that was open, or had stopped, or to one more.  *)
LEMMA ReplayMessageKeeps ==
    ASSUME SessionInv, TurnInv, ReplayMessage
    PROVE  SessionInv' /\ TurnInv'
<1> DEFINE h == Head(cli.todo)
<1>1. /\ Receiving /\ Kept /\ cli.todo # <<>>
      /\ cli' = [cli EXCEPT !.todo = Tail(@)]
      /\ files' = Written(h) /\ UNCHANGED <<nextId, msgs, pc, outcome, told>>
  BY DEF ReplayMessage
<1>2. /\ TypeOK /\ FilesSound /\ TextTyped /\ cli \in Cli /\ gate \in Gate
      /\ pc = "receiving" /\ Targets /\ msgs \in Nat
      /\ cli.todo \in Seq(Nat) /\ Backlog(cli, msgs) /\ ~ cli.done
      /\ bubbles \in Seq(Bubble) /\ DOMAIN bubbles = 1 .. Len(bubbles) /\ Len(bubbles) \in Nat
      /\ streamed \in Seq(Nat) /\ open \in OpenBlock /\ open.bubble \in Nat
      /\ Shown
  BY <1>1, ReceivingFacts
<1>3. /\ Behind /\ told = {} /\ cli.blocks = <<>>
      /\ ~ gate.genuine => bubbles = <<>> /\ open = NoBlock /\ streamed = <<>>
      /\ h \in 1 .. msgs /\ h \in Nat /\ h \in ToSet(cli.todo)
      /\ \A i \in DOMAIN bubbles : bubbles[i].of[1] \in 1 .. msgs
      /\ \A i \in DOMAIN bubbles :
            bubbles[i].of[1] \in ToSet(cli.todo) => i = open.bubble /\ ~ open.committed
      /\ open.bubble # 0 /\ ~ open.committed =>
            open.bubble \in DOMAIN bubbles /\ bubbles[open.bubble].of = <<h, 1>>
      /\ \A i \in DOMAIN streamed : streamed[i] \in DOMAIN bubbles
  BY <1>1, ReplayFacts
<1>4. /\ Tail(cli.todo) \in Seq(Nat) /\ Distinct(Tail(cli.todo))
      /\ ToSet(Tail(cli.todo)) = ToSet(cli.todo) \ {h}
  BY <1>1, <1>2, OfTail DEF Backlog
<1>5. /\ cli' \in Cli /\ cli'.todo = Tail(cli.todo) /\ cli'.owed = cli.owed
      /\ cli'.behind = cli.behind /\ cli'.done = cli.done
      /\ cli'.blocks = cli.blocks /\ cli'.sid = cli.sid /\ cli'.loaded = cli.loaded
  BY <1>1, <1>2, <1>4 DEF Cli
<1>6. /\ Backlog(cli', msgs) /\ Behind' /\ pc' = "receiving" /\ ~ cli'.done
      /\ h \notin ToSet(cli'.todo) /\ ToSet(cli'.todo) \subseteq ToSet(cli.todo)
  BY <1>1, <1>2, <1>3, <1>4, <1>5 DEF Backlog, Behind
<1>7. PICK uuid \in BOOLEAN, id \in BOOLEAN :
        IF gate.on /\ IsReplayed(h, uuid, id)
        THEN gate' = [gate EXCEPT !.replay = TRUE] /\ Stops /\ UNCHANGED <<sdkSid, bubbles>>
        ELSE /\ gate' = [gate EXCEPT !.genuine = TRUE]
             /\ sdkSid' = cli.sid
             /\ Delivered(h, 1)
  BY DEF ReplayMessage
<1>8. Sound(files', nextId, msgs) /\ DOMAIN files' = DOMAIN files
  BY <1>1, <1>2, <1>3, WrittenIsSound
<1> HIDE DEF h
<1>9. ASSUME TextTyped', sdkSid' \in {sdkSid, cli.sid}
      PROVE  SessionInv'
  <2>1. nextId \in Nat /\ nextId > 0 /\ msgs <= msgs
    BY <1>2 DEF TypeOK, FilesSound
  <2> QED
    BY <1>1, <1>2, <1>5, <1>6, <1>8, <1>9, <2>1, ReceivingKeeps
<1>10. ASSUME gate'.genuine \/ (bubbles' = <<>> /\ open' = NoBlock /\ streamed' = <<>>),
              \A i \in DOMAIN bubbles' :
                bubbles'[i].of[1] \in 1 .. msgs /\ bubbles'[i].of[1] \notin ToSet(cli'.todo),
              open'.bubble = 0 \/ open'.committed,
              \A i \in DOMAIN streamed' : streamed'[i] \in DOMAIN bubbles',
              Shown'
       PROVE  TurnInv'
  <2>1. ReplayGuarded'
    BY <1>1, <1>3, <1>5, <1>6, <1>10 DEF ReplayGuarded, Replied
  <2>2. ReplayBubbles'
    BY <1>1, <1>10 DEF ReplayBubbles
  <2> QED
    BY <1>6, <1>10, <2>1, <2>2, StillReplays
<1>11. CASE gate.on /\ IsReplayed(h, uuid, id)
  <2>1. /\ gate' = [gate EXCEPT !.replay = TRUE] /\ UNCHANGED <<sdkSid, bubbles>>
        /\ open' = NoBlock
        /\ streamed' = IF open.bubble # 0 /\ ~ open.committed
                       THEN Append(streamed, open.bubble) ELSE streamed
    BY <1>7, <1>11 DEF Stops
  <2>2. gate' \in Gate /\ gate'.genuine = gate.genuine
    BY <1>2, <2>1 DEF Gate
  <2>3. /\ streamed' \in Seq(Nat)
        /\ \A i \in DOMAIN streamed' : streamed'[i] \in DOMAIN bubbles
    <3>1. CASE open.bubble # 0 /\ ~ open.committed
      <4>1. streamed' = Append(streamed, open.bubble) /\ open.bubble \in DOMAIN bubbles
        BY <1>3, <2>1, <3>1
      <4>2. /\ streamed' \in Seq(Nat) /\ DOMAIN streamed' = 1 .. Len(streamed) + 1
            /\ \A i \in DOMAIN streamed : streamed'[i] = streamed[i]
            /\ streamed'[Len(streamed) + 1] = open.bubble
            /\ DOMAIN streamed = 1 .. Len(streamed) /\ Len(streamed) \in Nat
        BY <1>2, <4>1, OfAppend, InSeq
      <4>3. \A i \in DOMAIN streamed' : i \in DOMAIN streamed \/ i = Len(streamed) + 1
        BY <4>2
      <4> QED
        BY <1>3, <4>1, <4>2, <4>3
    <3>2. CASE ~ (open.bubble # 0 /\ ~ open.committed)
      BY <1>2, <1>3, <2>1, <3>2
    <3> QED
      BY <3>1, <3>2
  <2>4. open' \in OpenBlock /\ open'.bubble = 0
    BY <2>1, NoGateTyped DEF NoBlock
  <2>5. TextTyped'
    BY <1>2, <1>5, <2>1, <2>2, <2>3, <2>4 DEF TextTyped
  <2>6. ~ gate'.genuine => bubbles' = <<>> /\ open' = NoBlock /\ streamed' = <<>>
    <3>1. NoBlock.bubble = 0
      BY DEF NoBlock
    <3> QED
      BY <1>3, <2>1, <2>2, <3>1
  <2>7. ASSUME NEW i \in DOMAIN bubbles', bubbles'[i].of[1] \in ToSet(cli'.todo)
        PROVE  FALSE
    <3>1. i = open.bubble /\ ~ open.committed /\ i # 0
      BY <1>2, <1>3, <1>6, <2>1, <2>7
    <3>2. bubbles[i].of = <<h, 1>>
      BY <1>3, <3>1
    <3> QED
      BY <1>6, <2>1, <2>7, <3>2
  <2>8. Shown'
    BY <1>1, <1>2, <2>1 DEF Shown
  <2>9. TurnInv'
    BY <1>3, <1>10, <2>1, <2>3, <2>4, <2>6, <2>7, <2>8
  <2> QED
    BY <1>9, <2>1, <2>5, <2>9
<1>12. CASE ~ (gate.on /\ IsReplayed(h, uuid, id))
  <2>1. gate' = [gate EXCEPT !.genuine = TRUE] /\ sdkSid' = cli.sid /\ Delivered(h, 1)
    BY <1>7, <1>12
  <2>2. gate' \in Gate /\ gate'.genuine
    BY <1>2, <2>1 DEF Gate
  <2> DEFINE full == [of |-> <<h, 1>>, full |-> TRUE]
  <2>3. 1 \in Nat /\ full.of = <<h, 1>> /\ full.of[1] = h
    OBVIOUS
  <2>4. /\ bubbles' \in Seq(Bubble) /\ open' \in OpenBlock /\ streamed' \in Seq(Nat)
        /\ \/ /\ open.bubble # 0 /\ ~ open.committed /\ open.bubble \in DOMAIN bubbles
              /\ DOMAIN bubbles' = DOMAIN bubbles
              /\ \A i \in DOMAIN bubbles :
                     bubbles'[i] = IF i = open.bubble THEN full ELSE bubbles[i]
              /\ open'.bubble = open.bubble /\ open'.committed /\ streamed' = streamed
           \/ /\ open.bubble = 0 \/ open.committed
              /\ streamed # <<>> /\ streamed' = Tail(streamed) /\ open' = open
              /\ Head(streamed) \in DOMAIN bubbles /\ DOMAIN bubbles' = DOMAIN bubbles
              /\ \A i \in DOMAIN bubbles :
                     bubbles'[i] = IF i = Head(streamed) THEN full ELSE bubbles[i]
           \/ /\ open.bubble = 0 \/ open.committed
              /\ UNCHANGED <<open, streamed>>
              /\ DOMAIN bubbles' = 1 .. Len(bubbles) + 1
              /\ \A i \in DOMAIN bubbles : bubbles'[i] = bubbles[i]
              /\ bubbles'[Len(bubbles) + 1] = full
    <3> HIDE DEF full
    <3>1. full = [of |-> <<h, 1>>, full |-> TRUE]
      BY DEF full
    <3> QED
      BY <1>2, <1>3, <2>1, <2>3, <3>1, AfterDelivery
  <2> HIDE DEF full
  <2>5. TextTyped'
    BY <1>5, <2>2, <2>4 DEF TextTyped
  <2>6. \A i \in DOMAIN bubbles :
            bubbles[i].of[1] \in ToSet(cli.todo) => i = open.bubble /\ ~ open.committed /\ i # 0
    <3>1. \A i \in DOMAIN bubbles : i # 0
      BY <1>2
    <3> QED
      BY <1>3, <3>1
  <2>7. ASSUME NEW k \in DOMAIN bubbles, DOMAIN bubbles' = DOMAIN bubbles,
               \A i \in DOMAIN bubbles : bubbles'[i] = IF i = k THEN full ELSE bubbles[i],
               \A i \in DOMAIN bubbles \ {k} : bubbles[i].of[1] \notin ToSet(cli.todo),
               open'.bubble = 0 \/ open'.committed,
               \A i \in DOMAIN streamed' : streamed'[i] \in DOMAIN bubbles'
        PROVE  TurnInv'
    <3>1. Shown'
      <4>1. \A i \in DOMAIN bubbles \ {k} : bubbles[i].of # full.of
        BY <1>3, <2>3, <2>7
      <4>2. told' = {} /\ Shown
        BY <1>1, <1>2, <1>3
      <4> QED
        BY <2>7, <4>1, <4>2, OneReplaced
    <3>2. \A i \in DOMAIN bubbles' :
            bubbles'[i].of[1] \in 1 .. msgs /\ bubbles'[i].of[1] \notin ToSet(cli'.todo)
      BY <1>3, <1>6, <2>3, <2>7
    <3> QED
      BY <1>10, <2>2, <2>7, <3>1, <3>2
  <2>8. CASE open.bubble # 0 /\ ~ open.committed
    <3>1. \A i \in DOMAIN bubbles \ {open.bubble} : bubbles[i].of[1] \notin ToSet(cli.todo)
      BY <2>6
    <3> QED
      BY <1>3, <1>9, <2>1, <2>4, <2>5, <2>7, <2>8, <3>1
  <2>9. CASE (open.bubble = 0 \/ open.committed) /\ DOMAIN bubbles' = DOMAIN bubbles
    <3>1. \A i \in DOMAIN bubbles : bubbles[i].of[1] \notin ToSet(cli.todo)
      BY <2>6, <2>9
    <3>2. /\ streamed # <<>> /\ streamed' = Tail(streamed) /\ open' = open
          /\ Head(streamed) \in DOMAIN bubbles
          /\ \A i \in DOMAIN bubbles :
                 bubbles'[i] = IF i = Head(streamed) THEN full ELSE bubbles[i]
      <4>1. DOMAIN bubbles # 1 .. Len(bubbles) + 1
        <5>1. Len(bubbles) + 1 \in 1 .. Len(bubbles) + 1 /\ Len(bubbles) + 1 \notin 1 .. Len(bubbles)
          BY <1>2
        <5> QED
          BY <1>2, <5>1
      <4> QED
        BY <2>4, <2>9, <4>1
    <3>3. \A i \in DOMAIN streamed' : streamed'[i] \in DOMAIN bubbles'
      <4>1. DOMAIN streamed = 1 .. Len(streamed) /\ Len(streamed) \in Nat
        BY <1>2, InSeq
      <4>2. /\ Len(streamed') = Len(streamed) - 1 /\ streamed' \in Seq(Nat)
            /\ \A i \in 1 .. Len(streamed') : streamed'[i] = streamed[i + 1]
        BY <1>2, <3>2, HeadTailProperties
      <4>3. DOMAIN streamed' = 1 .. Len(streamed) - 1
        BY <4>2, LenProperties
      <4>4. \A i \in DOMAIN streamed' : i + 1 \in DOMAIN streamed /\ streamed'[i] = streamed[i + 1]
        BY <4>1, <4>2, <4>3
      <4> QED
        BY <1>3, <2>9, <4>4
    <3> QED
      BY <1>9, <2>1, <2>5, <2>7, <2>9, <3>1, <3>2, <3>3
  <2>10. CASE (open.bubble = 0 \/ open.committed) /\ DOMAIN bubbles' # DOMAIN bubbles
    <3>1. /\ UNCHANGED <<open, streamed>>
          /\ DOMAIN bubbles' = 1 .. Len(bubbles) + 1
          /\ \A i \in DOMAIN bubbles : bubbles'[i] = bubbles[i]
          /\ bubbles'[Len(bubbles) + 1] = full
      BY <2>4, <2>10
    <3>2. \A i \in DOMAIN bubbles : bubbles[i].of[1] \notin ToSet(cli.todo)
      BY <2>6, <2>10
    <3>3. DOMAIN bubbles' = DOMAIN bubbles \cup {Len(bubbles) + 1}
      BY <1>2, <3>1
    <3>4. \A i \in DOMAIN bubbles' :
            bubbles'[i].of[1] \in 1 .. msgs /\ bubbles'[i].of[1] \notin ToSet(cli'.todo)
      BY <1>3, <1>6, <2>3, <3>1, <3>2, <3>3
    <3>5. Shown'
      <4>1. told' = told
        BY <1>1
      <4>2. \A i \in DOMAIN bubbles : bubbles[i].of # bubbles'[Len(bubbles) + 1].of
        BY <1>3, <2>3, <3>1, <3>2
      <4> QED
        BY <1>2, <3>1, <4>1, <4>2, OneMore
    <3>6. \A i \in DOMAIN streamed' : streamed'[i] \in DOMAIN bubbles'
      BY <1>3, <3>1, <3>3
    <3>7. TurnInv'
      BY <1>10, <2>2, <2>10, <3>1, <3>4, <3>5, <3>6
    <3> QED
      BY <1>9, <2>1, <2>5, <3>7
  <2> QED
    BY <2>8, <2>9, <2>10
<1> QED
  BY <1>11, <1>12

(* A result that comes before that of the answer is swallowed, which leaves *)
(* the turn as it was, and if it was the last of them nothing has a bubble; *)
(* or it ends the turn.                                                     *)
LEMMA ReplayEndsKeeps ==
    ASSUME SessionInv, TurnInv, ReplayEnds
    PROVE  SessionInv' /\ TurnInv'
<1>1. /\ Receiving /\ Kept /\ Behind /\ cli' = PastResult
      /\ cli.todo # <<>> => Behind'
      /\ Result
      /\ UNCHANGED fileVars /\ UNCHANGED <<streamed, bubbles, told>>
  BY DEF ReplayEnds, Behind
<1>2. /\ TypeOK /\ TextTyped /\ cli \in Cli /\ gate \in Gate /\ pc = "receiving"
      /\ msgs \in Nat /\ Backlog(cli, msgs) /\ ~ cli.done
      /\ ReplayGuarded /\ ReplayBubbles /\ Shown
  BY <1>1, ReceivingFacts
<1>3. /\ cli' \in Cli /\ cli'.msg = 0 /\ cli'.todo = cli.todo /\ ~ cli'.done
      /\ cli'.blocks = cli.blocks /\ cli'.sid = cli.sid /\ cli'.loaded = cli.loaded
  BY <1>1, <1>2, PastResultTyped
<1>4. /\ gate' \in Gate /\ open' \in OpenBlock
      /\ \/ /\ gate.on /\ gate.replay /\ ~ gate.genuine /\ ~ gate.swallowed
            /\ gate'.swallowed /\ gate'.stream = gate.stream /\ gate'.genuine = gate.genuine
            /\ UNCHANGED <<pc, outcome, sdkSid, open>>
         \/ /\ ~ (gate.on /\ gate.replay /\ ~ gate.genuine /\ ~ gate.swallowed)
            /\ pc' = "idle" /\ outcome' = "result" /\ sdkSid' = cli.sid
            /\ open' = NoBlock /\ UNCHANGED gate
  BY <1>1, <1>2, AfterResult
<1>5. TextTyped'
  BY <1>1, <1>2, <1>3, <1>4 DEF TextTyped
<1>6. Backlog(cli', msgs)
  BY <1>2, <1>3 DEF Backlog
<1>7. SessionInv'
  BY <1>1, <1>2, <1>3, <1>4, <1>5, <1>6, ReceivingKeepsFiles
<1>8. CASE gate.on /\ gate.replay /\ ~ gate.genuine /\ ~ gate.swallowed
  <2>1. Replaying
    BY <1>1, <1>2 DEF Replaying
  <2>2. /\ bubbles' = <<>> /\ open' = NoBlock /\ streamed' = <<>> /\ cli'.blocks = <<>>
        /\ told' = {} /\ pc' = "receiving" /\ gate'.swallowed /\ NoBlock.bubble = 0
    BY <1>1, <1>2, <1>3, <1>4, <1>8, <2>1 DEF ReplayGuarded, NoBlock
  <2>3. ReplayGuarded'
    <3>1. Replied' => cli'.todo = <<>>
      BY <1>1, <1>3 DEF Replied
    <3> QED
      BY <2>2, <3>1 DEF ReplayGuarded, Accounted
  <2>4. ReplayBubbles'
    BY <2>2, OfEmpty DEF ReplayBubbles
  <2>5. OwnBubbles'
    <3>1. msgs' = msgs /\ 0 \in 0 .. msgs
      BY <1>1, <1>2 DEF fileVars
    <3> QED
      BY <1>3, <2>2, <3>1, OfEmpty DEF OwnBubbles
  <2>6. AnswerMatched'
    BY <2>2, NothingInOrder
  <2>7. Shown'
    BY <1>1, <1>2 DEF Shown
  <2> QED
    BY <1>7, <2>3, <2>4, <2>5, <2>6, <2>7 DEF TurnInv
<1>9. CASE ~ (gate.on /\ gate.replay /\ ~ gate.genuine /\ ~ gate.swallowed)
  <2>1. pc' # "receiving" /\ UNCHANGED <<bubbles, told>>
    BY <1>1, <1>4, <1>9
  <2> QED
    BY <1>7, <2>1, TurnIsOver
<1> QED
  BY <1>8, <1>9

(* Reading raises: the turn is over, and what it leaves unread is known.    *)
LEMMA RaisesKeeps ==
    ASSUME SessionInv, TurnInv, Raises
    PROVE  SessionInv' /\ TurnInv'
<1>1. /\ Receiving /\ Kept /\ pc' = "idle" /\ outcome' = "failed"
      /\ UNCHANGED fileVars /\ sdkSid' = sdkSid
      /\ UNCHANGED <<gate, open, streamed, bubbles, told>>
  BY DEF Raises, textVars
<1>2. /\ TextTyped /\ cli \in Cli /\ msgs \in Nat /\ Backlog(cli, msgs) /\ ~ cli.done
      /\ cli.todo \in Seq(Nat)
  BY <1>1, ReceivingFacts
<1>3. \/ cli' = cli
      \/ Behind /\ cli' = PastResult
      \/ cli.todo # <<>> /\ cli' = [cli EXCEPT !.todo = Tail(@)]
      \/ Answering /\ cli' = [cli EXCEPT !.blocks = <<>>]
      \/ Answering /\ cli' = [cli EXCEPT !.done = TRUE]
      \/ Answering /\ cli.msg # 0 /\ cli' = [cli EXCEPT !.blocks = <<>>, !.todo = <<cli.msg>>]
  BY DEF Raises
<1>4. <<>> \in Blocks
  BY EmptySeq DEF Blocks
<1>5. cli' \in Cli /\ cli'.sid = cli.sid /\ cli'.loaded = cli.loaded /\ Backlog(cli', msgs)
  <2>1. CASE cli' = cli
    BY <1>2, <2>1
  <2>2. CASE Behind /\ cli' = PastResult
    <3>1. /\ cli' \in Cli /\ cli'.todo = cli.todo /\ ~ cli'.done
          /\ cli'.sid = cli.sid /\ cli'.loaded = cli.loaded
      BY <1>2, <2>2, PastResultTyped
    <3> QED
      BY <1>2, <3>1 DEF Backlog
  <2>3. CASE cli.todo # <<>> /\ cli' = [cli EXCEPT !.todo = Tail(@)]
    <3>1. /\ Tail(cli.todo) \in Seq(Nat) /\ Distinct(Tail(cli.todo))
          /\ ToSet(Tail(cli.todo)) \subseteq ToSet(cli.todo)
      BY <1>2, <2>3, OfTail DEF Backlog
    <3>2. /\ cli' \in Cli /\ cli'.todo = Tail(cli.todo) /\ ~ cli'.done
          /\ cli'.sid = cli.sid /\ cli'.loaded = cli.loaded
      BY <1>2, <2>3, <3>1 DEF Cli
    <3> QED
      BY <1>2, <3>1, <3>2 DEF Backlog
  <2>4. CASE Answering /\ cli' = [cli EXCEPT !.blocks = <<>>]
    <3>1. /\ cli' \in Cli /\ cli'.todo = cli.todo /\ ~ cli'.done
          /\ cli'.sid = cli.sid /\ cli'.loaded = cli.loaded
      BY <1>2, <1>4, <2>4 DEF Cli, Blocks
    <3> QED
      BY <1>2, <3>1 DEF Backlog
  <2>5. CASE Answering /\ cli' = [cli EXCEPT !.done = TRUE]
    <3>1. Settled(cli)
      BY <2>5, AnswerSettled
    <3>2. cli' \in Cli /\ cli'.todo = cli.todo /\ cli'.sid = cli.sid /\ cli'.loaded = cli.loaded
      BY <1>2, <2>5 DEF Cli
    <3> QED
      BY <1>2, <3>1, <3>2 DEF Settled, Backlog
  <2>6. CASE Answering /\ cli.msg # 0 /\ cli' = [cli EXCEPT !.blocks = <<>>, !.todo = <<cli.msg>>]
    <3>1. Replied
      BY <2>6, AnswerSettled
    <3>2. cli.msg \in 1 .. msgs /\ cli.msg \in Nat
      BY <1>2, <2>6, <3>1 DEF TurnInv, OwnBubbles
    <3>3. <<cli.msg>> \in Seq(Nat) /\ ToSet(<<cli.msg>>) = {cli.msg} /\ Distinct(<<cli.msg>>)
      BY <3>2, OfOne
    <3>4. /\ cli' \in Cli /\ cli'.todo = <<cli.msg>> /\ ~ cli'.done
          /\ cli'.sid = cli.sid /\ cli'.loaded = cli.loaded
      BY <1>2, <1>4, <2>6, <3>3 DEF Cli, Blocks
    <3> QED
      BY <1>2, <3>2, <3>3, <3>4 DEF Backlog
  <2> QED
    BY <1>3, <2>1, <2>2, <2>3, <2>4, <2>5, <2>6
<1>6. TextTyped'
  BY <1>1, <1>2, <1>5 DEF TextTyped
<1>7. SessionInv'
  BY <1>1, <1>5, <1>6, ReceivingKeepsFiles
<1>8. TurnInv'
  BY <1>1, TurnIsOver
<1> QED
  BY <1>7, <1>8

(* A CLI that goes on with an answer that was left unread writes a message  *)
(* no turn has a bubble of.                                                 *)
LEMMA WritesOnKeeps ==
    ASSUME SessionInv, TurnInv, WritesOn
    PROVE  SessionInv' /\ TurnInv'
<1>1. /\ msgs' = msgs + 1 /\ cli' = [cli EXCEPT !.todo = Append(@, msgs + 1)]
      /\ files' = [files EXCEPT ![cli.sid].msgs = Append(@, msgs + 1)]
      /\ UNCHANGED <<nextId, live, client, clients, connected, cutOff, sdkSid, pc, goal, turns,
                     outcome, gate, open, streamed, bubbles, told>>
      /\ (pc = "idle" /\ ~ cli.done) \/ (pc \in {"idle", "receiving"} /\ cli.behind # 0)
  BY DEF WritesOn, Kept, clientVars, textVars
<1>2. /\ TypeOK /\ FilesSound /\ LiveKept /\ GoalKnown /\ CliSound
      /\ TextTyped /\ ClientTyped /\ Sound(files, nextId, msgs) /\ cli \in Cli
      /\ cli.todo \in Seq(Nat) /\ cli.behind \in Nat
  BY TypeParts, FilesAreSound DEF SessionInv, TextTyped, Cli
<1>3. /\ msgs \in Nat /\ msgs' \in Nat /\ msgs <= msgs' /\ 1 .. msgs \subseteq 1 .. msgs'
      /\ msgs + 1 \in 1 .. msgs' /\ msgs + 1 \notin 1 .. msgs /\ msgs + 1 \in Nat
  BY <1>1, <1>2 DEF ClientTyped
<1>4. /\ Append(cli.todo, msgs + 1) \in Seq(Nat)
      /\ ToSet(Append(cli.todo, msgs + 1)) = ToSet(cli.todo) \cup {msgs + 1}
      /\ Distinct(Append(cli.todo, msgs + 1)) /\ Append(cli.todo, msgs + 1) # <<>>
      /\ cli.todo # <<>> => Head(Append(cli.todo, msgs + 1)) = Head(cli.todo)
  <2>1. msgs + 1 \notin ToSet(cli.todo) /\ Distinct(cli.todo)
    BY <1>2, <1>3 DEF CliSound, Backlog
  <2>2. /\ Append(cli.todo, msgs + 1) \in Seq(Nat)
        /\ ToSet(Append(cli.todo, msgs + 1)) = ToSet(cli.todo) \cup {msgs + 1}
        /\ Distinct(Append(cli.todo, msgs + 1)) /\ Append(cli.todo, msgs + 1) # <<>>
        /\ \A i \in DOMAIN cli.todo : Append(cli.todo, msgs + 1)[i] = cli.todo[i]
    BY <1>2, <1>3, <2>1, OfAppend
  <2>3. ASSUME cli.todo # <<>>
        PROVE  Head(Append(cli.todo, msgs + 1)) = Head(cli.todo)
    <3>1. 1 \in DOMAIN cli.todo /\ Head(cli.todo) = cli.todo[1]
      BY <1>2, <2>3, InSeq
    <3>2. Head(Append(cli.todo, msgs + 1)) = Append(cli.todo, msgs + 1)[1]
      BY <2>2, InSeq
    <3> QED
      BY <2>2, <3>1, <3>2
  <2> QED
    BY <2>2, <2>3
<1>5. /\ cli' \in Cli /\ cli'.todo = Append(cli.todo, msgs + 1) /\ cli'.sid = cli.sid
      /\ cli'.loaded = cli.loaded /\ cli'.owed = cli.owed /\ cli'.behind = cli.behind
      /\ cli'.done = cli.done /\ cli'.blocks = cli.blocks /\ cli'.msg = cli.msg
  BY <1>1, <1>2, <1>4 DEF Cli
<1>6. Sound(files', nextId, msgs') /\ DOMAIN files' = DOMAIN files
  <2> DEFINE s == cli.sid
             e == msgs + 1
  <2>1. files' = [files EXCEPT ![s].msgs = Append(@, e)]
    BY <1>1
  <2>2. CASE s \notin DOMAIN files
    <3>1. DOMAIN files' = DOMAIN files /\ \A t \in DOMAIN files : files'[t] = files[t]
      BY <2>1, <2>2
    <3>2. nextId \in Nat
      BY <1>2 DEF TypeOK
    <3> QED
      BY <1>2, <1>3, <3>1, <3>2, SoundGrows DEF Sound
  <2>3. CASE s \in DOMAIN files
    <3> HIDE DEF s
    <3>1. SoundTranscript(s, files[s], nextId, msgs) /\ files[s] \in Transcript
          /\ files[s].msgs \in Seq(Nat)
      BY <1>2, <2>3 DEF Sound, SoundTranscript, Transcript
    <3>2. e \in Nat /\ e \in 1 .. msgs' /\ e \notin ToSet(files[s].msgs)
      BY <1>3, <3>1 DEF SoundTranscript
    <3> HIDE DEF e
    <3>3. Append(files[s].msgs, e) \in Seq(Nat)
      BY <3>1, <3>2, OfAppend
    <3>4. /\ DOMAIN files' = DOMAIN files /\ \A t \in DOMAIN files \ {s} : files'[t] = files[t]
          /\ files'[s] = [files[s] EXCEPT !.msgs = Append(@, e)]
      BY <2>1, <2>3
    <3>5. /\ files'[s].msgs = Append(files[s].msgs, e) /\ files'[s] \in Transcript
          /\ files'[s].unsigned = files[s].unsigned
      BY <3>1, <3>3, <3>4 DEF Transcript
    <3>6. Sound(files', nextId, msgs')
      BY <1>2, <1>3, <2>3, <3>2, <3>4, <3>5, AfterAppend
    <3> QED
      BY <3>4, <3>6
  <2> QED
    BY <2>2, <2>3
<1>7. TypeOK'
  <2>1. \A t \in DOMAIN files' : t \in Sid /\ files'[t] \in Transcript
    BY <1>6, SoundIsTyped
  <2>2. TextTyped'
    BY <1>1, <1>2, <1>5 DEF TextTyped
  <2>3. ClientTyped'
    BY <1>1, <1>2, <1>3 DEF ClientTyped
  <2> QED
    BY <2>1, <2>2, <2>3, TypePartsNext
<1>8. FilesSound'
  BY <1>1, <1>2, <1>5, <1>6 DEF FilesSound, Sound, SoundTranscript
<1>9. LiveKept'
  BY <1>1, <1>2 DEF LiveKept, NoStrayCli
<1>10. GoalKnown'
  BY <1>1 DEF GoalKnown
<1>11. CliSound'
  <2>1. ToSet(cli.loaded) \subseteq 1 .. msgs' /\ Distinct(cli.loaded)
        /\ ToSet(cli'.todo) \subseteq 1 .. msgs' /\ Distinct(cli'.todo)
    BY <1>2, <1>3, <1>4, <1>5 DEF CliSound, Backlog
  <2>2. cli'.owed \/ cli'.behind # 0 \/ ~ cli'.done
    BY <1>1, <1>5
  <2> QED
    BY <1>1, <1>2, <1>5, <2>1, <2>2 DEF CliSound, Backlog
<1>12. SessionInv'
  BY <1>7, <1>8, <1>9, <1>10, <1>11 DEF SessionInv
<1>13. CASE pc = "idle"
  <2>1. TurnInv'
    BY <1>1, <1>13, TurnIsOver
  <2> QED
    BY <1>12, <2>1
<1>14. CASE pc = "receiving" /\ cli.behind # 0
  <2>1. Replaying /\ Behind'
    BY <1>5, <1>14 DEF Replaying, Behind
  <2>2. ReplayGuarded'
    BY <1>1, <1>5, <2>1 DEF TurnInv, ReplayGuarded, Replied
  <2>3. ReplayBubbles'
    <3>1. ReplayBubbles
      BY DEF TurnInv
    <3>2. \A i \in DOMAIN bubbles : bubbles[i].of[1] # msgs + 1 /\ bubbles[i].of[1] \in 1 .. msgs'
      BY <1>3, <2>1, <3>1 DEF ReplayBubbles
    <3>3. \A i \in DOMAIN bubbles :
            bubbles[i].of[1] \in ToSet(cli'.todo) => i = open.bubble /\ ~ open.committed
      BY <1>4, <1>5, <2>1, <3>1, <3>2 DEF ReplayBubbles
    <3>4. open.bubble # 0 /\ ~ open.committed =>
                /\ cli'.todo # <<>>
                /\ open.bubble \in DOMAIN bubbles
                /\ bubbles[open.bubble].of = <<Head(cli'.todo), 1>>
      BY <1>4, <1>5, <2>1, <3>1 DEF ReplayBubbles
    <3> QED
      BY <1>1, <2>1, <3>1, <3>2, <3>3, <3>4 DEF ReplayBubbles
  <2>4. Shown'
    BY <1>1 DEF TurnInv, Shown
  <2> QED
    BY <1>12, <2>1, <2>2, <2>3, <2>4, StillReplays
<1> QED
  BY <1>1, <1>13, <1>14

-----------------------------------------------------------------------------
(* The answer. *)

(* The result of the answer ends the turn: none is taken for a replay's.    *)
LEMMA TurnEndsKeeps ==
    ASSUME SessionInv, TurnInv, TurnEnds
    PROVE  SessionInv' /\ TurnInv'
<1>0. Answering /\ Settled(cli) /\ Accounted(gate)
  BY AnswerSettled DEF TurnEnds
<1>1. /\ Receiving /\ Kept
      /\ cli' = [cli EXCEPT !.done = TRUE] /\ Result
      /\ UNCHANGED fileVars /\ UNCHANGED <<streamed, bubbles, told>>
  BY <1>0 DEF TurnEnds, Answering
<1>2. TextTyped /\ cli \in Cli
  BY <1>1, ReceivingFacts
<1>3. /\ cli' \in Cli /\ cli'.todo = cli.todo /\ cli'.owed = cli.owed
      /\ cli'.behind = cli.behind /\ cli'.sid = cli.sid /\ cli'.loaded = cli.loaded
  BY <1>1, <1>2 DEF Cli
<1>4. /\ gate' \in Gate /\ open' \in OpenBlock
      /\ pc' = "idle" /\ outcome' = "result" /\ sdkSid' = cli.sid
  <2>1. ~ (gate.on /\ gate.replay /\ ~ gate.genuine /\ ~ gate.swallowed)
    BY <1>0 DEF Accounted
  <2> QED
    BY <1>1, <1>2, <2>1, AfterResult
<1>5. TextTyped'
  BY <1>1, <1>2, <1>3, <1>4 DEF TextTyped
<1>6. Settled(cli')
  BY <1>0, <1>3 DEF Settled
<1>7. SessionInv'
  BY <1>1, <1>3, <1>4, <1>5, <1>6, ReceivingKeepsFiles
<1>8. TurnInv'
  BY <1>1, <1>4, TurnIsOver
<1> QED
  BY <1>7, <1>8

LEMMA StillAnswers ==
    ASSUME Settled(cli'), Accounted(gate'), OwnBubbles', AnswerMatched', Shown'
    PROVE  TurnInv'
<1>1. ~ Behind'
  BY DEF Settled, Behind
<1>2. ReplayGuarded' /\ ReplayBubbles'
  BY <1>1 DEF ReplayGuarded, ReplayBubbles, Replaying, Settled
<1> QED
  BY <1>2 DEF TurnInv

LEMMA AnswerFacts ==
    ASSUME SessionInv, TurnInv, Answering, Kept, NEW n, n = Len(cli.blocks)
    PROVE  /\ Replied /\ n \in Nat /\ DOMAIN cli.blocks = 1 .. n
           /\ AllStopped <=> open.bubble = 0
           /\ open.bubble # 0 => n > 0 /\ n \in 1 .. n
           /\ open.bubble # 0 =>
                /\ open.bubble \in DOMAIN bubbles
                /\ bubbles[open.bubble].of = <<cli.msg, n>>
                /\ open.committed <=> cli.blocks[n].told
           /\ \A b \in 1 .. n : cli.blocks[b].stopped <=> b # n \/ open.bubble = 0
           /\ StoppedCount = IF open.bubble = 0 THEN n ELSE n - 1
           /\ \E k \in 0 .. n : InOrder(k)
           /\ cli.msg \in 0 .. msgs
           /\ cli.msg # 0 => ~ gate.stream
           /\ \A i \in DOMAIN bubbles :
                /\ bubbles[i].of[1] \in 1 .. cli.msg
                /\ bubbles[i].of[1] = cli.msg => bubbles[i].of[2] <= n
<1>1. /\ OwnBubbles /\ AnswerMatched /\ cli.blocks \in Blocks /\ pc = "receiving"
  BY ReceivingFacts DEF Answering
<1>2. Replied
  BY AnswerSettled
<1>3. n \in Nat /\ DOMAIN cli.blocks = 1 .. n /\ (cli.blocks # <<>> => n > 0)
  BY <1>1, InSeq DEF Blocks
<1>4. open.bubble # 0 => n > 0 /\ n \in 1 .. n
  BY <1>1, <1>2, <1>3 DEF AnswerMatched
<1>5. \A b \in 1 .. n : cli.blocks[b].stopped <=> b # n \/ open.bubble = 0
  BY <1>1, <1>2, <1>3 DEF AnswerMatched
<1>6. AllStopped <=> open.bubble = 0
  BY <1>3, <1>4, <1>5 DEF AllStopped
<1>7. StoppedCount = IF open.bubble = 0 THEN n ELSE n - 1
  BY DEF StoppedCount
<1>8. /\ open.bubble # 0 =>
            /\ open.bubble \in DOMAIN bubbles
            /\ bubbles[open.bubble].of = <<cli.msg, n>>
            /\ open.committed <=> cli.blocks[n].told
      /\ \E k \in 0 .. n : InOrder(k)
  BY <1>1, <1>2 DEF AnswerMatched
<1>9. /\ cli.msg \in 0 .. msgs
      /\ cli.msg # 0 => ~ gate.stream
      /\ \A i \in DOMAIN bubbles :
            /\ bubbles[i].of[1] \in 1 .. cli.msg
            /\ bubbles[i].of[1] = cli.msg => bubbles[i].of[2] <= n
  BY <1>1, <1>2 DEF OwnBubbles
<1> QED
  BY <1>2, <1>3, <1>4, <1>5, <1>6, <1>7, <1>8, <1>9

LEMMA MessageStartsKeeps ==
    ASSUME SessionInv, TurnInv, MessageStarts
    PROVE  SessionInv' /\ TurnInv'
<1>0. Answering /\ Settled(cli) /\ Accounted(gate) /\ ~ cli.done /\ Replied
  BY AnswerSettled DEF MessageStarts
<1>1. /\ Answering /\ Receiving /\ Kept /\ AllStopped /\ msgs' = msgs + 1
      /\ cli' = [cli EXCEPT !.msg = msgs + 1, !.blocks = <<>>]
      /\ gate' = [gate EXCEPT !.stream = FALSE]
      /\ streamed' = <<>> /\ sdkSid' \in {sdkSid, cli.sid}
      /\ UNCHANGED <<files, nextId, pc, outcome, open, bubbles, told>>
  BY <1>0 DEF MessageStarts, Answering
<1>2. /\ TypeOK /\ FilesSound /\ TextTyped /\ cli \in Cli /\ gate \in Gate /\ pc = "receiving"
      /\ msgs \in Nat
      /\ OwnBubbles /\ AnswerMatched /\ Shown
  BY <1>1, ReceivingFacts
<1>3. PICK n \in Nat : n = Len(cli.blocks)
  BY <1>1, ReceivingFacts, InSeq DEF Blocks
<1>4. /\ Replied /\ open.bubble = 0
      /\ cli.msg \in 0 .. msgs
      /\ \A i \in DOMAIN bubbles : bubbles[i].of[1] \in 1 .. cli.msg
  BY <1>1, <1>3, AnswerFacts
<1>5. msgs' \in Nat /\ msgs <= msgs' /\ 0 # msgs'
  BY <1>1, <1>2
<1>6. <<>> \in Blocks /\ <<>> \in Seq(Nat)
  BY EmptySeq DEF Blocks
<1>7. /\ cli' \in Cli /\ cli'.msg = msgs' /\ Settled(cli')
      /\ cli'.blocks = <<>> /\ cli'.sid = cli.sid /\ cli'.loaded = cli.loaded
      /\ ~ cli'.done
  BY <1>0, <1>1, <1>2, <1>5, <1>6 DEF Cli, Blocks, Settled
<1>8. gate' \in Gate /\ ~ gate'.stream /\ Accounted(gate')
  BY <1>0, <1>1, <1>2 DEF Gate, Accounted
<1>9. TextTyped'
  BY <1>1, <1>2, <1>6, <1>7, <1>8 DEF TextTyped
<1>10. Sound(files', nextId', msgs') /\ nextId' \in Nat /\ nextId' > 0
  <2>1. Sound(files, nextId, msgs) /\ nextId \in Nat /\ nextId > 0
    BY <1>2, FilesAreSound DEF TypeOK, FilesSound
  <2>2. Sound(files, nextId, msgs')
    BY <1>2, <1>5, <2>1, SoundGrows DEF Sound
  <2> QED
    BY <1>1, <2>1, <2>2
<1>11. SessionInv'
  BY <1>1, <1>2, <1>5, <1>7, <1>9, <1>10, ReceivingKeeps
<1>12. OwnBubbles'
  <2>1. cli'.msg \in 0 .. msgs'
    BY <1>5, <1>7
  <2>2. \A i \in DOMAIN bubbles : bubbles[i].of[1] \in 1 .. msgs' /\ bubbles[i].of[1] # msgs'
    BY <1>1, <1>2, <1>4
  <2> QED
    BY <1>1, <1>7, <1>8, <2>1, <2>2 DEF OwnBubbles
<1>13. AnswerMatched'
  BY <1>1, <1>4, <1>7, NothingInOrder
<1>14. Shown'
  BY <1>1, <1>2 DEF Shown
<1>15. TurnInv'
  BY <1>7, <1>8, <1>12, <1>13, <1>14, StillAnswers
<1> QED
  BY <1>11, <1>15

LEMMA BlockStartsKeeps ==
    ASSUME SessionInv, TurnInv, BlockStarts
    PROVE  SessionInv' /\ TurnInv'
<1>0. Answering /\ Settled(cli) /\ Accounted(gate) /\ ~ cli.done /\ Replied
  BY AnswerSettled DEF BlockStarts
<1>1. /\ Answering /\ Receiving /\ Kept /\ AllStopped /\ cli.msg # 0
      /\ cli' = [cli EXCEPT !.blocks = Append(@, [stopped |-> FALSE, told |-> FALSE])]
      /\ StreamStarts(cli.msg, Len(cli.blocks) + 1)
      /\ UNCHANGED fileVars /\ UNCHANGED <<sdkSid, pc, outcome, streamed, told>>
  BY <1>0 DEF BlockStarts, Answering
<1>2. /\ TypeOK /\ TextTyped /\ cli \in Cli /\ gate \in Gate /\ pc = "receiving"
      /\ bubbles \in Seq(Bubble) /\ DOMAIN bubbles = 1 .. Len(bubbles) /\ Len(bubbles) \in Nat
      /\ msgs \in Nat /\ cli.blocks \in Blocks
      /\ streamed \in Seq(Nat) /\ cli.msg \in Nat
      /\ Shown
  BY <1>1, ReceivingFacts
<1>3. PICK n \in Nat : n = Len(cli.blocks)
  BY <1>2, InSeq DEF Blocks
<1>4. PICK m \in Nat : m = cli.msg
  BY <1>2
<1>5. /\ open.bubble = 0 /\ ~ gate.stream /\ StoppedCount = n
      /\ DOMAIN cli.blocks = 1 .. n
      /\ \A b \in 1 .. n : cli.blocks[b].stopped
      /\ \E k \in 0 .. n : InOrder(k)
      /\ m \in 1 .. msgs
      /\ \A i \in DOMAIN bubbles :
            /\ bubbles[i].of[1] \in 1 .. m
            /\ bubbles[i].of[1] = m => bubbles[i].of[2] <= n
  BY <1>1, <1>2, <1>3, <1>4, AnswerFacts
<1> DEFINE new == [stopped |-> FALSE, told |-> FALSE]
<1>6. /\ Append(cli.blocks, new) \in Blocks /\ Append(cli.blocks, new) # <<>>
      /\ DOMAIN Append(cli.blocks, new) = 1 .. n + 1 /\ Len(Append(cli.blocks, new)) = n + 1
      /\ \A i \in 1 .. n : Append(cli.blocks, new)[i] = cli.blocks[i]
      /\ Append(cli.blocks, new)[n + 1] = new
  <2>1. new \in [stopped : BOOLEAN, told : BOOLEAN]
    OBVIOUS
  <2>2. cli.blocks \in Seq([stopped : BOOLEAN, told : BOOLEAN])
    BY <1>2 DEF Blocks
  <2> HIDE DEF new
  <2>3. /\ Append(cli.blocks, new) \in Seq([stopped : BOOLEAN, told : BOOLEAN])
        /\ Append(cli.blocks, new) # <<>>
        /\ DOMAIN Append(cli.blocks, new) = 1 .. Len(cli.blocks) + 1
        /\ Len(Append(cli.blocks, new)) = Len(cli.blocks) + 1
        /\ \A i \in DOMAIN cli.blocks : Append(cli.blocks, new)[i] = cli.blocks[i]
        /\ Append(cli.blocks, new)[Len(cli.blocks) + 1] = new
    BY <2>1, <2>2, OfAppend
  <2> QED
    BY <1>3, <1>5, <2>3 DEF Blocks
<1>7. /\ cli' \in Cli /\ cli'.msg = m /\ Settled(cli')
      /\ cli'.blocks = Append(cli.blocks, new) /\ cli'.sid = cli.sid /\ cli'.loaded = cli.loaded
      /\ ~ cli'.done
  BY <1>0, <1>1, <1>2, <1>4, <1>6 DEF Cli, Blocks, Settled
<1>8. /\ cli'.blocks # <<>> /\ DOMAIN cli'.blocks = 1 .. n + 1 /\ Len(cli'.blocks) = n + 1
      /\ \A b \in 1 .. n : cli'.blocks[b] = cli.blocks[b]
      /\ ~ cli'.blocks[n + 1].stopped /\ ~ cli'.blocks[n + 1].told
  BY <1>6, <1>7
<1>9. /\ gate' \in Gate /\ open' \in OpenBlock /\ bubbles' \in Seq(Bubble)
      /\ ~ gate'.stream /\ gate'.genuine
      /\ open'.bubble = Len(bubbles) + 1 /\ ~ open'.committed
      /\ DOMAIN bubbles' = 1 .. Len(bubbles) + 1
      /\ \A i \in DOMAIN bubbles : bubbles'[i] = bubbles[i]
      /\ bubbles'[Len(bubbles) + 1].of = <<m, n + 1>>
  <2>1. StreamStarts(m, n + 1) /\ n + 1 \in Nat
    BY <1>1, <1>3, <1>4
  <2>2. /\ gate' \in Gate /\ open' \in OpenBlock /\ bubbles' \in Seq(Bubble)
        /\ ~ gate.stream =>
             /\ ~ gate'.stream /\ gate'.genuine
             /\ open'.bubble = Len(bubbles) + 1 /\ ~ open'.committed
             /\ DOMAIN bubbles' = 1 .. Len(bubbles) + 1
             /\ \A i \in DOMAIN bubbles : bubbles'[i] = bubbles[i]
             /\ bubbles'[Len(bubbles) + 1] = [of |-> <<m, n + 1>>, full |-> FALSE]
    BY <1>2, <2>1, AfterStart
  <2>3. [of |-> <<m, n + 1>>, full |-> FALSE].of = <<m, n + 1>>
    OBVIOUS
  <2> QED
    BY <1>5, <2>2, <2>3
<1>10. TextTyped'
  BY <1>1, <1>2, <1>7, <1>9 DEF TextTyped
<1>11. SessionInv'
  BY <1>1, <1>2, <1>7, <1>10, ReceivingKeepsFiles
<1>12. /\ DOMAIN bubbles' = DOMAIN bubbles \cup {Len(bubbles) + 1}
       /\ open'.bubble # 0 /\ open'.bubble \in DOMAIN bubbles'
  BY <1>2, <1>9
<1>13. /\ <<m, n + 1>>[1] = m /\ <<m, n + 1>>[2] = n + 1 /\ n + 1 <= n + 1 /\ ~ n + 1 <= n
       /\ \A x : x <= n /\ x \in Nat => x <= n + 1
  OBVIOUS
<1> DEFINE last == Len(bubbles) + 1
<1>14. /\ DOMAIN bubbles' = DOMAIN bubbles \cup {last} /\ bubbles'[last].of = <<m, n + 1>>
       /\ \A i \in DOMAIN bubbles : bubbles'[i] = bubbles[i] /\ bubbles[i].of[2] \in Nat
  <2>1. \A i \in DOMAIN bubbles : bubbles[i] \in Bubble
    BY <1>2, ElementOfSeq
  <2> QED
    BY <1>9, <1>12, <2>1 DEF Bubble
<1> HIDE DEF last, new
<1>15. OwnBubbles'
  <2>1. \A i \in DOMAIN bubbles' :
            /\ bubbles'[i].of[1] \in 1 .. m
            /\ bubbles'[i].of[1] = m => bubbles'[i].of[2] <= n + 1
    BY <1>5, <1>13, <1>14
  <2>2. m \in 0 .. msgs'
    BY <1>1, <1>2, <1>5 DEF fileVars
  <2> QED
    BY <1>7, <1>8, <1>9, <2>1, <2>2 DEF OwnBubbles
<1>16. AnswerMatched'
  <2>1. ASSUME NEW b \in 1 .. n + 1
        PROVE  cli'.blocks[b].stopped <=> b # n + 1 \/ open'.bubble = 0
    <3>1. CASE b = n + 1
      BY <1>8, <1>12, <3>1
    <3>2. CASE b # n + 1
      <4>1. b \in 1 .. n
        BY <3>2
      <4> QED
        BY <1>5, <1>8, <3>2, <4>1
    <3> QED
      BY <3>1, <3>2
  <2>2. /\ bubbles'[open'.bubble].of = <<m, n + 1>>
        /\ open'.committed <=> cli'.blocks[n + 1].told
    BY <1>8, <1>9
  <2>3. PICK k \in 0 .. n : InOrder(k)
    BY <1>5
  <2>4. InOrder(k)'
    <3>1. StoppedCount' = n
      BY <1>8, <1>12 DEF StoppedCount
    <3>2. Len(streamed') = IF k <= n THEN n - k ELSE 0
      BY <1>1, <1>5, <2>3 DEF InOrder
    <3>3. \A b \in 1 .. n : cli.blocks[b].told <=> b <= k
      BY <1>5, <2>3 DEF InOrder
    <3>4. \A b \in 1 .. n + 1 : b \in 1 .. n \/ (b = n + 1 /\ ~ b <= k)
      OBVIOUS
    <3>5. \A b \in 1 .. n + 1 : cli'.blocks[b].told <=> b <= k
      BY <1>8, <3>3, <3>4
    <3>6. \A i \in DOMAIN streamed :
             streamed[i] \in DOMAIN bubbles /\ bubbles[streamed[i]].of = <<m, k + i>>
      BY <1>4, <2>3 DEF InOrder
    <3>7. \A i \in DOMAIN streamed' :
             streamed'[i] \in DOMAIN bubbles' /\ bubbles'[streamed'[i]].of = <<m, k + i>>
      BY <1>1, <1>14, <3>6
    <3> QED
      BY <1>7, <1>8, <3>1, <3>2, <3>5, <3>7 DEF InOrder
  <2>5. \E l \in 0 .. Len(cli'.blocks) : InOrder(l)'
    BY <1>8, <2>4
  <2> QED
    BY <1>7, <1>8, <1>12, <2>1, <2>2, <2>5 DEF AnswerMatched
<1>17. Shown'
  <2>1. \A i \in DOMAIN bubbles : bubbles[i].of # <<m, n + 1>>
    BY <1>5, <1>13
  <2>2. told' = told
    BY <1>1
  <2> QED
    BY <1>2, <1>9, <2>1, <2>2, OneMore
<1>18. Accounted(gate')
  BY <1>9 DEF Accounted
<1>19. TurnInv'
  BY <1>7, <1>15, <1>16, <1>17, <1>18, StillAnswers
<1> QED
  BY <1>11, <1>19

LEMMA BlockGrowsKeeps ==
    ASSUME SessionInv, TurnInv, BlockGrows
    PROVE  SessionInv' /\ TurnInv'
<1>0. Answering /\ Settled(cli) /\ Accounted(gate) /\ ~ cli.done /\ Replied
  BY AnswerSettled DEF BlockGrows
<1>1. /\ Answering /\ Receiving /\ Kept /\ Delta
      /\ UNCHANGED fileVars
      /\ UNCHANGED <<sdkSid, pc, outcome, gate, open, streamed, cli, told>>
  BY <1>0 DEF BlockGrows, Answering
<1>2. /\ TypeOK /\ TextTyped /\ pc = "receiving" /\ Targets
      /\ bubbles \in Seq(Bubble) /\ DOMAIN bubbles = 1 .. Len(bubbles)
      /\ msgs \in Nat
      /\ OwnBubbles /\ AnswerMatched /\ Shown
  BY <1>1, ReceivingFacts
<1>3. /\ bubbles' \in Seq(Bubble) /\ DOMAIN bubbles' = DOMAIN bubbles
      /\ \A i \in DOMAIN bubbles :
            /\ bubbles'[i].of = bubbles[i].of
            /\ \A x : bubbles[i] = [of |-> x, full |-> TRUE] => bubbles'[i] = bubbles[i]
  <2>1. CASE open.bubble # 0 /\ ~ open.committed
    <3> DEFINE k == open.bubble
               more == [bubbles[k] EXCEPT !.full = TRUE]
    <3>1. k \in DOMAIN bubbles /\ bubbles' = [bubbles EXCEPT ![k] = more]
      BY <1>1, <1>2, <2>1 DEF Delta, Targets
    <3>2. bubbles[k] \in Bubble
      BY <1>2, <3>1, ElementOfSeq
    <3>3. /\ more \in Bubble /\ more.of = bubbles[k].of
          /\ \A x : bubbles[k] = [of |-> x, full |-> TRUE] => more = bubbles[k]
      <4>1. more \in Bubble /\ more.of = bubbles[k].of
        BY <3>2 DEF Bubble
      <4>2. ASSUME NEW x, bubbles[k] = [of |-> x, full |-> TRUE]
            PROVE  more = bubbles[k]
        <5>1. bubbles[k].full = TRUE
          BY <4>2
        <5>2. more.full = TRUE
          BY <3>2 DEF Bubble
        <5>3. ASSUME NEW c \in Bubble, NEW d \in Bubble, c.of = d.of, c.full = d.full PROVE c = d
          BY <5>3 DEF Bubble
        <5> QED
          BY <3>2, <4>1, <5>1, <5>2, <5>3
      <4> QED
        BY <4>1, <4>2
    <3> HIDE DEF k, more
    <3>4. bubbles' \in Seq(Bubble)
      BY <1>2, <3>1, <3>3, ExceptSeq
    <3>5. DOMAIN bubbles' = DOMAIN bubbles
          /\ \A i \in DOMAIN bubbles : bubbles'[i] = IF i = k THEN more ELSE bubbles[i]
      BY <3>1
    <3> QED
      BY <3>3, <3>4, <3>5
  <2>2. CASE ~ (open.bubble # 0 /\ ~ open.committed)
    BY <1>1, <1>2, <2>2 DEF Delta
  <2> QED
    BY <2>1, <2>2
<1>4. TextTyped'
  BY <1>1, <1>2, <1>3 DEF TextTyped
<1>5. Settled(cli') /\ Accounted(gate') /\ ~ cli'.done /\ msgs' = msgs
  BY <1>0, <1>1 DEF fileVars
<1>6. SessionInv'
  BY <1>1, <1>2, <1>4, <1>5, ReceivingKeepsFiles
<1>7. Replied
  BY <1>0
<1>8. OwnBubbles'
  BY <1>1, <1>2, <1>3, <1>5, <1>7 DEF OwnBubbles
<1>9. AnswerMatched'
  <2>1. PICK k \in 0 .. Len(cli.blocks) : InOrder(k)
    BY <1>2, <1>7 DEF AnswerMatched
  <2>2. InOrder(k)'
    BY <1>1, <1>3, <2>1 DEF InOrder, StoppedCount
  <2>3. \E l \in 0 .. Len(cli'.blocks) : InOrder(l)'
    BY <1>1, <2>1, <2>2
  <2>4. /\ \A b \in DOMAIN cli'.blocks :
            cli'.blocks[b].stopped <=> b # Len(cli'.blocks) \/ open'.bubble = 0
        /\ open'.bubble # 0 =>
            /\ cli'.blocks # <<>>
            /\ open'.bubble \in DOMAIN bubbles'
            /\ bubbles'[open'.bubble].of = <<cli'.msg, Len(cli'.blocks)>>
            /\ open'.committed <=> cli'.blocks[Len(cli'.blocks)].told
    BY <1>1, <1>2, <1>3, <1>7 DEF AnswerMatched
  <2> QED
    BY <2>3, <2>4 DEF AnswerMatched
<1>10. Shown'
  <2>1. ASSUME NEW x \in told'
        PROVE  \E i \in DOMAIN bubbles' : bubbles'[i] = [of |-> x, full |-> TRUE]
    <3>1. PICK i \in DOMAIN bubbles : bubbles[i] = [of |-> x, full |-> TRUE]
      BY <1>1, <1>2, <2>1 DEF Shown
    <3>2. i \in DOMAIN bubbles' /\ bubbles'[i] = [of |-> x, full |-> TRUE]
      BY <1>3, <3>1
    <3> QED
      BY <3>2
  <2>2. \A i, j \in DOMAIN bubbles' : bubbles'[i].of = bubbles'[j].of => i = j
    BY <1>2, <1>3 DEF Shown
  <2> QED
    BY <2>1, <2>2 DEF Shown
<1>11. TurnInv'
  BY <1>5, <1>8, <1>9, <1>10, StillAnswers
<1> QED
  BY <1>6, <1>11

LEMMA BlockStopsKeeps ==
    ASSUME SessionInv, TurnInv, BlockStops
    PROVE  SessionInv' /\ TurnInv'
<1>0. Answering /\ Settled(cli) /\ Accounted(gate) /\ ~ cli.done /\ Replied
  BY AnswerSettled DEF BlockStops
<1>1. /\ Answering /\ Receiving /\ Kept /\ ~ AllStopped
      /\ cli' = [cli EXCEPT !.blocks[Len(cli.blocks)].stopped = TRUE]
      /\ open' = NoBlock
      /\ streamed' = IF open.bubble # 0 /\ ~ open.committed
                     THEN Append(streamed, open.bubble) ELSE streamed
      /\ UNCHANGED fileVars /\ UNCHANGED <<sdkSid, pc, outcome, gate, bubbles, told>>
  BY <1>0 DEF BlockStops, Answering, Stops
<1>2. /\ TypeOK /\ TextTyped /\ cli \in Cli /\ pc = "receiving" /\ Targets
      /\ msgs \in Nat /\ cli.blocks \in Blocks
      /\ streamed \in Seq(Nat) /\ open.bubble \in Nat
      /\ OwnBubbles /\ Shown
  BY <1>1, ReceivingFacts
<1>3. PICK n \in Nat : n = Len(cli.blocks)
  BY <1>2, InSeq DEF Blocks
<1>4. /\ Replied /\ open.bubble # 0 /\ n > 0 /\ n \in 1 .. n /\ StoppedCount = n - 1
      /\ DOMAIN cli.blocks = 1 .. n
      /\ open.bubble \in DOMAIN bubbles /\ bubbles[open.bubble].of = <<cli.msg, n>>
      /\ open.committed <=> cli.blocks[n].told
      /\ \A b \in 1 .. n : cli.blocks[b].stopped <=> b # n
      /\ \E k \in 0 .. n : InOrder(k)
  BY <1>1, <1>3, AnswerFacts
<1> DEFINE last == [cli.blocks[n] EXCEPT !.stopped = TRUE]
           blocks == [cli.blocks EXCEPT ![n] = last]
<1>5. cli.blocks[n] \in [stopped : BOOLEAN, told : BOOLEAN]
  BY <1>2, <1>3, <1>4, ElementOfSeq DEF Blocks
<1>6. /\ last \in [stopped : BOOLEAN, told : BOOLEAN] /\ last.stopped
      /\ last.told <=> cli.blocks[n].told
  BY <1>5
<1>7. cli' = [cli EXCEPT !.blocks = blocks]
  BY <1>1, <1>2, <1>3 DEF Cli
<1> HIDE DEF last
<1>8. /\ blocks \in Blocks /\ DOMAIN blocks = 1 .. n /\ Len(blocks) = n
      /\ \A b \in 1 .. n : blocks[b] = IF b = n THEN last ELSE cli.blocks[b]
  <2>1. blocks \in Blocks /\ Len(blocks) = n
    BY <1>2, <1>3, <1>4, <1>6, ExceptSeq DEF Blocks
  <2> QED
    BY <1>4, <2>1
<1> HIDE DEF blocks
<1>9. /\ cli' \in Cli /\ cli'.msg = cli.msg /\ Settled(cli')
      /\ cli'.blocks = blocks /\ cli'.sid = cli.sid /\ cli'.loaded = cli.loaded
      /\ ~ cli'.done
  BY <1>0, <1>1, <1>2, <1>7, <1>8 DEF Cli, Blocks, Settled
<1>10. /\ streamed' \in Seq(Nat) /\ open' \in OpenBlock /\ open'.bubble = 0
  BY <1>1, <1>2, OfAppend, NoGateTyped DEF NoBlock
<1>11. TextTyped'
  BY <1>1, <1>2, <1>9, <1>10 DEF TextTyped
<1>12. SessionInv'
  BY <1>1, <1>2, <1>9, <1>11, ReceivingKeepsFiles
<1>13. OwnBubbles'
  BY <1>1, <1>2, <1>3, <1>4, <1>8, <1>9 DEF OwnBubbles, fileVars
<1>14. \A b \in 1 .. n : blocks[b].stopped /\ (blocks[b].told <=> cli.blocks[b].told)
  BY <1>4, <1>6, <1>8
<1>15. StoppedCount' = n
  BY <1>8, <1>9, <1>10 DEF StoppedCount
<1>16. PICK k \in 0 .. n : InOrder(k)
  BY <1>4
<1>17. /\ \A b \in 1 .. n : cli.blocks[b].told <=> b <= k
       /\ Len(streamed) = IF k <= n - 1 THEN n - 1 - k ELSE 0
       /\ \A i \in DOMAIN streamed :
             streamed[i] \in DOMAIN bubbles /\ bubbles[streamed[i]].of = <<cli.msg, k + i>>
  BY <1>4, <1>16 DEF InOrder
<1>18. /\ Len(streamed') = IF k <= n THEN n - k ELSE 0
       /\ \A i \in DOMAIN streamed' :
             streamed'[i] \in DOMAIN bubbles /\ bubbles[streamed'[i]].of = <<cli.msg, k + i>>
  <2>1. CASE open.committed
    <3>1. k = n
      BY <1>4, <1>17, <2>1
    <3>2. streamed' = streamed /\ Len(streamed) = 0
      BY <1>1, <1>17, <2>1, <3>1
    <3> QED
      BY <1>17, <3>1, <3>2
  <2>2. CASE ~ open.committed
    <3>1. k <= n - 1
      BY <1>4, <1>17, <2>2
    <3>2. streamed' = Append(streamed, open.bubble) /\ Len(streamed) = n - 1 - k
      BY <1>1, <1>4, <1>17, <2>2, <3>1
    <3>3. /\ DOMAIN streamed' = 1 .. Len(streamed) + 1 /\ Len(streamed') = Len(streamed) + 1
          /\ \A i \in DOMAIN streamed : streamed'[i] = streamed[i]
          /\ streamed'[Len(streamed) + 1] = open.bubble
          /\ DOMAIN streamed = 1 .. Len(streamed)
      BY <1>2, <3>2, OfAppend, InSeq
    <3>4. Len(streamed) + 1 = n - k /\ k + (n - k) = n
      BY <3>2
    <3>5. \A i \in DOMAIN streamed' : i \in DOMAIN streamed \/ i = n - k
      BY <3>2, <3>3, <3>4
    <3>6. \A i \in DOMAIN streamed' :
             streamed'[i] \in DOMAIN bubbles /\ bubbles[streamed'[i]].of = <<cli.msg, k + i>>
      BY <1>4, <1>17, <3>3, <3>4, <3>5
    <3>7. Len(streamed') = IF k <= n THEN n - k ELSE 0
      BY <3>3, <3>4
    <3> QED
      BY <3>6, <3>7
  <2> QED
    BY <2>1, <2>2
<1>19. AnswerMatched'
  <2>1. InOrder(k)'
    BY <1>1, <1>8, <1>9, <1>14, <1>15, <1>17, <1>18 DEF InOrder
  <2>2. \E l \in 0 .. Len(cli'.blocks) : InOrder(l)'
    BY <1>8, <1>9, <2>1
  <2> QED
    BY <1>8, <1>9, <1>10, <1>14, <2>2 DEF AnswerMatched
<1>20. Shown' /\ bubbles' = bubbles
  BY <1>1, <1>2 DEF Shown
<1>21. Accounted(gate')
  BY <1>0, <1>1
<1>22. TurnInv'
  BY <1>9, <1>13, <1>19, <1>20, <1>21, StillAnswers
<1> QED
  BY <1>12, <1>22

(* A text is delivered for the first block that has none, and goes to the   *)
(* bubble of that block.                                                    *)
LEMMA TextDeliveredKeeps ==
    ASSUME SessionInv, TurnInv, TextDelivered
    PROVE  SessionInv' /\ TurnInv'
<1>0. Answering /\ Settled(cli) /\ Accounted(gate) /\ ~ cli.done /\ Replied
  BY AnswerSettled DEF TextDelivered
<1>1. /\ Answering /\ Receiving /\ Kept /\ cli.msg # 0
      /\ files' = Written(cli.msg)
      /\ gate' = [gate EXCEPT !.genuine = TRUE]
      /\ sdkSid' = cli.sid
      /\ UNCHANGED <<nextId, msgs, pc, outcome>>
  BY <1>0 DEF TextDelivered, Answering
<1>2. /\ TypeOK /\ FilesSound /\ TextTyped /\ cli \in Cli /\ gate \in Gate /\ pc = "receiving"
      /\ Targets /\ bubbles \in Seq(Bubble) /\ DOMAIN bubbles = 1 .. Len(bubbles)
      /\ Len(bubbles) \in Nat
      /\ msgs \in Nat /\ cli.blocks \in Blocks
      /\ streamed \in Seq(Nat) /\ cli.msg \in Nat
      /\ Shown
  BY <1>1, ReceivingFacts
<1>3. PICK n \in Nat : n = Len(cli.blocks)
  BY <1>2, InSeq DEF Blocks
<1>4. PICK m \in Nat : m = cli.msg
  BY <1>2
<1>5. /\ DOMAIN cli.blocks = 1 .. n
      /\ AllStopped <=> open.bubble = 0
      /\ open.bubble # 0 => n > 0 /\ n \in 1 .. n
      /\ open.bubble # 0 =>
            /\ open.bubble \in DOMAIN bubbles
            /\ bubbles[open.bubble].of = <<m, n>>
            /\ open.committed <=> cli.blocks[n].told
      /\ \A b \in 1 .. n : cli.blocks[b].stopped <=> b # n \/ open.bubble = 0
      /\ StoppedCount = IF open.bubble = 0 THEN n ELSE n - 1
      /\ \E k \in 0 .. n : InOrder(k)
      /\ m \in 1 .. msgs /\ ~ gate.stream
      /\ \A i \in DOMAIN bubbles :
            /\ bubbles[i].of[1] \in 1 .. m
            /\ bubbles[i].of[1] = m => bubbles[i].of[2] <= n
  BY <1>1, <1>2, <1>3, <1>4, AnswerFacts
<1>6. PICK k \in 0 .. n : InOrder(k)
  BY <1>5
<1>7. /\ \A b \in 1 .. n : cli.blocks[b].told <=> b <= k
      /\ Len(streamed) = IF k <= StoppedCount THEN StoppedCount - k ELSE 0
      /\ \A i \in DOMAIN streamed :
             streamed[i] \in DOMAIN bubbles /\ bubbles[streamed[i]].of = <<m, k + i>>
  BY <1>4, <1>5, <1>6 DEF InOrder
<1> DEFINE fullText == [stopped |-> TRUE, told |-> TRUE]
<1>8. PICK b \in 1 .. n + 1 :
        /\ \A c \in 1 .. b - 1 : cli.blocks[c].told
        /\ \/ /\ b <= n
              /\ ~ cli.blocks[b].told
              /\ b = n \/ AllStopped
              /\ cli' = [cli EXCEPT !.blocks[b].told = TRUE]
           \/ /\ b = n + 1
              /\ AllStopped
              /\ cli' = [cli EXCEPT !.blocks = Append(@, fullText)]
        /\ Delivered(m, b)
        /\ told' = told \cup {<<m, b>>}
  BY <1>3, <1>4 DEF TextDelivered
<1>9. b = k + 1
  <2>1. b - 1 <= k
    <3>1. CASE b = 1
      BY <3>1
    <3>2. CASE b # 1
      <4>1. b - 1 \in 1 .. b - 1 /\ b - 1 \in 1 .. n
        BY <3>2
      <4> QED
        BY <1>7, <1>8, <4>1
    <3> QED
      BY <3>1, <3>2
  <2>2. CASE b = n + 1
    BY <2>1, <2>2
  <2>3. CASE b # n + 1
    <3>1. b \in 1 .. n /\ ~ cli.blocks[b].told
      BY <1>8, <2>3
    <3>2. ~ b <= k
      BY <1>7, <3>1
    <3> QED
      BY <2>1, <3>2
  <2> QED
    BY <2>2, <2>3
<1> DEFINE l == IF b <= n THEN n ELSE n + 1
<1>10. /\ cli' \in Cli /\ cli'.msg = m /\ Settled(cli')
       /\ cli'.sid = cli.sid /\ cli'.loaded = cli.loaded /\ ~ cli'.done
       /\ DOMAIN cli'.blocks = 1 .. l /\ Len(cli'.blocks) = l
       /\ \A c \in 1 .. l : IF c \in 1 .. n /\ c # b THEN cli'.blocks[c] = cli.blocks[c]
                            ELSE c = b /\ cli'.blocks[c].told
       /\ b <= n => (cli'.blocks[b].stopped <=> cli.blocks[b].stopped)
       /\ b = n + 1 => cli'.blocks[b].stopped
  <2>1. CASE b <= n
    <3> DEFINE last == [cli.blocks[b] EXCEPT !.told = TRUE]
               blocks == [cli.blocks EXCEPT ![b] = last]
    <3>1. b \in 1 .. n /\ cli.blocks[b] \in [stopped : BOOLEAN, told : BOOLEAN]
      <4>1. b \in 1 .. n
        BY <2>1
      <4> QED
        BY <1>2, <1>3, <4>1, ElementOfSeq DEF Blocks
    <3>2. /\ last \in [stopped : BOOLEAN, told : BOOLEAN] /\ last.told
          /\ last.stopped <=> cli.blocks[b].stopped
      BY <3>1
    <3>3. cli' = [cli EXCEPT !.blocks[b].told = TRUE]
      BY <1>8, <2>1
    <3>4. cli' = [cli EXCEPT !.blocks = blocks]
      BY <1>2, <3>3 DEF Cli
    <3> HIDE DEF last
    <3>5. blocks \in Blocks /\ Len(blocks) = n
      BY <1>2, <1>3, <3>1, <3>2, ExceptSeq DEF Blocks
    <3>6. /\ DOMAIN blocks = 1 .. n
          /\ \A c \in 1 .. n : blocks[c] = IF c = b THEN last ELSE cli.blocks[c]
      BY <1>5, <3>1
    <3> HIDE DEF blocks
    <3>7. /\ cli' \in Cli /\ cli'.msg = cli.msg /\ cli'.todo = cli.todo /\ cli'.owed = cli.owed
          /\ cli'.behind = cli.behind /\ cli'.done = cli.done
          /\ cli'.blocks = blocks /\ cli'.sid = cli.sid /\ cli'.loaded = cli.loaded
      BY <1>2, <3>4, <3>5 DEF Cli, Blocks
    <3>8. l = n /\ ~ b = n + 1
      BY <2>1
    <3> HIDE DEF l
    <3>9. Settled(cli') /\ cli'.msg = m /\ ~ cli'.done
      BY <1>0, <1>4, <3>7 DEF Settled
    <3> QED
      BY <3>1, <3>2, <3>5, <3>6, <3>7, <3>8, <3>9
  <2>2. CASE b = n + 1
    <3>1. fullText \in [stopped : BOOLEAN, told : BOOLEAN] /\ fullText.stopped /\ fullText.told
      OBVIOUS
    <3>2. cli' = [cli EXCEPT !.blocks = Append(cli.blocks, fullText)]
      BY <1>2, <1>8, <2>2 DEF Cli
    <3> HIDE DEF fullText
    <3>3. /\ Append(cli.blocks, fullText) \in Blocks
          /\ DOMAIN Append(cli.blocks, fullText) = 1 .. n + 1
          /\ Len(Append(cli.blocks, fullText)) = n + 1
          /\ \A i \in 1 .. n : Append(cli.blocks, fullText)[i] = cli.blocks[i]
          /\ Append(cli.blocks, fullText)[n + 1] = fullText
      BY <1>2, <1>3, <1>5, <3>1, OfAppend DEF Blocks
    <3>4. /\ cli' \in Cli /\ cli'.msg = cli.msg /\ cli'.todo = cli.todo /\ cli'.owed = cli.owed
          /\ cli'.behind = cli.behind /\ cli'.done = cli.done
          /\ cli'.blocks = Append(cli.blocks, fullText)
          /\ cli'.sid = cli.sid /\ cli'.loaded = cli.loaded
      BY <1>2, <3>2, <3>3 DEF Cli, Blocks
    <3>5. l = n + 1 /\ ~ b <= n
      BY <2>2
    <3>6. \A c \in 1 .. n + 1 : (c \in 1 .. n /\ c # b) \/ (c = n + 1 /\ c = b /\ c \notin 1 .. n)
      BY <2>2
    <3> HIDE DEF l
    <3>7. Settled(cli') /\ cli'.msg = m /\ ~ cli'.done
      BY <1>0, <1>4, <3>4 DEF Settled
    <3> QED
      BY <2>2, <3>1, <3>3, <3>4, <3>5, <3>6, <3>7
  <2> QED
    BY <2>1, <2>2
<1> HIDE DEF fullText
<1> DEFINE full == [of |-> <<m, b>>, full |-> TRUE]
<1>11. full.of = <<m, b>> /\ <<m, b>>[1] = m /\ <<m, b>>[2] = b /\ b \in Nat
  OBVIOUS
<1>12. /\ bubbles' \in Seq(Bubble) /\ open' \in OpenBlock /\ streamed' \in Seq(Nat)
       /\ \/ /\ open.bubble # 0 /\ ~ open.committed /\ open.bubble \in DOMAIN bubbles
             /\ DOMAIN bubbles' = DOMAIN bubbles
             /\ \A i \in DOMAIN bubbles :
                    bubbles'[i] = IF i = open.bubble THEN full ELSE bubbles[i]
             /\ open'.bubble = open.bubble /\ open'.committed /\ streamed' = streamed
          \/ /\ open.bubble = 0 \/ open.committed
             /\ streamed # <<>> /\ streamed' = Tail(streamed) /\ open' = open
             /\ Head(streamed) \in DOMAIN bubbles /\ DOMAIN bubbles' = DOMAIN bubbles
             /\ \A i \in DOMAIN bubbles :
                    bubbles'[i] = IF i = Head(streamed) THEN full ELSE bubbles[i]
          \/ /\ open.bubble = 0 \/ open.committed
             /\ streamed = <<>> /\ UNCHANGED <<open, streamed>>
             /\ DOMAIN bubbles' = 1 .. Len(bubbles) + 1
             /\ \A i \in DOMAIN bubbles : bubbles'[i] = bubbles[i]
             /\ bubbles'[Len(bubbles) + 1] = full
  <2> HIDE DEF full
  <2>1. full = [of |-> <<m, b>>, full |-> TRUE] /\ Delivered(m, b) /\ b \in Nat
    BY <1>8 DEF full
  <2> QED
    BY <1>2, <2>1, AfterDelivery
<1>13. gate' \in Gate /\ gate'.stream = gate.stream /\ Accounted(gate')
  BY <1>1, <1>2 DEF Gate, Accounted
<1>14. TextTyped'
  BY <1>10, <1>12, <1>13 DEF TextTyped
<1>15. SessionInv'
  <2>1. Sound(files', nextId, msgs) /\ DOMAIN files' = DOMAIN files
    BY <1>1, <1>2, <1>4, <1>5, WrittenIsSound
  <2>2. nextId \in Nat /\ nextId > 0 /\ msgs <= msgs
    BY <1>2 DEF TypeOK, FilesSound
  <2> QED
    BY <1>1, <1>2, <1>10, <1>14, <2>1, <2>2, ReceivingKeeps
<1> HIDE DEF l
<1>16. l = IF b <= n THEN n ELSE n + 1
  BY DEF l
<1>17. open.bubble # 0 => b = n /\ ~ open.committed
  <2> SUFFICES ASSUME open.bubble # 0 PROVE b = n /\ ~ open.committed
    OBVIOUS
  <2>1. ~ AllStopped
    BY <1>5
  <2>2. b = n /\ ~ cli.blocks[n].told
    BY <1>8, <2>1
  <2> QED
    BY <1>5, <2>2
<1>18. open'.bubble = open.bubble
  BY <1>12
<1>19. \A c \in 1 .. l : cli'.blocks[c].told <=> c <= b
  <2> SUFFICES ASSUME NEW c \in 1 .. l PROVE cli'.blocks[c].told <=> c <= b
    OBVIOUS
  <2>1. CASE c \in 1 .. n /\ c # b
    <3>1. cli'.blocks[c] = cli.blocks[c] /\ (cli.blocks[c].told <=> c <= k)
      BY <1>7, <1>10, <2>1
    <3>2. c <= k <=> c <= b
      BY <1>9, <2>1
    <3> QED
      BY <3>1, <3>2
  <2>2. CASE ~ (c \in 1 .. n /\ c # b)
    BY <1>10, <2>2
  <2> QED
    BY <2>1, <2>2
<1>20. \A c \in 1 .. l : cli'.blocks[c].stopped <=> c # l \/ open'.bubble = 0
  <2> SUFFICES ASSUME NEW c \in 1 .. l
               PROVE  cli'.blocks[c].stopped <=> c # l \/ open'.bubble = 0
    OBVIOUS
  <2>1. CASE b <= n
    <3>1. l = n /\ c \in 1 .. n
      BY <1>16, <2>1
    <3>2. cli'.blocks[c].stopped <=> cli.blocks[c].stopped
      BY <1>10, <2>1, <3>1
    <3> QED
      BY <1>5, <1>18, <3>1, <3>2
  <2>2. CASE b = n + 1
    <3>1. AllStopped
      BY <1>8, <2>2
    <3>2. open'.bubble = 0
      BY <1>5, <1>18, <3>1
    <3>3. CASE c = b
      BY <1>10, <2>2, <3>2, <3>3
    <3>4. CASE c # b
      <4>1. c \in 1 .. n
        BY <1>16, <2>2, <3>4
      <4>2. cli'.blocks[c] = cli.blocks[c]
        BY <1>10, <3>4, <4>1
      <4> QED
        BY <1>5, <1>18, <3>2, <4>1, <4>2
    <3> QED
      BY <3>3, <3>4
  <2> QED
    BY <2>1, <2>2
<1>21. StoppedCount' = IF open.bubble = 0 THEN l ELSE l - 1
  BY <1>10, <1>18 DEF StoppedCount
<1>22. DOMAIN streamed = 1 .. Len(streamed) /\ Len(streamed) \in Nat
  BY <1>2, InSeq
<1> HIDE DEF full
<1> DEFINE Filled(j) ==
             /\ j \in DOMAIN bubbles /\ bubbles[j].of = <<m, b>> /\ b <= n
             /\ DOMAIN bubbles' = DOMAIN bubbles
             /\ \A i \in DOMAIN bubbles : bubbles'[i] = IF i = j THEN full ELSE bubbles[i]
           More ==
             /\ b = n + 1
             /\ DOMAIN bubbles' = 1 .. Len(bubbles) + 1
             /\ \A i \in DOMAIN bubbles : bubbles'[i] = bubbles[i]
             /\ bubbles'[Len(bubbles) + 1] = full
           InTurn ==
             /\ Len(streamed') = IF b <= StoppedCount' THEN StoppedCount' - b ELSE 0
             /\ \A i \in DOMAIN streamed' :
                    streamed'[i] \in DOMAIN bubbles /\ bubbles[streamed'[i]].of = <<m, b + i>>
<1>23. InTurn /\ (More \/ \E j \in DOMAIN bubbles : Filled(j))
  <2>1. CASE open.bubble # 0
    <3>1. b = n /\ ~ open.committed
      BY <1>17, <2>1
    <3>2. Filled(open.bubble) /\ streamed' = streamed
      BY <1>5, <1>12, <2>1, <3>1
    <3>3. StoppedCount = n - 1 /\ k = n - 1 /\ StoppedCount' = n - 1
      BY <1>5, <1>9, <1>16, <1>21, <2>1, <3>1
    <3>4. Len(streamed) = 0
      BY <1>7, <3>3
    <3>5. DOMAIN streamed' = {} /\ Len(streamed') = 0
      BY <1>22, <3>2, <3>4
    <3>6. InTurn
      BY <3>1, <3>3, <3>5
    <3>7. open.bubble \in DOMAIN bubbles
      BY <3>2
    <3> QED
      BY <3>2, <3>6, <3>7
  <2>2. CASE open.bubble = 0 /\ streamed # <<>>
    <3>1. /\ streamed' = Tail(streamed) /\ Head(streamed) \in DOMAIN bubbles
          /\ DOMAIN bubbles' = DOMAIN bubbles
          /\ \A i \in DOMAIN bubbles :
                    bubbles'[i] = IF i = Head(streamed) THEN full ELSE bubbles[i]
      BY <1>12, <2>2
    <3>2. Len(streamed) > 0 /\ Head(streamed) = streamed[1]
      BY <1>2, <2>2, InSeq
    <3>3. StoppedCount = n /\ Len(streamed) = n - k /\ b <= n /\ StoppedCount' = n
      <4>1. StoppedCount = n
        BY <1>5, <2>2
      <4>2. Len(streamed) = n - k /\ k < n
        BY <1>7, <3>2, <4>1
      <4>3. b <= n
        BY <1>9, <4>2
      <4> QED
        BY <1>16, <1>21, <2>2, <4>1, <4>2, <4>3
    <3>4. bubbles[Head(streamed)].of = <<m, b>>
      <4>1. 1 \in DOMAIN streamed
        BY <1>22, <3>2
      <4> QED
        BY <1>7, <1>9, <3>2, <4>1
    <3>5. Filled(Head(streamed))
      BY <3>1, <3>3, <3>4
    <3>6. /\ Len(streamed') = Len(streamed) - 1 /\ streamed' \in Seq(Nat)
          /\ \A i \in 1 .. Len(streamed') : streamed'[i] = streamed[i + 1]
      BY <1>2, <2>2, <3>1, HeadTailProperties
    <3>7. DOMAIN streamed' = 1 .. Len(streamed) - 1
      BY <3>6, LenProperties
    <3>8. ASSUME NEW i \in DOMAIN streamed'
          PROVE  streamed'[i] \in DOMAIN bubbles /\ bubbles[streamed'[i]].of = <<m, b + i>>
      <4>1. i + 1 \in DOMAIN streamed /\ streamed'[i] = streamed[i + 1] /\ k + (i + 1) = b + i
        BY <1>9, <1>22, <3>6, <3>7
      <4> QED
        BY <1>7, <4>1
    <3>9. Len(streamed') = IF b <= StoppedCount' THEN StoppedCount' - b ELSE 0
      BY <1>9, <3>3, <3>6
    <3> QED
      BY <3>1, <3>5, <3>8, <3>9
  <2>3. CASE open.bubble = 0 /\ streamed = <<>>
    <3>1. /\ streamed' = <<>>
          /\ DOMAIN bubbles' = 1 .. Len(bubbles) + 1
          /\ \A i \in DOMAIN bubbles : bubbles'[i] = bubbles[i]
          /\ bubbles'[Len(bubbles) + 1] = full
      BY <1>12, <2>3
    <3>2. Len(streamed) = 0 /\ Len(streamed') = 0 /\ DOMAIN streamed' = {}
      BY <2>3, <3>1, EmptySeq, OfEmpty
    <3>3. b = n + 1
      <4>1. StoppedCount = n
        BY <1>5, <2>3
      <4>2. k = n
        BY <1>7, <3>2, <4>1
      <4> QED
        BY <1>9, <4>2
    <3>4. StoppedCount' = b
      BY <1>16, <1>21, <2>3, <3>3
    <3>5. InTurn
      BY <3>2, <3>4
    <3>6. More
      BY <3>1, <3>3
    <3> QED
      BY <3>5, <3>6
  <2> QED
    BY <2>1, <2>2, <2>3
<1>24. /\ DOMAIN bubbles \subseteq DOMAIN bubbles'
       /\ \A i \in DOMAIN bubbles : bubbles'[i].of = bubbles[i].of
       /\ \A i \in DOMAIN bubbles' \ DOMAIN bubbles : bubbles'[i].of = <<m, b>>
  <2>0. full.of = <<m, b>>
    BY <1>11 DEF full
  <2>1. CASE More
    <3>1. DOMAIN bubbles' = DOMAIN bubbles \cup {Len(bubbles) + 1}
      BY <1>2, <2>1
    <3> QED
      BY <2>0, <2>1, <3>1
  <2>2. CASE \E j \in DOMAIN bubbles : Filled(j)
    BY <2>0, <2>2
  <2> QED
    BY <1>23, <2>1, <2>2
<1>25. Shown'
  <2>0. full = [of |-> <<m, b>>, full |-> TRUE] /\ full.of = <<m, b>>
    BY <1>11 DEF full
  <2>1. CASE More
    <3>1. \A i \in DOMAIN bubbles : bubbles[i].of # <<m, b>>
      <4>1. \A i \in DOMAIN bubbles : bubbles[i].of[1] = m => bubbles[i].of[2] # n + 1
        <5>1. \A i \in DOMAIN bubbles : bubbles[i].of[2] \in Nat
          <6>1. \A i \in DOMAIN bubbles : bubbles[i] \in Bubble
            BY <1>2, ElementOfSeq
          <6> QED
            BY <6>1 DEF Bubble
        <5> QED
          BY <1>5, <5>1
      <4> QED
        BY <1>11, <2>1, <4>1
    <3>2. \A i \in DOMAIN bubbles : bubbles[i].of # bubbles'[Len(bubbles) + 1].of
      BY <2>0, <2>1, <3>1
    <3>3. \A x \in told' \ told : bubbles'[Len(bubbles) + 1] = [of |-> x, full |-> TRUE]
      BY <1>8, <2>0, <2>1
    <3> QED
      BY <1>2, <2>1, <3>2, <3>3, OneMore
  <2>2. CASE \E j \in DOMAIN bubbles : Filled(j)
    <3>1. PICK j \in DOMAIN bubbles : Filled(j)
      BY <2>2
    <3>2. told' \in {told, told \cup {<<m, b>>}}
      BY <1>8
    <3> QED
      BY <1>2, <2>0, <3>1, <3>2, OneFilled
  <2> QED
    BY <1>23, <2>1, <2>2
<1>26. OwnBubbles'
  <2>1. \A i \in DOMAIN bubbles' :
            /\ bubbles'[i].of[1] \in 1 .. m
            /\ bubbles'[i].of[1] = m => bubbles'[i].of[2] <= l
    <3> SUFFICES ASSUME NEW i \in DOMAIN bubbles'
                 PROVE  /\ bubbles'[i].of[1] \in 1 .. m
                        /\ bubbles'[i].of[1] = m => bubbles'[i].of[2] <= l
      OBVIOUS
    <3>1. CASE i \in DOMAIN bubbles
      <4>1. bubbles[i].of[2] \in Nat
        <5>1. bubbles[i] \in Bubble
          BY <1>2, <3>1, ElementOfSeq
        <5> QED
          BY <5>1 DEF Bubble
      <4>2. n <= l /\ l \in Nat
        BY <1>16
      <4>3. \A x \in Nat : x <= n => x <= l
        BY <4>2
      <4> QED
        BY <1>5, <1>24, <3>1, <4>1, <4>3
    <3>2. CASE i \notin DOMAIN bubbles
      <4>1. b <= l /\ m \in 1 .. m
        BY <1>5, <1>16
      <4> QED
        BY <1>11, <1>24, <3>2, <4>1
    <3> QED
      BY <3>1, <3>2
  <2>2. m \in 0 .. msgs'
    BY <1>1, <1>2, <1>5
  <2> QED
    BY <1>5, <1>10, <1>13, <2>1, <2>2 DEF OwnBubbles
<1>27. AnswerMatched'
  <2>1. InOrder(b)'
    <3>1. \A i \in DOMAIN streamed' :
            streamed'[i] \in DOMAIN bubbles' /\ bubbles'[streamed'[i]].of = <<m, b + i>>
      BY <1>23, <1>24
    <3> QED
      BY <1>10, <1>19, <1>23, <3>1 DEF InOrder
  <2>2. b \in 0 .. l
    BY <1>16
  <2>3. \E c \in 0 .. Len(cli'.blocks) : InOrder(c)'
    BY <1>10, <2>1, <2>2
  <2>4. ASSUME open'.bubble # 0
        PROVE  /\ cli'.blocks # <<>>
               /\ open'.bubble \in DOMAIN bubbles'
               /\ bubbles'[open'.bubble].of = <<m, l>>
               /\ open'.committed <=> cli'.blocks[l].told
    <3>1. open.bubble # 0 /\ b = n /\ l = n /\ n \in 1 .. n
      BY <1>5, <1>16, <1>17, <1>18, <2>4
    <3>2. open'.committed /\ cli'.blocks[l].told
      BY <1>12, <1>17, <1>19, <3>1
    <3>3. cli'.blocks # <<>>
      BY <1>10, <3>1, OfEmpty
    <3>4. open'.bubble \in DOMAIN bubbles' /\ bubbles'[open'.bubble].of = <<m, l>>
      BY <1>5, <1>18, <1>24, <3>1
    <3> QED
      BY <3>2, <3>3, <3>4
  <2> QED
    BY <1>10, <1>20, <2>3, <2>4 DEF AnswerMatched
<1>28. TurnInv'
  BY <1>10, <1>13, <1>25, <1>26, <1>27, StillAnswers
<1> QED
  BY <1>15, <1>28

-----------------------------------------------------------------------------
(* The invariant, and what follows from it. *)

LEMMA InitIInv == Init => IInv
<1> SUFFICES ASSUME Init PROVE IInv
  OBVIOUS
<1> DEFINE s0 == [n |-> 1, made |-> <<>>]
<1>1. /\ nextId = 2 /\ msgs = 1 /\ live = {} /\ client = 0 /\ clients = 0 /\ connected = FALSE
      /\ cutOff = {} /\ sdkSid = NoSid /\ pc = "fresh" /\ goal = NoGoal /\ turns = 0
      /\ outcome = "none" /\ gate = NoGate /\ open = NoBlock /\ streamed = <<>> /\ bubbles = <<>>
      /\ cli = Fresh /\ told = {}
  BY DEF Init
<1>2. PICK u \in {"no", "some", "only"} :
        files = [s \in {s0} |-> [msgs |-> <<1>>, unsigned |-> u]]
  BY DEF Init
<1>3. <<>> \in Seq(Nat) /\ <<>> \in Seq(Bubble)
  BY EmptySeq
<1>4. <<1>> = Append(<<>>, 1)
  OBVIOUS
<1>5. <<1>> \in Seq(Nat) /\ ToSet(<<1>>) = {1} /\ Distinct(<<1>>) /\ <<1>> # <<>>
  <2>1. /\ \A e \in Seq(Nat) : Append(e, 1) \in Seq(Nat) /\ Append(e, 1) # <<>>
                                 /\ ToSet(Append(e, 1)) = ToSet(e) \cup {1}
        /\ \A e \in Seq(Nat) : Distinct(e) /\ 1 \notin ToSet(e) => Distinct(Append(e, 1))
    BY OfAppend
  <2> DEFINE one == <<1>>
  <2>2. one = Append(<<>>, 1)
    BY <1>4
  <2> HIDE DEF one
  <2>3. one \in Seq(Nat) /\ ToSet(one) = {1} /\ Distinct(one) /\ one # <<>>
    BY <1>3, <2>1, <2>2, OfEmpty
  <2> QED
    BY <2>3 DEF one
<1>6. s0 \in Sid /\ s0.n = 1 /\ s0.made = <<>>
  BY <1>3 DEF Sid
<1> HIDE DEF s0
<1>7. DOMAIN files = {s0} /\ files[s0].msgs = <<1>> /\ files[s0] \in Transcript
  BY <1>2, <1>5 DEF Transcript
<1>8. Fresh.sid = NoSid /\ Fresh.loaded = <<>> /\ Fresh.todo = <<>>
  BY DEF Fresh
<1>9. TypeOK
  <2>1. TextTyped
    BY <1>1, <1>3, NoGateTyped DEF TextTyped
  <2>2. NoGoal \in Goal
    BY NoSidTyped DEF NoGoal, Goal
  <2>3. ClientTyped
    BY <1>1, <2>2, NoSidTyped DEF ClientTyped
  <2> QED
    BY <1>6, <1>7, <2>1, <2>3, TypeParts
<1>10. FilesSound
  BY <1>1, <1>5, <1>6, <1>7, <1>8 DEF FilesSound
<1>11. LiveKept
  BY <1>1 DEF LiveKept, NoStrayCli
<1>12. GoalKnown /\ CliSound
  BY <1>1, <1>8, OfEmpty DEF GoalKnown, CliSound, Backlog
<1>13. ReplayGuarded /\ ReplayBubbles /\ OwnBubbles /\ AnswerMatched
  BY <1>1 DEF ReplayGuarded, ReplayBubbles, OwnBubbles, AnswerMatched, Replaying, Replied
<1>14. Shown
  BY <1>1, OfEmpty DEF Shown
<1> QED
  BY <1>9, <1>10, <1>11, <1>12, <1>13, <1>14 DEF IInv

LEMMA NextIInv == IInv /\ [Next]_vars => IInv'
<1> SUFFICES ASSUME IInv, [Next]_vars PROVE SessionInv' /\ TurnInv'
  BY DEF IInv, SessionInv, TurnInv
<1>0. SessionInv /\ TurnInv
  BY InvParts
<1>1. CASE UNCHANGED vars
  <2>1. UNCHANGED <<files, nextId, msgs, live, client, clients, connected, sdkSid, cutOff, pc, goal,
                    turns, outcome, gate, open, streamed, bubbles, cli, told, resumed>>
    BY <1>1 DEF vars, fileVars, clientVars, textVars
  <2>2. SessionInv'
    BY <1>0, <2>1 DEF SessionInv, TypeOK, FilesSound, LiveKept, NoStrayCli, GoalKnown, CliSound
  <2>3. (ReplayGuarded /\ ReplayBubbles /\ OwnBubbles)'
    BY <1>0, <2>1 DEF TurnInv, ReplayGuarded, ReplayBubbles, OwnBubbles, Replaying, Replied, Behind
  <2>4. AnswerMatched'
    BY <1>0, <2>1 DEF TurnInv, AnswerMatched, Replied, Behind, InOrder, StoppedCount
  <2>5. Shown'
    BY <1>0, <2>1 DEF TurnInv, Shown
  <2> QED
    BY <2>2, <2>3, <2>4, <2>5 DEF TurnInv
<1>2. CASE Start \/ SendConnects \/ Edit
  BY <1>0, <1>2, ConnectsKeeps
<1>3. CASE Connected
  BY <1>0, <1>3, ConnectedKeeps
<1>4. CASE ConnectEnds \/ CliDies \/ Cancel \/ Close
  BY <1>0, <1>4, LeavesKeep
<1>5. CASE Send
  BY <1>0, <1>5, SendKeeps
<1>6. CASE ReplayStreams
  BY <1>0, <1>6, ReplayStreamsKeeps
<1>7. CASE ReplayBlock
  BY <1>0, <1>7, ReplayBlockKeeps
<1>8. CASE ReplayMessage
  BY <1>0, <1>8, ReplayMessageKeeps
<1>9. CASE ReplayEnds
  BY <1>0, <1>9, ReplayEndsKeeps
<1>10. CASE MessageStarts
  BY <1>0, <1>10, MessageStartsKeeps
<1>11. CASE BlockStarts
  BY <1>0, <1>11, BlockStartsKeeps
<1>12. CASE BlockGrows
  BY <1>0, <1>12, BlockGrowsKeeps
<1>13. CASE BlockStops
  BY <1>0, <1>13, BlockStopsKeeps
<1>14. CASE TextDelivered
  BY <1>0, <1>14, TextDeliveredKeeps
<1>15. CASE TurnEnds
  BY <1>0, <1>15, TurnEndsKeeps
<1>16. CASE \E s \in DOMAIN files : OtherAppends(s)
  BY <1>0, <1>16, OtherAppendsKeeps
<1>17. CASE Raises
  BY <1>0, <1>17, RaisesKeeps
<1>18. CASE WritesOn
  BY <1>0, <1>18, WritesOnKeeps
<1> QED
  BY <1>1, <1>2, <1>3, <1>4, <1>5, <1>6, <1>7, <1>8, <1>9, <1>10, <1>11, <1>12, <1>13, <1>14,
     <1>15, <1>16, <1>17, <1>18 DEF Next

(* The invariant holds. *)
THEOREM Inductive == Spec => []IInv
<1> QED
  BY InitIInv, NextIInv, PTL DEF Spec

(* Every reachable state has the types of TypeOK. *)
THEOREM TypeCorrect == Spec => []TypeOK
<1>1. IInv => TypeOK
  BY DEF IInv
<1> QED
  BY <1>1, Inductive, PTL

(* The guard never takes the result of the CLI's own answer for that of a   *)
(* replay, whatever was left unread before: a turn that receives has a      *)
(* result to come (_arm_replay_guard and the result that receive()          *)
(* swallows once).                                                          *)
THEOREM TurnGetsItsResult == Spec => []ResultToCome
<1>1. IInv => ResultToCome
  BY DEF IInv, CliSound, ResultToCome
<1> QED
  BY <1>1, Inductive, PTL

(* However the stream of a block, its stop and the authoritative text       *)
(* interleave, a turn that got to its result shows each text in one bubble  *)
(* (_handle_block, _commit_open_text).                                      *)
THEOREM EachTextOnce == Spec => []TextShownOnce
<1>1. IInv => TextShownOnce
  BY DEF IInv, Shown, TextShownOnce
<1> QED
  BY <1>1, Inductive, PTL

(* A client that was let go of runs no CLI, unless its connect() was cut    *)
(* short (aclose()).                                                        *)
THEOREM NoCliStrays == Spec => []NoStrayCli
<1>1. IInv => NoStrayCli
  BY DEF IInv, LiveKept
<1> QED
  BY <1>1, Inductive, PTL
================================================================================
