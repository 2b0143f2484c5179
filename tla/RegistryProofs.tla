--------------------------- MODULE RegistryProofs ---------------------------
(***************************************************************************)
(* Theorems about module Registry, for any number of sessions, transcripts *)
(* and ids made up by browsers.                                            *)
(*                                                                         *)
(* A session in service is filed under its session_id, and nothing else is *)
(* filed: IInv says so, and where objects that are not open are.  A        *)
(* duplicate has announced itself, so it moves nothing any more, and the   *)
(* command handler starts and closes what no other step touches.  NInv     *)
(* adds where the ids a session was renamed from lead.                     *)
(***************************************************************************)
EXTENDS Registry, SequenceTheorems, FiniteSetTheorems, TLAPS

USE RegistryAssumption

CmdHasObject == cmd.pc # "idle" => cmd.obj \in Objects

CmdPhase ==
    /\ cmd.pc = "start" => objs[cmd.obj].phase = "open" /\ ~ objs[cmd.obj].client
    /\ cmd.pc = "close" => objs[cmd.obj].phase = "closing"

ClientHasTranscript == \A o \in Objects : objs[o].client => objs[o].transcript # 0

FiledIsOpen ==
    \A k \in DOMAIN sessions : objs[sessions[k]].id = k /\ objs[sessions[k]].phase = "open"

OpenIsFiled ==
    \A o \in Objects : objs[o].phase = "open" =>
        objs[o].id \in DOMAIN sessions /\ sessions[objs[o].id] = o

EndedIsQuiet ==
    \A o \in Objects :
        /\ objs[o].phase = "doomed" => objs[o].announced
        /\ objs[o].phase = "closed" => ~ objs[o].client

IInv ==
    /\ TypeOK
    /\ CmdHasObject
    /\ ClientHasTranscript
    /\ ~ orphaned => CmdPhase /\ FiledIsOpen /\ OpenIsFiled /\ EndedIsQuiet

(* For RenamedOnceResolves: an id that a session was renamed from is free,   *)
(* and its alias leads to the session's id.                                  *)
NamesSound == \A o \in Objects : IsFiniteSet(objs[o].names) /\ objs[o].id \in objs[o].names

AliasLeads ==
    \A o \in Objects :
        objs[o].phase = "open" /\ Cardinality(objs[o].names) <= 2
            => \A k \in objs[o].names \cap Provisional :
                  k # objs[o].id
                    => k \in DOMAIN aliases /\ aliases[k] = objs[o].id /\ k \notin DOMAIN sessions

NInv == IInv /\ NamesSound /\ (~ orphaned => AliasLeads)

-----------------------------------------------------------------------------
(* What the updates of an object change of it. *)

LEMMA NamedObject ==
    ASSUME NEW p \in Object, NEW v \in Id, v \in 0 .. MaxTranscripts
    PROVE  \E x \in Object :
              /\ x = [p EXCEPT !.known = v, !.announced = TRUE, !.id = v, !.names = @ \cup {v}]
              /\ x.id = v /\ x.announced
              /\ x.phase = p.phase /\ x.transcript = p.transcript /\ x.client = p.client
<1>1. ASSUME NEW x, x = [p EXCEPT !.known = v, !.announced = TRUE, !.id = v, !.names = @ \cup {v}]
      PROVE  /\ x \in Object
             /\ x.id = v /\ x.announced
             /\ x.phase = p.phase /\ x.transcript = p.transcript /\ x.client = p.client
  BY <1>1 DEF Object
<1> QED BY <1>1, Zenon

LEMMA ClosedObject ==
    ASSUME NEW p \in Object, NEW leaks \in BOOLEAN
    PROVE  \E x \in Object :
              /\ x = [p EXCEPT !.phase = "closed", !.client = leaks]
              /\ x.phase = "closed" /\ (x.client <=> leaks)
              /\ x.transcript = p.transcript /\ x.id = p.id
<1>1. ASSUME NEW x, x = [p EXCEPT !.phase = "closed", !.client = leaks]
      PROVE  /\ x \in Object
             /\ x.phase = "closed" /\ (x.client <=> leaks)
             /\ x.transcript = p.transcript /\ x.id = p.id
  BY <1>1 DEF Object
<1> QED BY <1>1, Zenon

LEMMA PhaseObject ==
    ASSUME NEW p \in Object, NEW v \in {"doomed", "closing"}, NEW x, x = [p EXCEPT !.phase = v]
    PROVE  /\ x \in Object
           /\ x.phase = v /\ x.client = p.client
           /\ x.transcript = p.transcript /\ x.announced = p.announced /\ x.id = p.id
BY DEF Object

LEMMA ObjectReplaced ==
    ASSUME TypeOK, NEW o \in Objects, NEW x \in Object, objs' = [objs EXCEPT ![o] = x]
    PROVE  /\ objs' \in Seq(Object) /\ Len(objs') = Len(objs) /\ Objects' = Objects
           /\ \A q \in Objects : objs'[q] = IF q = o THEN x ELSE objs[q]
BY DEF TypeOK, Objects

LEMMA ObjectTyped ==
    ASSUME TypeOK, NEW o \in Objects
    PROVE  objs[o] \in Object /\ o \in 1 .. MaxSessions /\ Len(objs) \in Nat
BY DEF TypeOK, Objects

-----------------------------------------------------------------------------
LEMMA InitIInv == Init => IInv
<1> SUFFICES ASSUME Init PROVE IInv
  OBVIOUS
<1>1. /\ Objects = {} /\ DOMAIN sessions = {} /\ DOMAIN aliases = {}
      /\ objs \in Seq(Object) /\ Len(objs) = 0
  BY DEF Init, Objects, Empty
<1>2. cmd \in Cmd
  BY DEF Init, Idle, Cmd
<1>3. TypeOK
  <2>1. Len(objs) <= MaxSessions
    BY <1>1
  <2>2. transcripts \in 0 .. MaxTranscripts /\ copies \in [Transcript -> 0 .. MaxTranscripts]
    BY DEF Init
  <2>3. orphaned \in BOOLEAN
    BY DEF Init
  <2> QED BY <1>1, <1>2, <2>1, <2>2, <2>3 DEF TypeOK
<1> QED BY <1>1, <1>3 DEF Init, IInv, CmdHasObject, CmdPhase, ClientHasTranscript, FiledIsOpen, OpenIsFiled,
                         EndedIsQuiet, Idle

(* A step that leaves the dictionaries alone and changes object o to x. *)
LEMMA Replaces ==
    ASSUME TypeOK, NEW o \in Objects, NEW x \in Object, objs' = [objs EXCEPT ![o] = x],
           UNCHANGED <<sessions, aliases>>, cmd' \in Cmd, transcripts' \in 0 .. MaxTranscripts,
           copies' \in [Transcript -> 0 .. MaxTranscripts], orphaned' \in BOOLEAN
    PROVE  TypeOK'
<1>1. objs' \in Seq(Object) /\ Len(objs') = Len(objs) /\ Objects' = Objects
  BY ObjectReplaced
<1> QED BY <1>1 DEF TypeOK

LEMMA StartNewStep ==
    ASSUME IInv, NEW k \in Id, NEW resume \in 0 .. MaxTranscripts, StartNew(k, resume)
    PROVE  IInv'
<1> DEFINE n == Len(objs) + 1
           x == [id |-> k, transcript |-> 0, known |-> 0, announced |-> FALSE,
                 client |-> FALSE, phase |-> "open", names |-> {k}]
<1>1. /\ cmd = Idle /\ Lookup(k) = 0 /\ Len(objs) < MaxSessions
      /\ objs' = Append(objs, x)
      /\ sessions' = Put(sessions, k, n)
      /\ cmd' = [pc |-> "start", obj |-> n, resume |-> resume]
      /\ UNCHANGED <<aliases, transcripts, copies, orphaned>>
  BY DEF StartNew
<1>2. TypeOK /\ objs \in Seq(Object) /\ Len(objs) \in Nat
  BY DEF IInv, TypeOK
<1>3. x \in Object
  BY DEF Object
<1>4. /\ objs' \in Seq(Object) /\ Len(objs') = n /\ n \in 1 .. MaxSessions
      /\ \A o \in Objects : objs'[o] = objs[o]
      /\ objs'[n] = x
  BY <1>1, <1>2, <1>3 DEF Objects
<1>5. Objects' = Objects \cup {n} /\ n \notin Objects
  BY <1>2, <1>4 DEF Objects
<1>6. k \notin DOMAIN sessions
  <2>1. ASSUME k \in DOMAIN sessions PROVE FALSE
    <3>1. sessions[k] \in Objects /\ sessions[k] = 0
      BY <1>1, <1>2, <2>1 DEF Lookup, TypeOK
    <3> QED BY <1>2, <3>1 DEF Objects
  <2> QED BY <2>1
<1>7. /\ DOMAIN sessions' = DOMAIN sessions \cup {k}
      /\ sessions'[k] = n
      /\ \A j \in DOMAIN sessions : sessions'[j] = sessions[j]
  BY <1>1, <1>6 DEF Put
<1>8. cmd' \in Cmd
  BY <1>1, <1>4 DEF Cmd
<1>9. TypeOK'
  <2>1. UNCHANGED <<aliases, transcripts, copies, orphaned>>
    BY <1>1
  <2>2. \A j \in DOMAIN sessions' : sessions'[j] \in Objects'
    BY <1>2, <1>5, <1>7 DEF TypeOK
  <2> QED BY <1>2, <1>4, <1>5, <1>7, <1>8, <2>1, <2>2 DEF TypeOK
<1>10. CmdHasObject' /\ ClientHasTranscript'
  <2>1. cmd'.pc = "start" /\ cmd'.obj = n
    BY <1>1
  <2>2. objs'[n].phase = "open" /\ ~ objs'[n].client
    BY <1>4
  <2>3. CmdHasObject'
    BY <1>5, <2>1, <2>2 DEF CmdHasObject
  <2>4. ClientHasTranscript'
    BY <1>4, <1>5, <2>2 DEF IInv, ClientHasTranscript
  <2> QED BY <2>3, <2>4
<1>11. ~ orphaned' => CmdPhase' /\ FiledIsOpen' /\ OpenIsFiled' /\ EndedIsQuiet'
  <2> SUFFICES ASSUME ~ orphaned PROVE CmdPhase' /\ FiledIsOpen' /\ OpenIsFiled' /\ EndedIsQuiet'
    BY <1>1
  <2>1. FiledIsOpen'
    BY <1>2, <1>4, <1>5, <1>7 DEF IInv, FiledIsOpen, TypeOK
  <2>2. OpenIsFiled'
    BY <1>4, <1>5, <1>6, <1>7 DEF IInv, OpenIsFiled
  <2>3. EndedIsQuiet'
    BY <1>4, <1>5 DEF IInv, EndedIsQuiet
  <2>4. CmdPhase'
    <3>1. cmd'.pc = "start" /\ cmd'.obj = n
      BY <1>1
    <3>2. objs'[n].phase = "open" /\ ~ objs'[n].client
      BY <1>4
    <3> QED BY <3>1, <3>2 DEF CmdPhase
  <2> QED BY <2>1, <2>2, <2>3, <2>4
<1> QED BY <1>9, <1>10, <1>11 DEF IInv

LEMMA CmdTyped ==
    ASSUME IInv, cmd.pc \in {"start", "edit", "close"}
    PROVE  cmd.obj \in Objects /\ objs[cmd.obj] \in Object
BY ObjectTyped DEF IInv, CmdHasObject

LEMMA IdleTyped == Idle \in Cmd /\ Idle.pc = "idle"
BY DEF Idle, Cmd

LEMMA CopiesTyped ==
    ASSUME TypeOK, NEW t \in 0 .. MaxTranscripts, NEW u \in Transcript, Copied(t, u)
    PROVE  copies' \in [Transcript -> 0 .. MaxTranscripts]
BY DEF Copied, TypeOK, Transcript

(* The agent of an object that is open, or of one that is an orphan with it, *)
(* or of a duplicate that has announced itself.                              *)
LEMMA UpStep ==
    ASSUME IInv, NEW o \in Objects, NEW t \in Transcript, NEW a \in BOOLEAN, ClientUp(o, t, a),
           cmd' \in Cmd, cmd'.pc = "idle" \/ (cmd' = cmd /\ (cmd.pc = "start" => cmd.obj # o)),
           UNCHANGED <<sessions, aliases>>,
           copies' \in [Transcript -> 0 .. MaxTranscripts], orphaned' \in BOOLEAN,
           ~ orphaned' => ~ orphaned,
           ~ orphaned' => objs[o].phase = "open" \/ (objs[o].phase = "doomed" /\ a)
    PROVE  IInv'
<1>1. objs[o] \in Object
  BY ObjectTyped DEF IInv
<1> DEFINE x == [objs[o] EXCEPT !.transcript = t, !.announced = a, !.client = TRUE]
<1>3. objs' = [objs EXCEPT ![o] = x]
  BY Zenon DEF ClientUp
<1>2. /\ x \in Object
      /\ x.id = objs[o].id /\ x.phase = objs[o].phase
      /\ x.transcript = t /\ x.announced = a /\ x.client
  <2>1. t \in 0 .. MaxTranscripts
    BY DEF Transcript
  <2> QED BY <1>1, <2>1 DEF Object
<1> HIDE DEF x
<1>4. Objects' = Objects /\ \A q \in Objects : objs'[q] = IF q = o THEN x ELSE objs[q]
  BY <1>2, <1>3, ObjectReplaced DEF IInv
<1>5. transcripts' \in 0 .. MaxTranscripts
  BY DEF ClientUp, IInv, TypeOK, Transcript
<1>6. TypeOK'
  BY <1>2, <1>3, <1>5, Replaces DEF IInv
<1>7. CmdHasObject' /\ ClientHasTranscript'
  BY <1>2, <1>4 DEF IInv, CmdHasObject, ClientHasTranscript, Transcript
<1>8. ~ orphaned' => CmdPhase' /\ FiledIsOpen' /\ OpenIsFiled' /\ EndedIsQuiet'
  <2> SUFFICES ASSUME ~ orphaned' PROVE CmdPhase' /\ FiledIsOpen' /\ OpenIsFiled' /\ EndedIsQuiet'
    OBVIOUS
  <2>1. FiledIsOpen'
    BY <1>2, <1>4 DEF IInv, FiledIsOpen, TypeOK
  <2>2. OpenIsFiled'
    BY <1>2, <1>4 DEF IInv, OpenIsFiled
  <2>3. EndedIsQuiet'
    BY <1>2, <1>4 DEF IInv, EndedIsQuiet
  <2>4. CmdPhase'
    BY <1>2, <1>4 DEF IInv, CmdPhase, CmdHasObject
  <2> QED BY <2>1, <2>2, <2>3, <2>4
<1> QED BY <1>6, <1>7, <1>8 DEF IInv

LEMMA StartedStep == IInv /\ Started => IInv'
<1> SUFFICES ASSUME IInv, Started PROVE IInv'
  OBVIOUS
<1>1. PICK t \in Transcript : ClientUp(cmd.obj, t, FALSE) /\ Copied(cmd.resume, t)
  BY DEF Started
<1>2. /\ cmd.pc = "start" /\ cmd.obj \in Objects /\ cmd.resume \in 0 .. MaxTranscripts
      /\ (~ orphaned => objs[cmd.obj].phase = "open")
      /\ cmd' = Idle /\ UNCHANGED <<sessions, aliases, orphaned>>
  BY DEF Started, IInv, CmdPhase, CmdHasObject, TypeOK, Cmd
<1>3. copies' \in [Transcript -> 0 .. MaxTranscripts]
  BY <1>1, <1>2, CopiesTyped DEF IInv
<1> QED BY <1>1, <1>2, <1>3, UpStep, IdleTyped DEF IInv, TypeOK

LEMMA ReconnectsStep == ASSUME IInv, NEW o \in Objects, Reconnects(o) PROVE IInv'
<1>1. PICK s \in {objs[o].known, objs[o].transcript}, t \in Transcript :
        ClientUp(o, t, objs[o].announced) /\ Copied(s, t)
  BY DEF Reconnects
<1>2. /\ objs[o].known \in 0 .. MaxTranscripts /\ objs[o].transcript \in 0 .. MaxTranscripts
      /\ objs[o].announced \in BOOLEAN /\ s \in 0 .. MaxTranscripts
  BY <1>1, ObjectTyped DEF IInv, Object
<1>3. copies' \in [Transcript -> 0 .. MaxTranscripts]
  BY <1>1, <1>2, CopiesTyped DEF IInv
<1>4. /\ objs[o].phase \in {"open", "doomed"} /\ UNCHANGED <<sessions, aliases, cmd, orphaned>>
      /\ cmd.pc = "start" => cmd.obj # o
  BY DEF Reconnects
<1>5. ~ orphaned => (objs[o].phase = "doomed" => objs[o].announced)
  BY DEF IInv, EndedIsQuiet
<1> QED BY <1>1, <1>2, <1>3, <1>4, <1>5, UpStep DEF IInv, TypeOK

LEMMA EditSpawnsStep == IInv /\ EditSpawns => IInv'
<1> SUFFICES ASSUME IInv, EditSpawns PROVE IInv'
  OBVIOUS
<1>1. transcripts + 1 \in Transcript
  BY DEF EditSpawns, IInv, TypeOK, Transcript
<1>2. /\ cmd.obj \in Objects /\ cmd' = Idle /\ UNCHANGED <<sessions, aliases, copies>>
      /\ ClientUp(cmd.obj, transcripts + 1, FALSE) /\ orphaned' \in BOOLEAN
  BY DEF EditSpawns, IInv, CmdHasObject
<1>3. ~ orphaned' => ~ orphaned /\ objs[cmd.obj].phase = "open"
  BY Zenon DEF EditSpawns
<1> QED BY <1>1, <1>2, <1>3, UpStep, IdleTyped DEF IInv, TypeOK

LEMMA EditFailsStep == IInv /\ EditFails => IInv'
<1> SUFFICES ASSUME IInv, EditFails PROVE IInv'
  OBVIOUS
<1> DEFINE o == cmd.obj
           x == [objs[o] EXCEPT !.announced = FALSE, !.client = FALSE]
<1>1. cmd' = Idle /\ UNCHANGED <<sessions, aliases, transcripts, copies, orphaned>>
  BY DEF EditFails
<1>2. CASE UNCHANGED objs
  BY <1>1, <1>2, IdleTyped DEF IInv, TypeOK, Objects, CmdHasObject, CmdPhase, ClientHasTranscript,
                               FiledIsOpen, OpenIsFiled, EndedIsQuiet
<1>3. CASE objs[o].phase = "open" /\ objs' = [objs EXCEPT ![o] = x]
  <2>1. o \in Objects /\ objs[o] \in Object
    BY ObjectTyped DEF IInv, CmdHasObject, EditFails
  <2>2. /\ x \in Object /\ x.id = objs[o].id /\ x.phase = "open"
        /\ x.transcript = objs[o].transcript /\ ~ x.client
    BY <1>3, <2>1 DEF Object
  <2> HIDE DEF x
  <2>3. Objects' = Objects /\ \A q \in Objects : objs'[q] = IF q = o THEN x ELSE objs[q]
    BY <1>3, <2>1, <2>2, ObjectReplaced DEF IInv
  <2>4. TypeOK'
    BY <1>1, <1>3, <2>1, <2>2, Replaces, IdleTyped DEF IInv, TypeOK
  <2>5. CmdHasObject' /\ ClientHasTranscript'
    BY <1>1, <2>2, <2>3, IdleTyped DEF IInv, CmdHasObject, ClientHasTranscript
  <2>6. ASSUME ~ orphaned PROVE CmdPhase' /\ FiledIsOpen' /\ OpenIsFiled' /\ EndedIsQuiet'
    <3>1. FiledIsOpen'
      BY <1>1, <2>2, <2>3, <2>6 DEF IInv, FiledIsOpen, TypeOK
    <3>2. OpenIsFiled'
      <4>1. \A q \in Objects : objs'[q].id = objs[q].id /\ objs'[q].phase = objs[q].phase
        BY <1>3, <2>2, <2>3
      <4> QED BY <1>1, <2>3, <2>6, <4>1 DEF IInv, OpenIsFiled
    <3>3. EndedIsQuiet' /\ CmdPhase'
      BY <1>1, <2>2, <2>3, <2>6, IdleTyped DEF IInv, EndedIsQuiet, CmdPhase
    <3> QED BY <3>1, <3>2, <3>3
  <2> QED BY <1>1, <2>4, <2>5, <2>6 DEF IInv
<1> QED BY <1>2, <1>3, Zenon DEF EditFails

LEMMA LookupTyped ==
    ASSUME TypeOK, NEW k \in Id, Lookup(k) # 0
    PROVE  Lookup(k) \in Objects /\ \E j \in DOMAIN sessions : Lookup(k) = sessions[j]
BY DEF Lookup, TypeOK

LEMMA EditStep ==
    ASSUME IInv, NEW k \in Id, Edit(k)
    PROVE  IInv'
<1>1. Lookup(k) \in Objects /\ Lookup(k) \in 1 .. MaxSessions
  BY LookupTyped, ObjectTyped DEF Edit, IInv
<1>2. cmd' \in Cmd /\ cmd'.pc = "edit" /\ cmd'.obj = Lookup(k)
  BY <1>1 DEF Edit, Cmd
<1> QED BY <1>1, <1>2 DEF Edit, IInv, TypeOK, Objects, CmdHasObject, CmdPhase, ClientHasTranscript,
                          FiledIsOpen, OpenIsFiled, EndedIsQuiet

LEMMA CloseStep ==
    ASSUME IInv, NEW k \in Id, Close(k)
    PROVE  IInv'
<1> DEFINE o == Lookup(k)
           x == [objs[o] EXCEPT !.phase = "closing"]
<1>1. o \in Objects /\ objs[o] \in Object /\ o \in 1 .. MaxSessions
  BY LookupTyped, ObjectTyped DEF Close, IInv
<1>2. objs' = [objs EXCEPT ![o] = x] /\ cmd' = [pc |-> "close", obj |-> o]
      /\ UNCHANGED <<transcripts, copies, orphaned>>
  BY Zenon DEF Close
<1>3. /\ x \in Object /\ x.phase = "closing" /\ x.client = objs[o].client
      /\ x.transcript = objs[o].transcript /\ x.announced = objs[o].announced /\ x.id = objs[o].id
  BY <1>1, PhaseObject
<1> HIDE DEF x
<1>4. objs' \in Seq(Object) /\ Len(objs') = Len(objs) /\ Objects' = Objects
      /\ \A q \in Objects : objs'[q] = IF q = o THEN x ELSE objs[q]
  BY <1>1, <1>2, <1>3, ObjectReplaced DEF IInv
<1>5. /\ DOMAIN sessions' = DOMAIN sessions \ {objs[o].id}
      /\ \A j \in DOMAIN sessions' : sessions'[j] = sessions[j]
      /\ DOMAIN aliases' \subseteq DOMAIN aliases
      /\ \A j \in DOMAIN aliases' : aliases'[j] = aliases[j]
  BY DEF Close, Pop
<1>6. cmd' \in Cmd /\ cmd'.pc = "close" /\ cmd'.obj = o
  BY <1>1, <1>2 DEF Cmd
<1>7. TypeOK'
  BY <1>2, <1>4, <1>5, <1>6 DEF IInv, TypeOK
<1>8. CmdHasObject' /\ ClientHasTranscript'
  BY <1>1, <1>3, <1>4, <1>6 DEF IInv, CmdHasObject, ClientHasTranscript
<1>9. ~ orphaned' => CmdPhase' /\ FiledIsOpen' /\ OpenIsFiled' /\ EndedIsQuiet'
  <2> SUFFICES ASSUME ~ orphaned PROVE CmdPhase' /\ FiledIsOpen' /\ OpenIsFiled' /\ EndedIsQuiet'
    BY <1>2
  <2>1. FiledIsOpen'
    BY <1>1, <1>3, <1>4, <1>5 DEF IInv, FiledIsOpen, TypeOK
  <2>2. PICK j \in DOMAIN sessions : o = sessions[j]
    BY LookupTyped DEF Close, IInv
  <2>3. sessions[objs[o].id] = o
    BY <2>2 DEF IInv, FiledIsOpen
  <2>4. OpenIsFiled'
    BY <1>3, <1>4, <1>5, <2>3 DEF IInv, OpenIsFiled
  <2>5. EndedIsQuiet' /\ CmdPhase'
    BY <1>1, <1>3, <1>4, <1>6 DEF IInv, EndedIsQuiet, CmdPhase
  <2> QED BY <2>1, <2>4, <2>5
<1> QED BY <1>7, <1>8, <1>9 DEF IInv

(* The close() of an object that the registry does not hold is over. *)
LEMMA EndStep ==
    ASSUME IInv, NEW o \in Objects, EndClose(o),
           ~ orphaned => objs[o].phase \in {"doomed", "closing"},
           UNCHANGED <<sessions, aliases, transcripts, copies>>,
           \/ UNCHANGED cmd /\ objs[o].phase = "doomed"
           \/ cmd' = Idle
    PROVE  IInv'
<1>1. PICK leaks \in {FALSE, objs[o].client} :
        /\ objs' = [objs EXCEPT ![o].phase = "closed", ![o].client = leaks]
        /\ orphaned' = (orphaned \/ leaks)
  BY DEF EndClose
<1>2. objs[o] \in Object /\ objs[o].client \in BOOLEAN /\ leaks \in BOOLEAN
  BY ObjectTyped DEF IInv, Object
<1>3. PICK x \in Object :
        /\ x = [objs[o] EXCEPT !.phase = "closed", !.client = leaks]
        /\ x.phase = "closed" /\ (x.client <=> leaks)
        /\ x.transcript = objs[o].transcript /\ x.id = objs[o].id
  BY <1>2, ClosedObject, Zenon
<1>4. objs' = [objs EXCEPT ![o] = x]
  BY <1>1, <1>3, Zenon
<1>5. Objects' = Objects /\ \A q \in Objects : objs'[q] = IF q = o THEN x ELSE objs[q]
  BY <1>4, <1>3, ObjectReplaced DEF IInv
<1>6. cmd' \in Cmd /\ orphaned' \in BOOLEAN
  BY <1>1, <1>2, IdleTyped DEF IInv, TypeOK
<1>7. TypeOK'
  BY <1>4, <1>3, <1>6, Replaces DEF IInv, TypeOK
<1>8. CmdHasObject' /\ ClientHasTranscript'
  <2>1. CmdHasObject'
    BY <1>5, IdleTyped DEF IInv, CmdHasObject
  <2>2. x.client => objs[o].client
    BY <1>2, <1>3
  <2>3. ClientHasTranscript'
    BY <1>3, <1>5, <2>2 DEF IInv, ClientHasTranscript
  <2> QED BY <2>1, <2>3
<1>9. ~ orphaned' => CmdPhase' /\ FiledIsOpen' /\ OpenIsFiled' /\ EndedIsQuiet'
  <2> SUFFICES ASSUME ~ orphaned' PROVE CmdPhase' /\ FiledIsOpen' /\ OpenIsFiled' /\ EndedIsQuiet'
    OBVIOUS
  <2>1. ~ orphaned /\ ~ x.client
    BY <1>1, <1>2, <1>3
  <2>2. FiledIsOpen'
    BY <1>3, <1>5, <2>1 DEF IInv, FiledIsOpen, TypeOK
  <2>3. OpenIsFiled'
    BY <1>3, <1>5, <2>1 DEF IInv, OpenIsFiled
  <2>4. EndedIsQuiet' /\ CmdPhase'
    <3>1. EndedIsQuiet'
      BY <1>3, <1>5, <2>1 DEF IInv, EndedIsQuiet
    <3>2. CmdPhase'
      BY <1>3, <1>5, <2>1, IdleTyped DEF IInv, CmdPhase, CmdHasObject
    <3> QED BY <3>1, <3>2
  <2> QED BY <2>2, <2>3, <2>4
<1> QED BY <1>7, <1>8, <1>9 DEF IInv

LEMMA ClosedStep == IInv /\ Closed => IInv'
<1> SUFFICES ASSUME IInv, Closed PROVE IInv'
  OBVIOUS
<1>1. cmd.obj \in Objects /\ (~ orphaned => objs[cmd.obj].phase = "closing")
  BY DEF Closed, IInv, CmdHasObject, CmdPhase
<1>2. EndClose(cmd.obj) /\ UNCHANGED <<sessions, aliases, transcripts, copies>> /\ cmd' = Idle
  BY DEF Closed
<1> QED BY <1>1, <1>2, EndStep

LEMMA DuplicateStep == ASSUME IInv, NEW o \in Objects, DuplicateClosed(o) PROVE IInv'
BY EndStep DEF DuplicateClosed

(* An object that can name its transcript is open, and so filed. *)
LEMMA NamingIsFiled ==
    ASSUME IInv, ~ orphaned, NEW o \in Objects,
           objs[o].client, objs[o].phase # "closing", ~ objs[o].announced
    PROVE  objs[o].phase = "open" /\ objs[o].id \in DOMAIN sessions /\ sessions[objs[o].id] = o
<1>1. objs[o] \in Object
  BY ObjectTyped DEF IInv
<1> QED BY <1>1 DEF IInv, EndedIsQuiet, OpenIsFiled, Object

LEMMA IdentifiedStep ==
    ASSUME IInv, NEW o \in Objects, Identified(o)
    PROVE  IInv'
<1> DEFINE old == objs[o].id
           new == SdkId(o)
           d == sessions[old]
<1>1. /\ objs[o].client /\ objs[o].phase # "closing" /\ ~ objs[o].announced
      /\ UNCHANGED <<cmd, transcripts, copies, orphaned>>
  BY DEF Identified
<1>2. objs[o] \in Object /\ old \in Id /\ new \in Id /\ new = objs[o].transcript
  BY <1>1, ObjectTyped DEF IInv, ClientHasTranscript, SdkId, Object, Id, Transcript
<1>11. new \in 0 .. MaxTranscripts
  BY <1>2 DEF Object
<1>3. PICK x \in Object :
        /\ x = [objs[o] EXCEPT !.known = new, !.announced = TRUE, !.id = new, !.names = @ \cup {new}]
        /\ x.id = new /\ x.announced
        /\ x.phase = objs[o].phase /\ x.transcript = objs[o].transcript /\ x.client = objs[o].client
  BY <1>2, <1>11, NamedObject, Zenon
<1> DEFINE renamed == [objs EXCEPT ![o] = x]
           y == [renamed[d] EXCEPT !.phase = "doomed"]
<1>4. [objs EXCEPT ![o].known = new, ![o].announced = TRUE, ![o].id = new, ![o].names = @ \cup {new}] = renamed
  BY <1>3, Zenon
<1>5. /\ x.id = new /\ x.announced
      /\ x.phase = objs[o].phase /\ x.transcript = objs[o].transcript /\ x.client = objs[o].client
  BY <1>3
<1> HIDE DEF new
<1>6. /\ renamed \in Seq(Object) /\ Len(renamed) = Len(objs)
      /\ \A q \in Objects : renamed[q] = IF q = o THEN x ELSE objs[q]
  BY <1>5 DEF IInv, TypeOK, Objects
<1> HIDE DEF renamed
<1>7. CASE (old = new \/ old \notin DOMAIN sessions) /\ objs' = renamed /\ UNCHANGED <<sessions, aliases>>
  <2>1. Objects' = Objects /\ TypeOK'
    BY <1>1, <1>6, <1>7 DEF IInv, TypeOK, Objects
  <2>2. CmdHasObject' /\ ClientHasTranscript'
    BY <1>1, <1>5, <1>6, <1>7, <2>1 DEF IInv, CmdHasObject, ClientHasTranscript
  <2>3. ASSUME ~ orphaned PROVE CmdPhase' /\ FiledIsOpen' /\ OpenIsFiled' /\ EndedIsQuiet'
    <3>1. old = new /\ objs[o].phase = "open"
      BY <1>1, <1>7, <2>3, NamingIsFiled
    <3>2. FiledIsOpen'
      BY <1>5, <1>6, <1>7, <2>3, <3>1 DEF IInv, FiledIsOpen, TypeOK
    <3>3. OpenIsFiled'
      BY <1>5, <1>6, <1>7, <2>1, <2>3, <3>1 DEF IInv, OpenIsFiled
    <3>4. EndedIsQuiet'
      BY <1>2, <1>5, <1>6, <1>7, <2>1, <2>3, <3>1 DEF IInv, EndedIsQuiet
    <3>5. CmdPhase'
      BY <1>1, <1>5, <1>6, <1>7, <2>3 DEF IInv, CmdPhase, CmdHasObject
    <3> QED BY <3>2, <3>3, <3>4, <3>5
  <2> QED BY <1>1, <2>1, <2>2, <2>3 DEF IInv
<1>8. CASE /\ old # new /\ old \in DOMAIN sessions /\ Taken(old, new)
           /\ objs' = Doomed(renamed, d) /\ sessions' = Pop(sessions, {old}) /\ UNCHANGED aliases
  <2>1. d \in Objects /\ renamed[d] \in Object
    BY <1>2, <1>5, <1>6, <1>8, ObjectTyped DEF IInv, TypeOK
  <2>2. /\ y \in Object /\ y.phase = "doomed" /\ y.client = renamed[d].client
        /\ y.transcript = renamed[d].transcript /\ y.announced = renamed[d].announced
        /\ y.id = renamed[d].id
    BY <2>1, PhaseObject
  <2>3. objs' = [renamed EXCEPT ![d] = y]
    BY <1>8, Zenon DEF Doomed
  <2> HIDE DEF y
  <2>4. /\ objs' \in Seq(Object) /\ Len(objs') = Len(objs) /\ Objects' = Objects
        /\ \A q \in Objects : objs'[q] = IF q = d THEN y ELSE renamed[q]
    BY <1>6, <2>1, <2>2, <2>3 DEF Objects, IInv, TypeOK
  <2>5. /\ DOMAIN sessions' = DOMAIN sessions \ {old}
        /\ \A j \in DOMAIN sessions' : sessions'[j] = sessions[j]
    BY <1>8 DEF Pop
  <2>6. TypeOK'
    BY <1>1, <1>8, <2>4, <2>5 DEF IInv, TypeOK
  <2>7. CmdHasObject' /\ ClientHasTranscript'
    BY <1>1, <1>5, <1>6, <2>2, <2>4 DEF IInv, CmdHasObject, ClientHasTranscript
  <2>8. ASSUME ~ orphaned PROVE CmdPhase' /\ FiledIsOpen' /\ OpenIsFiled' /\ EndedIsQuiet'
    <3>1. d = o /\ objs[o].phase = "open" /\ y.announced
      BY <1>1, <1>5, <1>6, <2>2, <2>8, NamingIsFiled
    <3>2. \A q \in Objects \ {o} : objs'[q] = objs[q]
      BY <1>6, <2>4, <3>1
    <3>3. \A j \in DOMAIN sessions' : sessions'[j] \in Objects \ {o}
      BY <2>5, <2>8, <3>1 DEF IInv, FiledIsOpen, TypeOK
    <3>4. FiledIsOpen'
      BY <2>5, <2>8, <3>2, <3>3 DEF IInv, FiledIsOpen
    <3>5. OpenIsFiled'
      BY <2>2, <2>4, <2>5, <2>8, <3>1, <3>2 DEF IInv, OpenIsFiled
    <3>6. EndedIsQuiet'
      BY <2>2, <2>4, <2>8, <3>1, <3>2 DEF IInv, EndedIsQuiet
    <3>7. CmdPhase'
      BY <1>1, <2>8, <3>1, <3>2 DEF IInv, CmdPhase, CmdHasObject
    <3> QED BY <3>4, <3>5, <3>6, <3>7
  <2> QED BY <1>1, <2>6, <2>7, <2>8 DEF IInv
<1>9. CASE /\ old # new /\ old \in DOMAIN sessions /\ ~ Taken(old, new)
           /\ objs' = renamed /\ sessions' = Moved(old, new) /\ aliases' = Aliased(old, new)
  <2>1. /\ DOMAIN sessions' = (DOMAIN sessions \ {old}) \cup {new}
        /\ sessions'[new] = d
        /\ \A j \in DOMAIN sessions' : j # new => sessions'[j] = sessions[j]
    BY <1>9 DEF Moved, Put, Pop
  <2>2. /\ DOMAIN aliases' = DOMAIN aliases \cup {old}
        /\ aliases'[old] = new
        /\ \A j \in DOMAIN aliases' : j # old => aliases'[j] = aliases[j]
    BY <1>9 DEF Aliased, Put
  <2>3. Objects' = Objects /\ objs' \in Seq(Object) /\ Len(objs') = Len(objs) /\ d \in Objects
    BY <1>6, <1>9 DEF IInv, TypeOK, Objects
  <2>4. TypeOK'
    <3>1. DOMAIN sessions' \subseteq Id /\ DOMAIN aliases' \subseteq Id
      BY <1>2, <2>1, <2>2 DEF IInv, TypeOK
    <3>2. \A j \in DOMAIN sessions' : sessions'[j] \in Objects
      BY <2>1, <2>3 DEF IInv, TypeOK
    <3>3. \A j \in DOMAIN aliases' : aliases'[j] \in Id
      BY <1>2, <2>2 DEF IInv, TypeOK
    <3> QED BY <1>1, <2>3, <3>1, <3>2, <3>3 DEF IInv, TypeOK
  <2>5. CmdHasObject' /\ ClientHasTranscript'
    BY <1>1, <1>5, <1>6, <1>9, <2>3 DEF IInv, CmdHasObject, ClientHasTranscript
  <2>6. ASSUME ~ orphaned PROVE CmdPhase' /\ FiledIsOpen' /\ OpenIsFiled' /\ EndedIsQuiet'
    <3>1. d = o /\ objs[o].phase = "open"
      BY <1>1, <2>6, NamingIsFiled
    <3>2. new \notin DOMAIN sessions
      <4>1. new \in DOMAIN sessions => sessions[new] = o
        BY <1>9, <3>1 DEF Taken
      <4> QED BY <1>9, <2>6, <4>1 DEF IInv, FiledIsOpen
    <3>3. \A j \in DOMAIN sessions' : j # new => sessions'[j] \in Objects \ {o}
      BY <1>9, <2>1, <2>3, <2>6 DEF IInv, FiledIsOpen, TypeOK
    <3>4. FiledIsOpen'
      BY <1>5, <1>6, <1>9, <2>1, <2>6, <3>1, <3>3 DEF IInv, FiledIsOpen
    <3>5. OpenIsFiled'
      BY <1>5, <1>6, <1>9, <2>1, <2>3, <2>6, <3>1, <3>2 DEF IInv, OpenIsFiled
    <3>6. EndedIsQuiet'
      BY <1>2, <1>5, <1>6, <1>9, <2>3, <2>6 DEF IInv, EndedIsQuiet
    <3>7. CmdPhase'
      BY <1>1, <1>5, <1>6, <1>9, <2>6 DEF IInv, CmdPhase, CmdHasObject
    <3> QED BY <3>4, <3>5, <3>6, <3>7
  <2> QED BY <1>1, <2>4, <2>5, <2>6 DEF IInv
<1>10. \/ /\ old = new \/ old \notin DOMAIN sessions
         /\ objs' = renamed /\ UNCHANGED <<sessions, aliases>>
      \/ /\ old # new /\ old \in DOMAIN sessions /\ Taken(old, new)
         /\ objs' = Doomed(renamed, d) /\ sessions' = Pop(sessions, {old}) /\ UNCHANGED aliases
      \/ /\ old # new /\ old \in DOMAIN sessions /\ ~ Taken(old, new)
         /\ objs' = renamed /\ sessions' = Moved(old, new) /\ aliases' = Aliased(old, new)
  BY <1>4, Zenon DEF Identified, new
<1> QED BY <1>7, <1>8, <1>9, <1>10

LEMMA HeardStep == ASSUME IInv, NEW o \in Objects, Heard(o) PROVE IInv'
<1> DEFINE x == [objs[o] EXCEPT !.known = SdkId(o)]
<1>1. objs' = [objs EXCEPT ![o] = x] /\ UNCHANGED <<sessions, aliases, cmd, transcripts, copies, orphaned>>
  BY Zenon DEF Heard
<1>2. objs[o] \in Object
  BY ObjectTyped DEF IInv
<1>3. /\ x \in Object /\ x.id = objs[o].id /\ x.phase = objs[o].phase
      /\ x.transcript = objs[o].transcript /\ x.client = objs[o].client
      /\ x.announced = objs[o].announced
  BY <1>2 DEF SdkId, Object
<1> HIDE DEF x
<1>4. Objects' = Objects /\ \A q \in Objects : objs'[q] = IF q = o THEN x ELSE objs[q]
  BY <1>1, <1>3, ObjectReplaced DEF IInv
<1>5. TypeOK'
  BY <1>1, <1>3, Replaces DEF IInv, TypeOK
<1>6. CmdHasObject' /\ ClientHasTranscript'
  BY <1>1, <1>3, <1>4 DEF IInv, CmdHasObject, ClientHasTranscript
<1>7. ASSUME ~ orphaned PROVE CmdPhase' /\ FiledIsOpen' /\ OpenIsFiled' /\ EndedIsQuiet'
  <2>1. FiledIsOpen'
    BY <1>1, <1>3, <1>4, <1>7 DEF IInv, FiledIsOpen, TypeOK
  <2>2. OpenIsFiled'
    BY <1>1, <1>3, <1>4, <1>7 DEF IInv, OpenIsFiled
  <2>3. EndedIsQuiet'
    BY <1>1, <1>3, <1>4, <1>7 DEF IInv, EndedIsQuiet
  <2>4. CmdPhase'
    BY <1>1, <1>3, <1>4, <1>7 DEF IInv, CmdPhase, CmdHasObject
  <2> QED BY <2>1, <2>2, <2>3, <2>4
<1> QED BY <1>1, <1>5, <1>6, <1>7 DEF IInv

THEOREM Invariant == Spec => []IInv
<1>1. IInv /\ [Next]_vars => IInv'
  <2> SUFFICES ASSUME IInv, [Next]_vars PROVE IInv'
    OBVIOUS
  <2>1. 0 .. transcripts \subseteq 0 .. MaxTranscripts /\ 1 .. transcripts \subseteq Id
    BY DEF IInv, TypeOK, Id, Transcript
  <2>2. ASSUME NEW k \in Provisional, NEW resume \in 0 .. transcripts, StartNew(k, resume) PROVE IInv'
    BY <2>1, <2>2, StartNewStep DEF Id
  <2>3. ASSUME NEW t \in 1 .. transcripts, StartNew(t, t) PROVE IInv'
    <3>1. t \in Id /\ t \in 0 .. MaxTranscripts
      BY <2>1 DEF IInv, TypeOK
    <3> QED BY <2>3, <3>1, StartNewStep
  <2>4. CASE UNCHANGED vars
    BY <2>4 DEF vars, IInv, TypeOK, Objects, CmdHasObject, CmdPhase, ClientHasTranscript,
                FiledIsOpen, OpenIsFiled, EndedIsQuiet
  <2> QED
    BY <2>2, <2>3, <2>4, StartedStep, EditStep, CloseStep, EditSpawnsStep, EditFailsStep, ClosedStep,
       IdentifiedStep, HeardStep, ReconnectsStep, DuplicateStep DEF Next
<1> QED BY InitIInv, <1>1, PTL DEF Spec

(* The type invariant of the registry. *)
THEOREM TypeCorrect == Spec => []TypeOK
<1>1. IInv => TypeOK
  BY DEF IInv
<1> QED BY <1>1, Invariant, PTL

(* A session in service is filed under its id: rekeying drops none.         *)
THEOREM Reachable == Spec => []LiveIsReachable
<1>1. IInv => LiveIsReachable
  BY DEF IInv, OpenIsFiled, LiveIsReachable
<1> QED BY <1>1, Invariant, PTL

(* What is filed under an id is the session that has it.                    *)
THEOREM FiledUnderOwnId == Spec => []KeyIsSessionId
<1>1. IInv => KeyIsSessionId
  BY DEF IInv, FiledIsOpen, KeyIsSessionId
<1> QED BY <1>1, Invariant, PTL

-----------------------------------------------------------------------------
(* Names. *)

LEMMA TwoNames ==
    ASSUME NEW S, IsFiniteSet(S), Cardinality(S) <= 2, NEW a \in S, NEW b \in S, a # b
    PROVE  S = {a, b}
<1>1. /\ IsFiniteSet(S \ {a}) /\ Cardinality(S \ {a}) = Cardinality(S) - 1
      /\ IsFiniteSet((S \ {a}) \ {b})
      /\ Cardinality((S \ {a}) \ {b}) = Cardinality(S \ {a}) - 1
  BY FS_RemoveElement
<1>2. Cardinality(S) \in Nat /\ Cardinality((S \ {a}) \ {b}) \in Nat
  BY <1>1, FS_CardinalityType
<1>3. Cardinality((S \ {a}) \ {b}) = 0
  <2>1. Cardinality((S \ {a}) \ {b}) = Cardinality(S) - 2
    BY <1>1, <1>2
  <2> QED BY <1>2, <2>1
<1>4. (S \ {a}) \ {b} = {}
  BY <1>1, <1>3, FS_EmptySet
<1> QED BY <1>4

(* A step that renames nothing. *)
KeepsNames ==
    /\ Objects' = Objects
    /\ \A q \in Objects :
          /\ objs'[q].id = objs[q].id /\ objs'[q].names = objs[q].names
          /\ objs'[q].phase = "open" => objs[q].phase = "open"

LEMMA KeepsStep ==
    ASSUME NInv, IInv', KeepsNames, UNCHANGED <<sessions, aliases>>, ~ orphaned' => ~ orphaned
    PROVE  NInv'
BY DEF NInv, NamesSound, AliasLeads, KeepsNames

LEMMA QuietKeeps ==
    ASSUME IInv, IInv',
           \/ UNCHANGED objs
           \/ \E o \in Objects :
                 \/ \E t, a : objs' = [objs EXCEPT ![o].transcript = t, ![o].announced = a, ![o].client = TRUE]
                 \/ objs' = [objs EXCEPT ![o].announced = FALSE, ![o].client = FALSE]
                 \/ \E a : objs' = [objs EXCEPT ![o].phase = "closed", ![o].client = a]
                 \/ \E t : objs' = [objs EXCEPT ![o].known = t]
    PROVE  KeepsNames
<1>1. objs \in Seq(Object) /\ objs' \in Seq(Object)
  BY DEF IInv, TypeOK
<1>2. CASE UNCHANGED objs
  BY <1>2 DEF KeepsNames, Objects
<1>3. ASSUME NEW o \in Objects, NEW x, objs' = [objs EXCEPT ![o] = x],
             x.id = objs[o].id, x.names = objs[o].names, x.phase = "open" => objs[o].phase = "open"
      PROVE  KeepsNames
  <2>1. DOMAIN objs = Objects /\ DOMAIN objs' = Objects'
    <3>1. DOMAIN objs = 1 .. Len(objs)
      BY <1>1, LenProperties
    <3>2. DOMAIN objs' = 1 .. Len(objs')
      BY <1>1, LenProperties
    <3> QED BY <3>1, <3>2 DEF Objects
  <2>2. DOMAIN objs' = DOMAIN objs
    BY <1>3
  <2>3. objs'[o] = x /\ \A q \in Objects : q # o => objs'[q] = objs[q]
    BY <1>3, <2>1
  <2> QED BY <1>3, <2>1, <2>2, <2>3 DEF KeepsNames
<1>4. ASSUME NEW o \in Objects, NEW t, NEW a,
             objs' = [objs EXCEPT ![o].transcript = t, ![o].announced = a, ![o].client = TRUE]
      PROVE  KeepsNames
  <2> DEFINE x == [objs[o] EXCEPT !.transcript = t, !.announced = a, !.client = TRUE]
  <2>1. objs' = [objs EXCEPT ![o] = x]
    BY <1>4, Zenon
  <2>2. x.id = objs[o].id /\ x.names = objs[o].names /\ x.phase = objs[o].phase
    BY ObjectTyped DEF IInv, Object
  <2> HIDE DEF x
  <2> QED BY <1>3, <2>1, <2>2
<1>5. ASSUME NEW o \in Objects, objs' = [objs EXCEPT ![o].announced = FALSE, ![o].client = FALSE]
      PROVE  KeepsNames
  <2> DEFINE x == [objs[o] EXCEPT !.announced = FALSE, !.client = FALSE]
  <2>1. objs' = [objs EXCEPT ![o] = x]
    BY <1>5, Zenon
  <2>2. x.id = objs[o].id /\ x.names = objs[o].names /\ x.phase = objs[o].phase
    BY ObjectTyped DEF IInv, Object
  <2> HIDE DEF x
  <2> QED BY <1>3, <2>1, <2>2
<1>6. ASSUME NEW o \in Objects, NEW a, objs' = [objs EXCEPT ![o].phase = "closed", ![o].client = a]
      PROVE  KeepsNames
  <2> DEFINE x == [objs[o] EXCEPT !.phase = "closed", !.client = a]
  <2>1. objs' = [objs EXCEPT ![o] = x]
    BY <1>6, Zenon
  <2>2. x.id = objs[o].id /\ x.names = objs[o].names /\ x.phase = "closed"
    BY ObjectTyped DEF IInv, Object
  <2> HIDE DEF x
  <2> QED BY <1>3, <2>1, <2>2
<1>7. ASSUME NEW o \in Objects, NEW t, objs' = [objs EXCEPT ![o].known = t]
      PROVE  KeepsNames
  <2> DEFINE x == [objs[o] EXCEPT !.known = t]
  <2>1. objs' = [objs EXCEPT ![o] = x]
    BY <1>7, Zenon
  <2>2. x.id = objs[o].id /\ x.names = objs[o].names /\ x.phase = objs[o].phase
    BY ObjectTyped DEF IInv, Object
  <2> HIDE DEF x
  <2> QED BY <1>3, <2>1, <2>2
<1> QED BY <1>2, <1>4, <1>5, <1>6, <1>7

LEMMA StartNewNames ==
    ASSUME NInv, IInv', NEW k \in Id, NEW resume, StartNew(k, resume)
    PROVE  NInv'
<1> DEFINE n == Len(objs) + 1
<1>1. /\ Objects' = Objects \cup {n} /\ n \notin Objects
      /\ \A q \in Objects : objs'[q] = objs[q]
      /\ objs'[n].id = k /\ objs'[n].names = {k}
  <2>1. objs \in Seq(Object) /\ Len(objs) \in Nat
    BY DEF NInv, IInv, TypeOK
  <2> QED BY <2>1 DEF StartNew, Objects
<1>2. NamesSound'
  <2>1. IsFiniteSet({k})
    BY FS_Singleton
  <2> QED BY <1>1, <2>1 DEF NInv, NamesSound
<1>3. ASSUME ~ orphaned, NEW q \in Objects, objs[q].phase = "open", Cardinality(objs[q].names) <= 2,
             NEW j \in objs[q].names \cap Provisional, j # objs[q].id
      PROVE  j # k
  <2>1. /\ j \in DOMAIN aliases /\ aliases[j] = objs[q].id /\ j \notin DOMAIN sessions
        /\ objs[q].id \in DOMAIN sessions /\ sessions[objs[q].id] = q
    BY <1>3 DEF NInv, IInv, AliasLeads, OpenIsFiled
  <2>2. Lookup(j) = q /\ q # 0
    BY <2>1 DEF Lookup, Objects
  <2> QED BY <2>2 DEF StartNew
<1>4. /\ DOMAIN sessions' = DOMAIN sessions \cup {k} /\ UNCHANGED <<aliases, orphaned>>
  BY DEF StartNew, Put
<1>5. ~ orphaned => AliasLeads'
  BY <1>1, <1>3, <1>4 DEF NInv, AliasLeads
<1> QED BY <1>2, <1>4, <1>5 DEF NInv

LEMMA CloseNames ==
    ASSUME NInv, IInv', NEW k \in Id, Close(k)
    PROVE  NInv'
<1> DEFINE o == Lookup(k)
           id == objs[o].id
<1>1. o \in Objects /\ objs[o] \in Object
  BY LookupTyped, ObjectTyped DEF NInv, IInv, Close
<1>2. /\ Objects' = Objects
      /\ \A q \in Objects : objs'[q].id = objs[q].id /\ objs'[q].names = objs[q].names
      /\ \A q \in Objects : q # o => objs'[q] = objs[q]
      /\ objs'[o].phase = "closing"
  <2> DEFINE x == [objs[o] EXCEPT !.phase = "closing"]
  <2>1. objs' = [objs EXCEPT ![o] = x]
    BY Zenon DEF Close
  <2>2. x.id = objs[o].id /\ x.names = objs[o].names /\ x.phase = "closing"
    BY <1>1 DEF Object
  <2> HIDE DEF x, o
  <2>3. objs \in Seq(Object)
    BY DEF NInv, IInv, TypeOK
  <2> QED BY <1>1, <2>1, <2>2, <2>3 DEF Objects
<1>3. NamesSound'
  BY <1>2 DEF NInv, NamesSound
<1>4. /\ DOMAIN sessions' \subseteq DOMAIN sessions /\ UNCHANGED orphaned
      /\ \A j \in DOMAIN aliases : aliases[j] # id /\ j # k => j \in DOMAIN aliases' /\ aliases'[j] = aliases[j]
  BY DEF Close, Pop
<1>5. ASSUME ~ orphaned, NEW q \in Objects, q # o, objs[q].phase = "open", Cardinality(objs[q].names) <= 2,
             NEW j \in objs[q].names \cap Provisional, j # objs[q].id
      PROVE  aliases[j] # id /\ j # k
  <2>1. /\ j \in DOMAIN aliases /\ aliases[j] = objs[q].id /\ j \notin DOMAIN sessions
        /\ objs[q].id \in DOMAIN sessions /\ sessions[objs[q].id] = q
    BY <1>5 DEF NInv, IInv, AliasLeads, OpenIsFiled
  <2>2. Lookup(j) = q
    BY <2>1 DEF Lookup
  <2>3. PICK i \in DOMAIN sessions : o = sessions[i]
    BY LookupTyped DEF Close, NInv, IInv
  <2>4. sessions[id] = o
    BY <1>5, <2>3 DEF NInv, IInv, FiledIsOpen
  <2> QED BY <1>5, <2>1, <2>2, <2>4
<1>6. ~ orphaned => AliasLeads'
  BY <1>2, <1>4, <1>5 DEF NInv, AliasLeads
<1> QED BY <1>3, <1>4, <1>6 DEF NInv

LEMMA IdentifiedNames ==
    ASSUME NInv, IInv', NEW o \in Objects, Identified(o)
    PROVE  NInv'
<1> DEFINE old == objs[o].id
           new == SdkId(o)
           d == sessions[old]
           x == [objs[o] EXCEPT !.known = new, !.announced = TRUE, !.id = new, !.names = @ \cup {new}]
           renamed == [objs EXCEPT ![o] = x]
<1>1. /\ objs[o].client /\ objs[o].phase # "closing" /\ ~ objs[o].announced
      /\ UNCHANGED orphaned
  BY DEF Identified
<1>2. objs[o] \in Object /\ objs \in Seq(Object) /\ new \in Transcript /\ new = objs[o].transcript
  BY <1>1, ObjectTyped DEF NInv, IInv, TypeOK, ClientHasTranscript, SdkId, Object, Transcript
<1>3. x.id = new /\ x.names = objs[o].names \cup {new} /\ x.phase = objs[o].phase
  BY <1>2 DEF Object
<1>4. [objs EXCEPT ![o].known = new, ![o].announced = TRUE, ![o].id = new, ![o].names = @ \cup {new}] = renamed
  BY Zenon
<1> HIDE DEF x
<1>5. /\ DOMAIN renamed = DOMAIN objs /\ renamed[o] = x
      /\ \A q \in Objects : q # o => renamed[q] = objs[q]
  BY <1>2 DEF Objects
<1>6. \/ /\ old = new \/ old \notin DOMAIN sessions
         /\ objs' = renamed /\ UNCHANGED <<sessions, aliases>>
      \/ /\ old # new /\ old \in DOMAIN sessions /\ Taken(old, new)
         /\ objs' = Doomed(renamed, d) /\ sessions' = Pop(sessions, {old}) /\ UNCHANGED aliases
      \/ /\ old # new /\ old \in DOMAIN sessions /\ ~ Taken(old, new)
         /\ objs' = renamed /\ sessions' = Moved(old, new) /\ aliases' = Aliased(old, new)
  BY <1>4, Zenon DEF Identified, new
<1>7. /\ Objects' = Objects
      /\ objs'[o].id = new /\ objs'[o].names = objs[o].names \cup {new}
      /\ \A q \in Objects : q # o => objs'[q].id = objs[q].id /\ objs'[q].names = objs[q].names
                                   /\ (objs'[q].phase = "open" => objs[q].phase = "open")
  <2>1. CASE objs' = renamed
    BY <1>2, <1>3, <1>5, <2>1 DEF Objects, NInv, IInv, TypeOK
  <2>2. CASE old \in DOMAIN sessions /\ objs' = Doomed(renamed, d)
    <3> DEFINE y == [renamed[d] EXCEPT !.phase = "doomed"]
    <3>1. d \in Objects
      BY <2>2 DEF NInv, IInv, TypeOK
    <3>2. renamed \in Seq(Object) /\ renamed[d] \in Object
      <4>1. x \in Object
        BY <1>2 DEF x, Object, Id, Transcript
      <4> QED BY <1>2, <3>1, <4>1 DEF Objects
    <3>3. y.id = renamed[d].id /\ y.names = renamed[d].names /\ y.phase = "doomed"
      BY <3>2 DEF Object
    <3>4. objs' = [renamed EXCEPT ![d] = y]
      BY <2>2, Zenon DEF Doomed
    <3> HIDE DEF y, d, renamed
    <3>5. DOMAIN objs' = DOMAIN objs /\ objs'[d] = y /\ \A q \in Objects : q # d => objs'[q] = renamed[q]
      <4>1. DOMAIN objs' = DOMAIN renamed /\ DOMAIN objs = Objects
        BY <1>2, <3>4 DEF Objects
      <4> QED BY <1>5, <3>1, <3>4, <4>1
    <3>6. Objects' = Objects
      BY <3>5 DEF Objects, NInv, IInv, TypeOK
    <3>7. \A q \in Objects : objs'[q].id = renamed[q].id /\ objs'[q].names = renamed[q].names
                                /\ (objs'[q].phase = "open" => renamed[q].phase = "open")
      BY <3>3, <3>5
    <3> QED BY <1>3, <1>5, <3>6, <3>7
  <2> QED BY <1>6, <2>1, <2>2
<1> HIDE DEF renamed, d, new
<1>8. NamesSound'
  <2>1. IsFiniteSet(objs[o].names \cup {new})
    BY FS_AddElement DEF NInv, NamesSound
  <2> QED BY <1>7, <2>1 DEF NInv, NamesSound
<1>9. ASSUME ~ orphaned PROVE AliasLeads'
  <2>1. objs[o].phase = "open" /\ old \in DOMAIN sessions /\ sessions[old] = o
    BY <1>1, <1>9, NamingIsFiled DEF NInv
  <2>2. ASSUME NEW q \in Objects, q # o, objs[q].phase = "open", Cardinality(objs[q].names) <= 2,
               NEW k \in objs[q].names \cap Provisional, k # objs[q].id
        PROVE  k \in DOMAIN aliases' /\ aliases'[k] = objs[q].id /\ k \notin DOMAIN sessions'
    <3>1. k \in DOMAIN aliases /\ aliases[k] = objs[q].id /\ k \notin DOMAIN sessions
      BY <1>9, <2>2 DEF NInv, AliasLeads
    <3>2. k # old /\ k # new
      BY <1>2, <2>1, <3>1 DEF Transcript
    <3> QED BY <1>6, <3>1, <3>2 DEF Pop, Put, Moved, Aliased
  <2>3. ASSUME objs'[o].phase = "open", Cardinality(objs[o].names \cup {new}) <= 2,
               NEW k \in (objs[o].names \cup {new}) \cap Provisional, k # new
        PROVE  k \in DOMAIN aliases' /\ aliases'[k] = new /\ k \notin DOMAIN sessions'
    <3>1. CASE old = new
      <4>1. UNCHANGED <<sessions, aliases>> /\ objs[o].names \cup {new} = objs[o].names
        BY <1>6, <3>1 DEF NInv, NamesSound
      <4> QED BY <1>9, <2>1, <2>3, <3>1, <4>1 DEF NInv, AliasLeads
    <3>2. CASE old # new
      <4>1. k = old
        <5>1. IsFiniteSet(objs[o].names \cup {new}) /\ old \in objs[o].names
          BY FS_AddElement DEF NInv, NamesSound
        <5> QED BY <2>3, <3>2, <5>1, TwoNames
      <4>2. ~ Taken(old, new)
        <5>1. ASSUME Taken(old, new) PROVE FALSE
          <6>1. objs' = Doomed(renamed, d) /\ d = o
            BY <1>6, <2>1, <3>2, <5>1 DEF d
          <6>2. objs'[o].phase = "doomed"
            <7>1. renamed \in Seq(Object) /\ o \in DOMAIN renamed /\ renamed[o] \in Object
              <8>1. x \in Object
                BY <1>2 DEF x, Object, Id, Transcript
              <8> QED BY <1>2, <8>1 DEF renamed, Objects
            <7> QED BY <6>1, <7>1 DEF Doomed, Object
          <6> QED BY <2>3, <6>2
        <5> QED BY <5>1
      <4> QED BY <1>6, <2>1, <3>2, <4>1, <4>2 DEF Moved, Aliased, Put, Pop
    <3> QED BY <3>1, <3>2
  <2> QED BY <1>7, <2>2, <2>3 DEF AliasLeads
<1> QED BY <1>1, <1>8, <1>9 DEF NInv

(* A browser that made up an id for a session reaches it by that id, whatever  *)
(* became of the other sessions, when the session was renamed once             *)
(* (_rekey_session, _session): the alias is there, leads to the session, and   *)
(* nothing else is filed under the id.                                         *)
THEOREM RenamedReached == Spec => []RenamedOnceResolves
<1>1. Init => NInv
  <2> SUFFICES ASSUME Init PROVE NInv
    OBVIOUS
  <2>1. Objects = {}
    BY DEF Init, Objects
  <2> QED BY <2>1, InitIInv DEF NInv, NamesSound, AliasLeads
<1>2. NInv /\ IInv' /\ [Next]_vars => NInv'
  <2> SUFFICES ASSUME NInv, IInv', [Next]_vars PROVE NInv'
    OBVIOUS
  <2>1. 1 .. transcripts \subseteq Id
    BY DEF NInv, IInv, TypeOK, Id, Transcript
  <2>2. ASSUME NEW k \in Id, NEW resume, StartNew(k, resume) PROVE NInv'
    BY <2>2, StartNewNames
  <2>3. ASSUME NEW k \in Id, Close(k) PROVE NInv'
    BY <2>3, CloseNames
  <2>4. ASSUME NEW o \in Objects, Identified(o) PROVE NInv'
    BY <2>4, IdentifiedNames
  <2>5. ASSUME KeepsNames, UNCHANGED <<sessions, aliases>>, ~ orphaned' => ~ orphaned PROVE NInv'
    BY <2>5, KeepsStep
  <2>6. IInv
    BY DEF NInv
  <2>7. CASE Started
    <3>1. PICK t \in Transcript : ClientUp(cmd.obj, t, FALSE)
      BY <2>7 DEF Started
    <3>2. cmd.obj \in Objects
      BY <2>6, <2>7 DEF Started, IInv, CmdHasObject
    <3>3. KeepsNames
      BY <2>6, <3>1, <3>2, QuietKeeps, Zenon DEF ClientUp
    <3> QED BY <2>5, <2>7, <3>3 DEF Started
  <2>8. ASSUME NEW o \in Objects, Reconnects(o) PROVE NInv'
    <3>1. PICK t \in Transcript : ClientUp(o, t, objs[o].announced)
      BY <2>8 DEF Reconnects
    <3>2. KeepsNames
      BY <2>6, <3>1, QuietKeeps, Zenon DEF ClientUp
    <3> QED BY <2>5, <2>8, <3>2 DEF Reconnects
  <2>9. CASE EditSpawns
    <3>1. cmd.obj \in Objects
      BY <2>6, <2>9 DEF EditSpawns, IInv, CmdHasObject
    <3>2. KeepsNames
      BY <2>6, <2>9, <3>1, QuietKeeps, Zenon DEF ClientUp, EditSpawns
    <3> QED BY <2>5, <2>9, <3>2 DEF EditSpawns
  <2>10. CASE EditFails
    <3>1. cmd.obj \in Objects
      BY <2>6, <2>10 DEF EditFails, IInv, CmdHasObject
    <3>2. KeepsNames
      BY <2>6, <2>10, <3>1, QuietKeeps, Zenon DEF EditFails
    <3> QED BY <2>5, <2>10, <3>2 DEF EditFails
  <2>11. ASSUME NEW o \in Objects, EndClose(o), UNCHANGED <<sessions, aliases>> PROVE NInv'
    <3>1. KeepsNames
      BY <2>6, <2>11, QuietKeeps, Zenon DEF EndClose
    <3> QED BY <2>5, <2>11, <3>1 DEF EndClose
  <2>12. CASE Closed
    BY <2>6, <2>11, <2>12 DEF Closed, IInv, CmdHasObject
  <2>13. ASSUME NEW o \in Objects, DuplicateClosed(o) PROVE NInv'
    BY <2>11, <2>13 DEF DuplicateClosed
  <2>14. ASSUME NEW o \in Objects, Heard(o) PROVE NInv'
    <3>1. KeepsNames
      BY <2>6, <2>14, QuietKeeps, Zenon DEF Heard
    <3> QED BY <2>5, <2>14, <3>1 DEF Heard
  <2>15. ASSUME NEW k \in Id, Edit(k) PROVE NInv'
    BY <2>5, <2>6, <2>15, QuietKeeps DEF Edit
  <2>16. CASE UNCHANGED vars
    BY <2>5, <2>6, <2>16, QuietKeeps DEF vars
  <2> QED
    BY <2>1, <2>2, <2>3, <2>4, <2>7, <2>8, <2>9, <2>10, <2>12, <2>13, <2>14, <2>15, <2>16 DEF Next, Id
<1>3. NInv => RenamedOnceResolves
  <2> SUFFICES ASSUME NInv, ~ orphaned, NEW o \in Objects, objs[o].phase = "open",
                      Cardinality(objs[o].names) <= 2, NEW k \in objs[o].names \cap Provisional
               PROVE  Lookup(k) = o
    BY DEF RenamedOnceResolves
  <2>1. objs[o].id \in DOMAIN sessions /\ sessions[objs[o].id] = o
    BY DEF NInv, IInv, OpenIsFiled
  <2>2. k # objs[o].id => k \in DOMAIN aliases /\ aliases[k] = objs[o].id /\ k \notin DOMAIN sessions
    BY DEF NInv, AliasLeads
  <2> QED BY <2>1, <2>2 DEF Lookup
<1> QED BY <1>1, <1>2, <1>3, Invariant, PTL DEF Spec
=============================================================================
