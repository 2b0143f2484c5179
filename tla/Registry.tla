------------------------------ MODULE Registry ------------------------------
(***************************************************************************)
(* The session registry of the node (connection.py): which Session object  *)
(* an id from a browser reaches.  A session opens under an id the browser  *)
(* made up; its agent reports the id of the transcript on disk, and the    *)
(* node moves the session to that id and keeps the old one as an alias.    *)
(* An edit forks the transcript, which moves the session once more.        *)
(*                                                                         *)
(* The receive loop awaits one command at a time; turns, and the close of  *)
(* a duplicate, run beside it.  The turns themselves are in Session: here  *)
(* an agent may name its transcript at any time while its client is up.    *)
(* Where close() leaves a client running (Session!ClosedStaysClosed), the  *)
(* session is an orphan here too.                                          *)
(***************************************************************************)
EXTENDS Naturals, Sequences, FiniteSets

CONSTANTS
    Provisional,    \* ids made up by browsers
    MaxTranscripts, \* bound: transcripts on disk, named 1, 2, ...
    MaxSessions     \* bound: Session objects created

ASSUME RegistryAssumption ==
    /\ MaxTranscripts \in Nat \ {0}
    /\ MaxSessions \in Nat
    /\ Provisional \cap Nat = {}

VARIABLES
    objs,        \* the Session objects, in the order they were created
    sessions,    \* sessions: from ids to objects
    aliases,     \* _aliases: from ids to ids
    cmd,         \* where the command handler is suspended
    transcripts, \* how many transcripts there are
    copies,      \* the last repaired copy prepare_resume made of each, 0 for none
    orphaned     \* history: close() has left a client running

vars == <<objs, sessions, aliases, cmd, transcripts, copies, orphaned>>

-----------------------------------------------------------------------------
Transcript == 1 .. MaxTranscripts
Id == Provisional \cup Transcript

(* open: in service; doomed: its close() is scheduled; closing: close() is  *)
(* under way.                                                               *)
Object == [id : Id,                        \* session_id
           transcript : 0 .. MaxTranscripts,  \* what its agent writes; 0 none
           known : 0 .. MaxTranscripts,    \* _sdk_session_id
           announced : BOOLEAN,            \* _announced_identity
           client : BOOLEAN,               \* its provider has a client up
           phase : {"open", "doomed", "closing", "closed"},
           names : SUBSET Id]              \* history: every id it has had

Objects == 1 .. Len(objs)

Cmd == [pc : {"idle"}]
           \cup [pc : {"start"}, obj : 1 .. MaxSessions, resume : 0 .. MaxTranscripts]
           \cup [pc : {"edit", "close"}, obj : 1 .. MaxSessions]

Idle == [pc |-> "idle"]

TypeOK ==
    /\ objs \in Seq(Object) /\ Len(objs) <= MaxSessions
    /\ DOMAIN sessions \subseteq Id
    /\ \A k \in DOMAIN sessions : sessions[k] \in Objects
    /\ DOMAIN aliases \subseteq Id
    /\ \A k \in DOMAIN aliases : aliases[k] \in Id
    /\ cmd \in Cmd
    /\ transcripts \in 0 .. MaxTranscripts
    /\ copies \in [Transcript -> 0 .. MaxTranscripts]
    /\ orphaned \in BOOLEAN

Empty == [k \in {} |-> 0]

(* Some transcripts are there from before. *)
Init ==
    /\ objs = <<>>
    /\ sessions = Empty
    /\ aliases = Empty
    /\ cmd = Idle
    /\ transcripts = 1
    /\ copies = [t \in Transcript |-> 0]
    /\ orphaned = FALSE

-----------------------------------------------------------------------------
(* dict[key] = value and dict.pop(key). *)
Put(dict, key, value) ==
    [k \in DOMAIN dict \cup {key} |-> IF k = key THEN value ELSE dict[k]]

Pop(dict, keys) == [k \in DOMAIN dict \ keys |-> dict[k]]

(* _session: by canonical id, else by one alias step; 0 for none. *)
Lookup(k) ==
    IF k \in DOMAIN sessions THEN sessions[k]
    ELSE IF k \in DOMAIN aliases /\ aliases[k] \in DOMAIN sessions
         THEN sessions[aliases[k]] ELSE 0

(* _start_session for an id no session answers to: create the session,      *)
(* register it, and suspend in the emit of session.started.                 *)
StartNew(k, resume) ==
    /\ cmd = Idle
    /\ Lookup(k) = 0
    /\ Len(objs) < MaxSessions
    /\ objs' = Append(objs, [id |-> k, transcript |-> 0, known |-> 0, announced |-> FALSE,
                             client |-> FALSE, phase |-> "open", names |-> {k}])
    /\ sessions' = Put(sessions, k, Len(objs) + 1)
    /\ cmd' = [pc |-> "start", obj |-> Len(objs) + 1, resume |-> resume]
    /\ UNCHANGED <<aliases, transcripts, copies, orphaned>>

(* prepare_resume: transcript t itself or, where that needs the repair, the *)
(* copy that was made of it, or a new copy since it has grown.  Without one *)
(* to resume the agent begins a new transcript.                             *)
Resumed(t) == {transcripts + 1} \cup (IF t = 0 THEN {} ELSE {t, copies[t]} \ {0})

Copied(t, u) == copies' = IF t # 0 /\ u > transcripts THEN [copies EXCEPT ![t] = u] ELSE copies

(* The agent of object o comes up on transcript t, an old one or a new one. *)
ClientUp(o, t, announced) ==
    /\ objs' = [objs EXCEPT ![o].transcript = t, ![o].announced = announced,
                            ![o].client = TRUE]
    /\ transcripts' = IF t > transcripts THEN t ELSE transcripts

(* The first turn is spawned. *)
Started ==
    /\ cmd.pc = "start"
    /\ \E t \in Resumed(cmd.resume) \cap Transcript :
          ClientUp(cmd.obj, t, FALSE) /\ Copied(cmd.resume, t)
    /\ cmd' = Idle
    /\ UNCHANGED <<sessions, aliases, orphaned>>

(* A later turn finds its client gone after a fatal error, or wants another *)
(* effort; or a turn is tried again.  A client comes up on the session last *)
(* heard of, or on that of the turn tried again, and _announced_identity    *)
(* stays: a copy is never announced.                                        *)
Reconnects(o) ==
    /\ objs[o].phase \in {"open", "doomed"}
    /\ cmd.pc = "start" => cmd.obj # o
    /\ \E t \in {objs[o].known, objs[o].transcript} :
        \E u \in Resumed(t) \cap Transcript :
            ClientUp(o, u, objs[o].announced) /\ Copied(t, u)
    /\ UNCHANGED <<sessions, aliases, cmd, orphaned>>

(* edit() suspends in the emit of session.rewound, ... *)
Edit(k) ==
    /\ cmd = Idle
    /\ Lookup(k) # 0
    /\ cmd' = [pc |-> "edit", obj |-> Lookup(k)]
    /\ UNCHANGED <<objs, sessions, aliases, transcripts, copies, orphaned>>

(* ... then spawns the turn that forks.  On a session that was closed       *)
(* meanwhile the turn may still run: an orphan.                             *)
EditSpawns ==
    /\ cmd.pc = "edit"
    /\ transcripts < MaxTranscripts
    /\ ClientUp(cmd.obj, transcripts + 1, FALSE)
    /\ orphaned' = (orphaned \/ objs[cmd.obj].phase # "open")
    /\ cmd' = Idle
    /\ UNCHANGED <<sessions, aliases, copies>>

(* The turn is cancelled by the close, or fails before it closed the old    *)
(* client, or after: the fork does not connect.                             *)
EditFails ==
    /\ cmd.pc = "edit"
    /\ \/ UNCHANGED objs
       \/ /\ objs[cmd.obj].phase = "open"
          /\ objs' = [objs EXCEPT ![cmd.obj].announced = FALSE, ![cmd.obj].client = FALSE]
    /\ cmd' = Idle
    /\ UNCHANGED <<sessions, aliases, transcripts, copies, orphaned>>

(* _rekey_session: the entry moves from the old id to the new. *)
Moved(old, new) == Put(Pop(sessions, {old}), new, sessions[old])

(* Fault: nobody looks whether the new id is taken. *)
NeverTaken(old, new) == FALSE

(* Another session owns the new id. *)
Taken(old, new) == new \in DOMAIN sessions /\ sessions[new] # sessions[old]

(* The close() of o is scheduled. *)
Doomed(objects, o) == [objects EXCEPT ![o].phase = "doomed"]

(* Fault: the alias points the wrong way. *)
AliasedBackwards(old, new) == Put(aliases, new, old)

(* The old id stays an alias of the new. *)
Aliased(old, new) == Put(aliases, old, new)

(* The sdk_session_id the agent of o reports. *)
SdkId(o) == objs[o].transcript

(* The agent of o names its transcript: session.identified, on which        *)
(* Session._emit adopts the id and _rekey_session moves what the registry   *)
(* holds under the old one.  An id already owned makes that a duplicate.  A *)
(* turn that close() has cancelled says no more.                            *)
Identified(o) ==
    LET old     == objs[o].id
        new     == SdkId(o)
        renamed == [objs EXCEPT ![o].known = new, ![o].announced = TRUE, ![o].id = new,
                                ![o].names = @ \cup {new}]
    IN  /\ objs[o].client
        /\ objs[o].phase # "closing"
        /\ ~ objs[o].announced
        /\ \/ /\ old = new \/ old \notin DOMAIN sessions
              /\ objs' = renamed
              /\ UNCHANGED <<sessions, aliases>>
           \/ /\ old # new
              /\ old \in DOMAIN sessions
              /\ Taken(old, new)
              /\ objs' = Doomed(renamed, sessions[old])
              /\ sessions' = Pop(sessions, {old})
              /\ UNCHANGED aliases
           \/ /\ old # new
              /\ old \in DOMAIN sessions
              /\ ~ Taken(old, new)
              /\ objs' = renamed
              /\ sessions' = Moved(old, new)
              /\ aliases' = Aliased(old, new)
        /\ UNCHANGED <<cmd, transcripts, copies, orphaned>>

(* _note_ids: a session that has announced itself before hears of another   *)
(* transcript, and only notes it.                                           *)
Heard(o) ==
    /\ objs[o].client /\ objs[o].phase # "closing" /\ objs[o].announced
    /\ objs[o].known # SdkId(o)
    /\ objs' = [objs EXCEPT ![o].known = SdkId(o)]
    /\ UNCHANGED <<sessions, aliases, cmd, transcripts, copies, orphaned>>

(* close() of o is over; a chain that had not started, or an edit under     *)
(* way, may have left its client up.                                        *)
EndClose(o) ==
    \E leaks \in {FALSE, objs[o].client} :
        /\ objs' = [objs EXCEPT ![o].phase = "closed", ![o].client = leaks]
        /\ orphaned' = (orphaned \/ leaks)

(* _close_session: out of the registry first, then close(). *)
Close(k) ==
    /\ cmd = Idle
    /\ Lookup(k) # 0
    /\ LET id == objs[Lookup(k)].id
       IN  /\ sessions' = Pop(sessions, {id})
           /\ aliases' = Pop(aliases, {a \in DOMAIN aliases : aliases[a] = id \/ a = k})
    /\ objs' = [objs EXCEPT ![Lookup(k)].phase = "closing"]
    /\ cmd' = [pc |-> "close", obj |-> Lookup(k)]
    /\ UNCHANGED <<transcripts, copies, orphaned>>

Closed ==
    /\ cmd.pc = "close"
    /\ EndClose(cmd.obj)
    /\ cmd' = Idle
    /\ UNCHANGED <<sessions, aliases, transcripts, copies>>

(* The scheduled close() of a duplicate. *)
DuplicateClosed(o) ==
    /\ objs[o].phase = "doomed"
    /\ EndClose(o)
    /\ UNCHANGED <<sessions, aliases, cmd, transcripts, copies>>

-----------------------------------------------------------------------------
(* A browser starts a session under an id of its own, afresh or to resume a *)
(* transcript from the history, or under the id of the transcript.          *)
Next ==
    \/ \E k \in Provisional, resume \in 0 .. transcripts : StartNew(k, resume)
    \/ \E t \in 1 .. transcripts : StartNew(t, t)
    \/ Started
    \/ \E k \in Id : Edit(k) \/ Close(k)
    \/ EditSpawns
    \/ EditFails
    \/ Closed
    \/ \E o \in Objects : Reconnects(o) \/ Identified(o) \/ Heard(o) \/ DuplicateClosed(o)

Spec == Init /\ [][Next]_vars

-----------------------------------------------------------------------------
(* Properties.  All of them need a close() that ends the session's client:  *)
(* an orphan's announcement moves whatever session has its id by then.      *)

(* The registry files every session under its own session_id, so snapshots, *)
(* the running flag of the history and _close_session's pop name the right  *)
(* one.                                                                     *)
KeyIsSessionId ==
    ~ orphaned => \A k \in DOMAIN sessions : objs[sessions[k]].id = k

(* connection.py: "never run two clients for one transcript", once both      *)
(* agents have said what they write, except while a close() is on its way.  *)
OneOwner ==
    ~ orphaned =>
        \A o, q \in Objects :
            (/\ o # q
             /\ objs[o].transcript = objs[q].transcript
             /\ \A x \in {o, q} : objs[x].client /\ objs[x].known = objs[x].transcript)
                => \E x \in {o, q} : objs[x].phase # "open"

(* A session with a client can be addressed, stopped and closed, unless its *)
(* close() is on its way: rekeying never drops one.                         *)
LiveIsReachable ==
    ~ orphaned =>
        \A o \in Objects :
            objs[o].phase = "open" =>
                objs[o].id \in DOMAIN sessions /\ sessions[objs[o].id] = o

(* A browser that missed session.identified still reaches the session by    *)
(* the id it made up for it, as long as the session moved only once.        *)
RenamedOnceResolves ==
    ~ orphaned =>
        \A o \in Objects :
            (objs[o].phase = "open" /\ Cardinality(objs[o].names) <= 2)
                => \A k \in objs[o].names \cap Provisional : Lookup(k) = o

(* claude.py: an edit leaves "the original session" intact.  A prompt for a *)
(* transcript's id goes to a session whose agent writes that transcript.    *)
IdReachesTranscript ==
    \A t \in 1 .. transcripts :
        (Lookup(t) # 0 /\ objs[Lookup(t)].announced)
            => objs[Lookup(t)].transcript = t
=============================================================================
