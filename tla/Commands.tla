------------------------------ MODULE Commands ------------------------------
(***************************************************************************)
(* The commands a node answers beside its sessions (connection.py): the    *)
(* ring of command ids, the reads that run as background tasks, one per    *)
(* action (history.list, capabilities.get), and history.mark_read, which   *)
(* the loop that receives messages awaits.  Two parties touch the file of  *)
(* read marks: mark() in a worker thread, under a lock that only mark()    *)
(* takes, and annotate() on the event loop, which seeds a missing file.    *)
(*                                                                         *)
(* The relay delivers a command, and may deliver it again, with an id or   *)
(* without.  The commands of sessions are left to the modules Session and  *)
(* Registry.  Transcripts are a stamp per session, written by the agents.  *)
(* A snapshot is sent once: it is lost when its connection is gone, and    *)
(* who sends it may be suspended in the send.  A crash loses all but the   *)
(* files and what a browser shows.                                         *)
(***************************************************************************)
EXTENDS ReadMarks, Sequences

CONSTANTS
    MaxRing,        \* the ids remembered (1000 in _is_duplicate_command)
    Limits,         \* the limits a browser may ask a listing for
    Named,          \* whether a command has a cmd_id
    MaxCmds,        \* bound: the commands issued
    MaxDeliveries,  \* bound: the deliveries, first and repeated; a crash takes the place of one
    MaxTime,        \* bound: the clock
    MaxCrashes      \* bound: the crashes

ASSUME CommandsAssumption ==
    /\ Sessions # {} /\ MaxRing \in Nat \ {0}
    /\ Limits \subseteq Nat \ {0} /\ Limits # {} /\ Named \subseteq BOOLEAN
    /\ MaxCmds \in Nat /\ MaxDeliveries \in Nat /\ MaxTime \in Nat \ {0} /\ MaxCrashes \in Nat

Ids == 1 .. MaxCmds
Reads == {"history.list", "capabilities.get"}
Stamps == 0 .. MaxTime

VARIABLES
    now, updated,   \* the clock, and each transcript's modification time
    view,           \* the listing a browser shows: the stamps of the sessions in it
    cmds,           \* the commands issued, by id
    deliveries,     \* how many messages the relay delivered
    ring,           \* _seen_cmds, in the order of _seen_cmd_order
    inline,         \* the history.mark_read the receiving loop awaits
    task,           \* _read_tasks
    cache,          \* _claude_commands_cache
    file,           \* reads.json
    seeding,        \* the file annotate() found missing: what it will write, for whom
    crashes,        \* how often the node ended and was started again
    \* History: how often each command with an id ran in this process, how many
    \* ids were recorded since its own, which requests are to be answered, the
    \* highest mark a user set and can rely on, and the highest stamp shown or, for a
    \* mark without a stamp, looked up for it; and the sessions a snapshot
    \* shows as unread that such a mark covers.
    runs, since, waiting, acked, rendered, relit

clockVars == <<now, updated>>
browserVars == <<view, cmds, rendered, relit>>
ringVars == <<ring, runs, since>>
workVars == <<inline, task, cache, seeding>>
vars == <<clockVars, browserVars, deliveries, ringVars, workVars, file, crashes, waiting, acked>>

Listings == UNION {[rows -> Stamps] : rows \in SUBSET Sessions}
Cmd == [action : Reads \cup {"history.mark_read"}, limit : Limits, s : Sessions, seen : Stamps,
        named : BOOLEAN]
File == [there : BOOLEAN, baseline : Stamps, marks : [Sessions -> Stamps]]

(* The steps of a listing task, and of history.mark_read. *)
Idle == [at |-> "none", limit |-> 0, listing |-> <<>>]
Quiet == [at |-> "none", id |-> 0, listing |-> <<>>, data |-> NoFile, seen |-> 0]
Answering == [Quiet EXCEPT !.at = "sending"]
NoSeed == [by |-> "nobody", data |-> NoFile]

TypeOK ==
    /\ now \in 1 .. MaxTime /\ updated \in [Sessions -> Stamps]
    /\ view \in Listings /\ relit \subseteq Sessions
    /\ cmds \in Seq(Cmd) /\ Len(cmds) <= MaxCmds
    /\ deliveries \in 0 .. MaxDeliveries
    /\ ring \in Seq(Ids) /\ Len(ring) <= MaxRing
    /\ inline.at \in {"none", "listing", "listed", "reading", "writing", "marked", "sending"}
    /\ inline.listing \in Listings \cup {<<>>} /\ inline.data \in File /\ inline.seen \in Stamps
    /\ \A a \in Reads : task[a].at \in {"none", "working", "worked", "sending", "done"}
    /\ cache \in {"none", "empty", "full"}
    /\ file \in File
    /\ seeding.by \in {"nobody", "task", "inline"} /\ seeding.data \in File
    /\ crashes \in 0 .. MaxCrashes
    /\ runs \in [Ids -> 0 .. MaxDeliveries] /\ since \in [Ids -> 0 .. MaxDeliveries]
    /\ waiting \in [Reads -> BOOLEAN]
    /\ acked \in [Sessions -> Stamps] /\ rendered \in [Sessions -> Stamps]

(* A node starts, for the first time or again; the browser shows a listing. *)
Init ==
    /\ now = 1 /\ updated = [s \in Sessions |-> 1]
    /\ cmds = <<>> /\ rendered = updated
    /\ view = updated /\ relit = {}
    /\ deliveries = 0 /\ ring = <<>>
    /\ runs = [c \in Ids |-> 0] /\ since = [c \in Ids |-> 0]
    /\ inline = Quiet /\ task = [a \in Reads |-> Idle] /\ cache = "none" /\ seeding = NoSeed
    /\ file \in {NoFile, [Seed(1) EXCEPT !.baseline = 0]}
    /\ crashes = 0
    /\ waiting = [a \in Reads |-> FALSE]
    /\ acked = Unmarked

-----------------------------------------------------------------------------
(* The agents write, and time passes.  The clock of a restored file may run *)
(* ahead of the node's.                                                     *)

AgentAppends(s) ==
    /\ now < MaxTime
    /\ updated' = [updated EXCEPT ![s] = now + 1]
    /\ now' \in {now, now + 1}
    /\ UNCHANGED <<browserVars, deliveries, ringVars, workVars, file, crashes, waiting, acked>>

Some(S) == CHOOSE x \in S : TRUE

Asked(action, limit, s, seen) ==
    \E named \in Named :
        cmds' = Append(cmds, [action |-> action, limit |-> limit, s |-> s, seen |-> seen, named |-> named])

(* A browser asks: for a listing, for the capabilities, or to mark a        *)
(* session it shows, with the stamp it shows or without.                    *)
Issue ==
    /\ Len(cmds) < MaxCmds
    /\ \/ \E limit \in Limits, s \in DOMAIN view : \E seen \in {view[s], 0} :
            Asked("history.mark_read", limit, s, seen)
       \/ \E limit \in Limits : Asked("history.list", limit, Some(Sessions), 0)
       \/ Asked("capabilities.get", Some(Limits), Some(Sessions), 0)
    /\ UNCHANGED <<view, rendered, relit, clockVars, deliveries, ringVars, workVars, file, crashes, waiting, acked>>

-----------------------------------------------------------------------------
(* Receiving. *)

(* The receiving loop is free, and so is the event loop: annotate() holds   *)
(* it while it seeds the file.                                              *)
LoopFree == seeding = NoSeed
Receiving == LoopFree /\ inline.at = "none"

(* Fault: pop() for popleft(): the newest id goes. *)
TrimmedNewest(ids) == IF Len(ids) > MaxRing THEN SubSeq(ids, 1, MaxRing) ELSE ids

Trimmed(ids) == IF Len(ids) > MaxRing THEN Tail(ids) ELSE ids

(* _is_duplicate_command: the id is recorded before the command runs, also  *)
(* of one that then fails.  A command without one runs at every delivery.   *)
Duplicate(c) == \E i \in DOMAIN ring : ring[i] = c

Record(c) ==
    IF cmds[c].named
    THEN /\ ring' = Trimmed(Append(ring, c))
         /\ runs' = [runs EXCEPT ![c] = @ + 1]
         /\ since' = [x \in Ids |-> IF x = c \/ runs[x] = 0 THEN 0 ELSE since[x] + 1]
    ELSE UNCHANGED ringVars

(* Fault: a task that is over still counts as running. *)
TakenForGood(a) == task[a].at # "none"

(* The task of an action is not done(); a second request is left to its     *)
(* answer, which comes too early for it when it is being sent already.      *)
Busy(a) == task[a].at \notin {"none", "done"}

(* The request enters the background task of its action, or is dropped. *)
BeginRead(a, limit) ==
    /\ waiting' = [waiting EXCEPT ![a] = @ \/ task[a].at # "sending"]
    /\ task' = IF Busy(a) THEN task
               ELSE [task EXCEPT ![a] = [at |-> "working", limit |-> limit, listing |-> <<>>]]

(* _on_raw, for a command that is delivered or delivered again. *)
Deliver(c) ==
    /\ Receiving
    /\ c \in DOMAIN cmds
    /\ deliveries + crashes < MaxDeliveries
    /\ deliveries' = deliveries + 1
    /\ \/ Duplicate(c) /\ UNCHANGED <<ringVars, inline, task, waiting>>
       \/ /\ ~ Duplicate(c)
          /\ Record(c)
          /\ \/ cmds[c].action \in Reads
                /\ BeginRead(cmds[c].action, cmds[c].limit)
                /\ UNCHANGED inline
             \/ cmds[c].action = "history.mark_read"
                /\ inline' = [Quiet EXCEPT !.at = "listing", !.id = c]
                /\ UNCHANGED <<task, waiting>>
    /\ UNCHANGED <<clockVars, browserVars, cache, seeding, file, crashes, acked>>

-----------------------------------------------------------------------------
(* Listing the history. *)

(* list_sessions(limit): the newest transcripts, of equal ones any. *)
Newest(limit) ==
    {rows \in SUBSET Sessions :
        /\ \A s \in rows, t \in Sessions \ rows : updated[s] >= updated[t]
        /\ Cardinality(rows) = limit \/ (Cardinality(rows) < limit /\ rows = Sessions)}

(* In a worker thread, for the task and for history.mark_read. *)
TaskLists ==
    /\ task["history.list"].at = "working"
    /\ \E rows \in Newest(task["history.list"].limit) :
        task' = [task EXCEPT !["history.list"].at = "worked",
                             !["history.list"].listing = [s \in rows |-> updated[s]]]
    /\ UNCHANGED <<clockVars, browserVars, deliveries, ringVars, inline, cache, seeding, file, crashes, waiting, acked>>

MarkLists ==
    /\ inline.at = "listing"
    /\ \E rows \in Newest(cmds[inline.id].limit) :
        inline' = [inline EXCEPT !.at = "listed", !.listing = [s \in rows |-> updated[s]]]
    /\ UNCHANGED <<clockVars, browserVars, deliveries, ringVars, task, cache, seeding, file, crashes, waiting, acked>>

(* A read that raises is reported as an error instead, a durable event.     *)
(* The mark_read that fails so has marked nothing, and is not tried again.  *)
ReadFails ==
    /\ LoopFree
    /\ \/ \E a \in Reads :
          /\ task[a].at = "working"
          /\ task' = [task EXCEPT ![a].at = "sending", ![a].listing = <<>>]
          /\ waiting' = [waiting EXCEPT ![a] = FALSE]
          /\ UNCHANGED inline
       \/ /\ inline.at = "listing"
          /\ inline' = Answering
          /\ UNCHANGED <<task, waiting>>
    /\ UNCHANGED <<clockVars, browserVars, deliveries, ringVars, cache, seeding, file, crashes, acked>>

(* The socket takes the snapshot and it arrives at every browser.           *)
(* _emit_history: every row is annotated from the file as it was loaded, a  *)
(* row of a session that runs a turn is read, and so is every row if the    *)
(* file cannot be read.                                                     *)
Shown(listing, data) ==
    /\ view' = listing
    /\ \E running \in SUBSET DOMAIN listing :
        relit' = {s \in DOMAIN listing :
                    /\ Unread(data, s, listing[s], s \in running)
                    /\ listing[s] <= acked[s] /\ seeding = NoSeed}
    /\ rendered' = [s \in Sessions |->
                       IF s \in DOMAIN listing THEN Higher(rendered[s], listing[s]) ELSE rendered[s]]
    /\ waiting' = [waiting EXCEPT !["history.list"] = FALSE]

(* There is no socket, or the connection breaks before it is through; the   *)
(* browser asks again.                                                      *)
Dropped(by) ==
    /\ UNCHANGED <<view, relit, rendered>>
    /\ waiting' = [waiting EXCEPT !["history.list"] = @ /\ by # "task"]

Emitted(by, listing, data) == Shown(listing, data) \/ Dropped(by)

Unreadable(listing) ==
    [there |-> TRUE, baseline |-> MaxTime, marks |-> Unmarked]

(* The listings that are due for the browsers. *)
Due(by) ==
    IF by = "task" THEN task["history.list"].at = "worked" ELSE inline.at = "marked"

ListingOf(by) == IF by = "task" THEN task["history.list"].listing ELSE inline.listing

(* ws.send has the snapshot. *)
Sending(by) ==
    IF by = "task"
    THEN task' = [task EXCEPT !["history.list"].at = "sending", !["history.list"].listing = <<>>] /\ UNCHANGED inline
    ELSE inline' = Answering /\ UNCHANGED task

(* annotate() loads the file; it is on the event loop and goes on to send.  *)
(* If there is none it will write one, and holds the loop meanwhile.        *)
Annotate(by) ==
    /\ LoopFree
    /\ Due(by)
    /\ \/ /\ file.there
          /\ Emitted(by, ListingOf(by), file)
          /\ Sending(by)
          /\ UNCHANGED seeding
       \/ /\ Emitted(by, ListingOf(by), Unreadable(ListingOf(by)))
          /\ Sending(by)
          /\ UNCHANGED seeding
       \/ /\ ~ file.there
          /\ seeding' = [by |-> by, data |-> Seed(now)]
          /\ UNCHANGED <<inline, task, view, relit, rendered, waiting>>
    /\ UNCHANGED <<clockVars, cmds, deliveries, ringVars, cache, file, crashes, acked>>

(* The seed is written, over whatever is there by then; a write that fails  *)
(* is only logged.  Marks that were written meanwhile are gone.             *)
SeedWritten ==
    /\ seeding # NoSeed
    /\ \/ file' = seeding.data /\ acked' = Unmarked
       \/ UNCHANGED <<file, acked>>
    /\ Emitted(seeding.by, ListingOf(seeding.by), seeding.data)
    /\ Sending(seeding.by)
    /\ seeding' = NoSeed
    /\ UNCHANGED <<clockVars, cmds, deliveries, ringVars, cache, crashes>>

-----------------------------------------------------------------------------
(* Marking. *)

(* The stamp the payload carries, or the listing's; then the thread begins. *)
MarkBegins ==
    /\ LoopFree
    /\ inline.at = "listed"
    /\ LET c == cmds[inline.id]
           listed == IF c.s \in DOMAIN inline.listing THEN inline.listing[c.s] ELSE 0
       IN  /\ inline' = [inline EXCEPT !.at = "reading", !.seen = IF c.seen # 0 THEN c.seen ELSE listed]
           /\ rendered' = IF c.seen # 0 THEN rendered
                          ELSE [rendered EXCEPT ![c.s] = Higher(@, IF listed # 0 THEN listed ELSE MaxTime)]
    /\ UNCHANGED <<clockVars, view, relit, cmds, deliveries, ringVars, task, cache, seeding, file, crashes, waiting, acked>>

(* mark() loads the file, and seeds it if it is missing ... *)
MarkReads ==
    /\ inline.at = "reading"
    /\ inline' = [inline EXCEPT !.at = "writing", !.data = LoadOrSeed(file, now)]
    /\ \/ file' = LoadOrSeed(file, now)
       \/ UNCHANGED file
    /\ UNCHANGED <<clockVars, browserVars, deliveries, ringVars, task, cache, seeding, crashes, waiting, acked>>

(* ... and writes it with the mark.  A mark that was evicted, and one that  *)
(* a seed replaced, is no mark any more.                                    *)
MarkWrites ==
    /\ inline.at = "writing"
    /\ \E f \in Marked(inline.data, cmds[inline.id].s, inline.seen, now) :
        /\ file' = f
        /\ acked' = [s \in Sessions |->
                        IF f.marks[s] = 0 THEN 0
                        ELSE IF s = cmds[inline.id].s THEN Higher(acked[s], Stamp(inline.seen, now))
                        ELSE acked[s]]
    /\ inline' = [inline EXCEPT !.at = "marked", !.data = NoFile, !.seen = 0]
    /\ UNCHANGED <<clockVars, browserVars, deliveries, ringVars, task, cache, seeding, crashes, waiting>>

(* An id that is no key, a file that cannot be read or written: logged only. *)
MarkFails ==
    /\ inline.at \in {"reading", "writing"}
    /\ inline' = [inline EXCEPT !.at = "marked", !.data = NoFile, !.seen = 0]
    /\ UNCHANGED <<clockVars, browserVars, deliveries, ringVars, task, cache, seeding, file, crashes, waiting, acked>>

-----------------------------------------------------------------------------
(* Capabilities: the slash commands are probed once.  A probe that fails    *)
(* leaves an empty catalog, which is kept like a full one.                  *)
Probed ==
    /\ task["capabilities.get"].at = "working"
    /\ task' = [task EXCEPT !["capabilities.get"].at = "worked"]
    /\ cache' \in IF cache = "none" THEN {"empty", "full"} ELSE {cache}
    /\ UNCHANGED <<clockVars, browserVars, deliveries, ringVars, inline, seeding, file, crashes, waiting, acked>>

(* Sent, or dropped with the connection. *)
CapabilitiesSent ==
    /\ LoopFree
    /\ task["capabilities.get"].at = "worked"
    /\ task' = [task EXCEPT !["capabilities.get"].at = "sending"]
    /\ waiting' = [waiting EXCEPT !["capabilities.get"] = FALSE]
    /\ UNCHANGED <<clockVars, browserVars, deliveries, ringVars, inline, cache, seeding, file, crashes, acked>>

(* ws.send returns: at once, when its buffer has room again, or when the    *)
(* connection is found dead.  Only then is the task done().                 *)
TaskSent(a) ==
    /\ LoopFree
    /\ task[a].at = "sending"
    /\ task' = [task EXCEPT ![a].at = "done"]
    /\ UNCHANGED <<clockVars, browserVars, deliveries, ringVars, inline, cache, seeding, file, crashes, waiting, acked>>

MarkSent ==
    /\ LoopFree
    /\ inline.at = "sending"
    /\ inline' = Quiet
    /\ UNCHANGED <<clockVars, browserVars, deliveries, ringVars, task, cache, seeding, file, crashes, waiting, acked>>

-----------------------------------------------------------------------------
(* The process ends, by aclose() or a crash, and tasks and threads with it; *)
(* it is started again.  A file is replaced in one step, so it holds all of *)
(* a write or none.                                                         *)
Restarts ==
    /\ crashes < MaxCrashes
    /\ crashes' = crashes + 1
    /\ ring' = <<>> /\ runs' = [c \in Ids |-> 0] /\ since' = [c \in Ids |-> 0]
    /\ inline' = Quiet /\ task' = [a \in Reads |-> Idle] /\ cache' = "none" /\ seeding' = NoSeed
    /\ waiting' = [a \in Reads |-> FALSE]
    /\ UNCHANGED <<clockVars, browserVars, deliveries, file, acked>>

Work ==
    \/ TaskLists \/ MarkLists \/ ReadFails \/ MarkBegins \/ MarkReads \/ MarkWrites \/ MarkFails
    \/ SeedWritten \/ Probed \/ CapabilitiesSent \/ MarkSent
    \/ \E a \in Reads : TaskSent(a)
    \/ \E by \in {"task", "inline"} : Annotate(by)

Next ==
    \/ \E s \in Sessions : AgentAppends(s)
    \/ Issue
    \/ \E c \in Ids : Deliver(c)
    \/ Work
    \/ Restarts

Spec == Init /\ [][Next]_vars

-----------------------------------------------------------------------------
(* A command with an id that is delivered again runs again only after as    *)
(* many other commands as the ring remembers, whether it failed or not      *)
(* (_is_duplicate_command).                                                 *)
RunsOnce ==
    [][\A c \in Ids : runs'[c] > runs[c] /\ runs[c] > 0 => since[c] >= MaxRing]_vars

(* What a user has marked as read is not shown as unread again, on any      *)
(* device and across a restart, before there is output newer than the mark; *)
(* unless the mark was evicted, or meets an annotate() that found no file,  *)
(* whose seed may replace it (reads.mark, reads.annotate).                  *)
ReadStaysRead == relit = {}

(* A mark covers no output newer than what a listing showed of the session, *)
(* or than the listing that was made for a mark without a stamp: output     *)
(* that arrives between the render and the mark stays unread (reads.mark).  *)
UnseenStaysUnread ==
    \A s \in Sessions : file.marks[s] <= rendered[s]

(* A request for a listing or for the capabilities that is not answered yet *)
(* has a task that has still to answer it, with a snapshot or an error,     *)
(* also if it was left to a task already running (_read_tasks).  A snapshot *)
(* may be dropped with its connection; a request that comes when its task   *)
(* is sending already is left to nobody, and is not counted.                *)
AwaitedIsWorkedOn ==
    \A a \in Reads : waiting[a] => task[a].at \in {"working", "worked"}
=============================================================================
