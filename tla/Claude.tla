-------------------------------- MODULE Claude --------------------------------
(***************************************************************************)
(* The Claude provider (providers/claude.py), the repair of a transcript it *)
(* is about to resume (claude_transcript.py) and the ids it reads from one  *)
(* (history.py): connecting a client, the turn with its guard against a     *)
(* replay, and the text bubbles of the turn.                                *)
(*                                                                          *)
(* External: the CLI behind the SDK.  It loads the transcript it resumes    *)
(* when it connects, may replay what it loaded before it answers its first  *)
(* query, ends a replay with a result of its own, streams one block at a    *)
(* time, and delivers the authoritative text of a block before or after its *)
(* stop, or all of them at the end of the message.  It appends each message *)
(* to its transcript, as another CLI on the same transcript may.  It takes  *)
(* its queries in order: what a turn has left unread of an answer comes     *)
(* before the answer to the next.                                           *)
(*                                                                          *)
(* Thinking, tools and permissions pass through, and the announcement of    *)
(* the identity is in Registry.  An emit is one step with what is emitted.  *)
(***************************************************************************)
EXTENDS Naturals, Sequences, FiniteSets, SequencesExt

CONSTANTS
    MaxTurns,    \* bound: turns
    MaxClients,  \* bound: clients
    MaxMsgs,     \* bound: messages in all transcripts together
    MaxBlocks    \* bound: text blocks of a message

ASSUME ClaudeAssumption ==
    /\ MaxTurns \in Nat
    /\ MaxClients \in Nat
    /\ MaxMsgs \in Nat \ {0}
    /\ MaxBlocks \in Nat

VARIABLES
    files,     \* the transcripts on disk, by session id
    nextId,    \* the number of the next session of the CLI
    msgs,      \* the number of messages ever written
    \* The client.
    live,      \* the clients whose CLI runs
    client,    \* _client, 0 for None
    clients,   \* the number of clients ever made
    connected, \* _connected
    sdkSid,    \* _sdk_session_id
    cutOff,    \* history: clients whose connect() was cancelled or failed
    \* The turn.
    pc,        \* where it is
    goal,      \* what the connect is for: session to run, fork point, ids to guard against
    turns,     \* the number of turns begun
    outcome,   \* history: how the last turn ended
    gate,      \* the replay guard: _gate_*
    open,      \* the streamed block that has not stopped: _open_text
    streamed,  \* _streamed_blocks: the bubbles of blocks that have stopped
    bubbles,   \* the bubbles of the turn: the block each shows, and whether all of it
    \* The CLI.
    cli,       \* the session it runs, what it loaded and has to say
    told,      \* history: the blocks of the turn whose text it has delivered
    resumed    \* history: the transcript the session was opened with

fileVars == <<files, nextId, msgs>>
clientVars == <<live, client, clients, connected, cutOff>>
textVars == <<open, streamed, bubbles, told>>
vars == <<fileVars, clientVars, sdkSid, pc, goal, turns, outcome, gate, textVars, cli, resumed>>

-----------------------------------------------------------------------------
(* A session id: the number the CLI gave it, and for a repaired copy, whose *)
(* id is a hash of its source, the messages it was made from.               *)
Sid == [n : Nat, made : Seq(Nat)]

NoSid == [n |-> 0, made |-> <<>>]

(* A transcript: its messages, and whether some have thinking that is not   *)
(* signed, or nothing else than that.                                       *)
Transcript == [msgs : Seq(Nat), unsigned : {"no", "some", "only"}]

(* The guard: _gate_active, the ids it has, and what it has seen.           *)
Gate == [on : BOOLEAN, ids : SUBSET Nat, stream : BOOLEAN, replay : BOOLEAN,
         genuine : BOOLEAN, swallowed : BOOLEAN]

NoGate == [on |-> FALSE, ids |-> {}, stream |-> FALSE, replay |-> FALSE,
           genuine |-> FALSE, swallowed |-> FALSE]

(* The CLI: loaded may be replayed; todo is what comes before its answer,   *)
(* with the result of a replay if owed, and of behind earlier answers; the  *)
(* message it writes, with its blocks; done after its answer's result.      *)
Cli == [sid : Sid, loaded : Seq(Nat), todo : Seq(Nat), owed : BOOLEAN, behind : Nat, msg : Nat,
        blocks : Seq([stopped : BOOLEAN, told : BOOLEAN]), done : BOOLEAN]

Fresh == [sid |-> NoSid, loaded |-> <<>>, todo |-> <<>>, owed |-> FALSE, behind |-> 0,
          msg |-> 0, blocks |-> <<>>, done |-> TRUE]

NoGoal == [sid |-> NoSid, keep |-> 0, guard |-> NoSid]

TypeOK ==
    /\ DOMAIN files \subseteq Sid /\ \A s \in DOMAIN files : files[s] \in Transcript
    /\ <<nextId, msgs, client, clients, turns>> \in Nat \X Nat \X Nat \X Nat \X Nat
    /\ live \cup cutOff \subseteq 1 .. clients
    /\ connected \in BOOLEAN
    /\ sdkSid \in Sid
    /\ pc \in {"fresh", "idle", "connecting", "receiving", "cancelled"}
    /\ goal \in [sid : Sid, keep : Nat, guard : Sid]
    /\ outcome \in {"none", "result", "failed"}
    /\ gate \in Gate
    /\ open \in [bubble : Nat, committed : BOOLEAN]
    /\ streamed \in Seq(Nat)
    /\ bubbles \in Seq([of : Nat \X Nat, full : BOOLEAN])
    /\ cli \in Cli

NoBlock == [bubble |-> 0, committed |-> FALSE]

Init ==
    /\ \E u \in {"no", "some", "only"} :
        files = [s \in {[n |-> 1, made |-> <<>>]} |-> [msgs |-> <<1>>, unsigned |-> u]]
    /\ nextId = 2
    /\ msgs = 1
    /\ live = {} /\ client = 0 /\ clients = 0 /\ connected = FALSE /\ cutOff = {}
    /\ sdkSid = NoSid
    /\ pc = "fresh"
    /\ goal = NoGoal
    /\ turns = 0
    /\ outcome = "none"
    /\ gate = NoGate
    /\ open = NoBlock /\ streamed = <<>> /\ bubbles = <<>>
    /\ cli = Fresh
    /\ told = {}
    /\ resumed = NoSid

-----------------------------------------------------------------------------
(* The client. *)

(* Fault: any client is dropped as it is. *)
LiveAfterDrop == live

(* aclose(): a client that has not connected is dropped as it is.           *)
LiveAfterClose == IF connected THEN live \ {client} ELSE live

(* The id of the copy prepare_resume makes of a transcript: a hash. *)
RepairedId(s) == [n |-> s.n, made |-> files[s].msgs]

(* prepare_resume: what is resumed in place of s. *)
Resumed(s) ==
    IF s \in DOMAIN files /\ files[s].unsigned # "no" THEN RepairedId(s) ELSE s

(* The copy replaces whatever has its name, the same copy if made before.   *)
Repaired(s) ==
    IF Resumed(s) = s THEN files
    ELSE [t \in DOMAIN files \cup {Resumed(s)} |->
            IF t = Resumed(s) THEN [msgs |-> files[s].msgs, unsigned |-> "no"] ELSE files[t]]

(* _ensure_client, up to the connect(): a new client for session s, forked  *)
(* after keep messages if keep # 0.  A transcript that cannot be repaired   *)
(* raises before there is a client.                                         *)
Connecting(s, keep, guard, lives) ==
    IF s \in DOMAIN files /\ files[s].unsigned = "only"
    THEN /\ pc' = "idle"
         /\ outcome' = "failed"
         /\ live' = lives /\ client' = 0 /\ connected' = FALSE
         /\ UNCHANGED <<files, clients, goal>>
    ELSE /\ clients < MaxClients
         /\ files' = Repaired(s)
         /\ clients' = clients + 1
         /\ client' = clients + 1
         /\ live' = lives \cup {clients + 1}
         /\ connected' = FALSE
         /\ goal' = [sid |-> Resumed(s), keep |-> keep, guard |-> guard]
         /\ pc' = "connecting"
         /\ outcome' = "none"

(* start() of a new session, or of one that resumes a transcript. *)
Start ==
    /\ pc = "fresh"
    /\ turns < MaxTurns
    /\ turns' = turns + 1
    /\ \E s \in DOMAIN files \cup {NoSid} : Connecting(s, 0, s, live) /\ resumed' = s
    /\ UNCHANGED <<nextId, msgs, cutOff, sdkSid, gate, textVars, cli>>

(* send() without a client resumes what it was in; so does one that changes *)
(* the effort, after an aclose().                                           *)
SendConnects ==
    /\ pc = "idle"
    /\ turns < MaxTurns
    /\ turns' = turns + 1
    /\ Connecting(sdkSid, 0, sdkSid, LiveAfterClose)
    /\ UNCHANGED <<resumed, nextId, msgs, cutOff, sdkSid, gate, textVars, cli>>

(* edit(): after an aclose(), a fork of the transcript that keeps what is   *)
(* before the edited prompt, or an empty session.                           *)
Edit ==
    /\ pc = "idle"
    /\ turns < MaxTurns
    /\ turns' = turns + 1
    /\ \/ /\ Connecting(NoSid, 0, sdkSid, LiveAfterClose)
          /\ resumed' = NoSid
       \/ /\ sdkSid \in DOMAIN files
          /\ UNCHANGED resumed
          /\ \E keep \in 1 .. Len(files[sdkSid].msgs) :
                Connecting(sdkSid, keep, sdkSid, LiveAfterClose)
    /\ UNCHANGED <<nextId, msgs, cutOff, sdkSid, gate, textVars, cli>>

(* _is_replayed: by the id of the line, or by that of the message.          *)
IsReplayed(m, uuid, id) == (uuid \/ id) /\ m \in gate.ids

MessagesOf(s) == IF s \in DOMAIN files THEN ToSet(files[s].msgs) ELSE {}

(* _arm_replay_guard: the ids the transcript has just before the query;     *)
(* _begin_stream_turn; then the query, upon which the CLI may replay what   *)
(* it loaded.  What was left unread of the answer before is still to come.  *)
Query(session, guard) ==
    /\ gate' = [NoGate EXCEPT !.on = MessagesOf(guard) # {}, !.ids = MessagesOf(guard)]
    /\ open' = NoBlock
    /\ streamed' = <<>>
    /\ bubbles' = <<>>
    /\ told' = {}
    /\ \E replays \in BOOLEAN :
        cli' = [session EXCEPT !.loaded = <<>>,
                               !.todo = IF replays /\ @ = <<>> THEN session.loaded ELSE @,
                               !.owed = @ \/ (replays /\ session.loaded # <<>>),
                               !.behind = IF session.done THEN @ ELSE @ + 1,
                               !.msg = IF session.todo = <<>> THEN 0 ELSE @,
                               !.blocks = <<>>, !.done = FALSE]
    /\ pc' = "receiving"

(* A slash command the CLI cannot run is answered without a query.          *)
SlashAnswered(session) ==
    /\ cli' = session
    /\ pc' = "idle"
    /\ outcome' = "none"
    /\ UNCHANGED <<gate, textVars>>

(* connect() returns: the CLI has loaded its transcript, or has made a new  *)
(* one, a fork among them.                                                  *)
Connected ==
    /\ pc = "connecting"
    /\ client \in live
    /\ connected' = TRUE
    /\ LET s == goal.sid
           new == [n |-> nextId, made |-> <<>>]
           kept == IF goal.keep # 0 THEN SubSeq(files[s].msgs, 1, goal.keep) ELSE <<>>
           isNew == s = NoSid \/ goal.keep # 0
           session == [Fresh EXCEPT !.sid = IF isNew THEN new ELSE s,
                                    !.loaded = IF isNew THEN kept ELSE files[s].msgs]
           after == IF isNew
                    THEN [t \in DOMAIN files \cup {new} |->
                            IF t = new THEN [msgs |-> kept, unsigned |-> "no"] ELSE files[t]]
                    ELSE files
       IN  /\ files' = after
           /\ nextId' = IF isNew THEN nextId + 1 ELSE nextId
           /\ \/ Query(session, IF goal.guard = NoSid THEN sdkSid ELSE goal.guard) /\ UNCHANGED outcome
              \/ SlashAnswered(session)
    /\ UNCHANGED <<msgs, live, client, clients, cutOff, sdkSid, goal, turns, resumed>>

(* It raises, or is cancelled by a close: its CLI may be left running.      *)
ConnectEnds ==
    /\ pc = "connecting"
    /\ pc' \in {"idle", "cancelled"}
    /\ live' \in {live, live \ {client}}
    /\ cutOff' = cutOff \cup {client}
    /\ outcome' = "failed"
    /\ UNCHANGED <<fileVars, client, clients, connected, sdkSid, goal, turns, gate, textVars, cli, resumed>>

(* send() with a client: a query, or the answer to a slash command; a dead  *)
(* CLI raises, and the provider is reset.                                   *)
Send ==
    /\ pc = "idle"
    /\ connected
    /\ turns < MaxTurns
    /\ turns' = turns + 1
    /\ \/ /\ client \in live
          /\ Query(cli, sdkSid)
          /\ outcome' = "none"
          /\ UNCHANGED <<client, connected>>
       \/ /\ SlashAnswered(cli)
          /\ UNCHANGED <<client, connected>>
       \/ /\ client \notin live
          /\ outcome' = "failed"
          /\ client' = 0 /\ connected' = FALSE
          /\ UNCHANGED <<pc, gate, textVars, cli>>
    /\ UNCHANGED <<fileVars, live, clients, cutOff, sdkSid, goal, resumed>>

(* The CLI dies in a turn.  The SDK raises and the provider is reset; or    *)
(* its output ends as if all were well, and the turn with it.               *)
CliDies ==
    /\ pc = "receiving"
    /\ client \in live
    /\ live' = live \ {client}
    /\ pc' = "idle"
    /\ outcome' = "failed"
    /\ \/ client' = 0 /\ connected' = FALSE
       \/ UNCHANGED <<client, connected>>
    /\ UNCHANGED <<fileVars, clients, cutOff, sdkSid, goal, turns, gate, textVars, cli, resumed>>

(* Session.close() cancels a turn, ... *)
Cancel ==
    /\ pc = "receiving"
    /\ pc' = "cancelled"
    /\ outcome' = "failed"
    /\ UNCHANGED <<fileVars, clientVars, sdkSid, goal, turns, gate, textVars, cli, resumed>>

(* ... closes the provider, and the next session has one of its own.        *)
Close ==
    /\ pc \in {"idle", "cancelled"}
    /\ live' = LiveAfterClose
    /\ client' = 0
    /\ connected' = FALSE
    /\ sdkSid' = NoSid
    /\ pc' = "fresh"
    /\ UNCHANGED <<fileVars, clients, cutOff, goal, turns, outcome, gate, textVars, cli, resumed>>

-----------------------------------------------------------------------------
(* Text. *)

(* A block starts to stream: a bubble, unless it is part of a replay.       *)
StreamStarts(m, b) ==
    IF gate.stream
    THEN UNCHANGED <<gate, bubbles, open>>
    ELSE /\ gate' = [gate EXCEPT !.genuine = TRUE]
         /\ bubbles' = Append(bubbles, [of |-> <<m, b>>, full |-> FALSE])
         /\ open' = [bubble |-> Len(bubbles) + 1, committed |-> FALSE]

(* A delta: text for the open block, unless it was committed. *)
Delta ==
    bubbles' = IF open.bubble # 0 /\ ~ open.committed
               THEN [bubbles EXCEPT ![open.bubble].full = TRUE]
               ELSE bubbles

(* Fault: a block that was committed is kept for a delivery to come. *)
StopsCommitted ==
    /\ open' = NoBlock
    /\ streamed' = IF open.bubble # 0 THEN Append(streamed, open.bubble) ELSE streamed

(* It stops: unless committed, it is kept for the delivery of its text.     *)
Stops ==
    /\ open' = NoBlock
    /\ streamed' = IF open.bubble # 0 /\ ~ open.committed
                   THEN Append(streamed, open.bubble)
                   ELSE streamed

(* _handle_block: a delivered text goes to the bubble that is open, else to *)
(* the first that has stopped, else to a new one.                           *)
Delivered(m, b) ==
    LET full == [of |-> <<m, b>>, full |-> TRUE]
    IN  \/ /\ open.bubble # 0 /\ ~ open.committed
           /\ bubbles' = [bubbles EXCEPT ![open.bubble] = full]
           /\ open' = [open EXCEPT !.committed = TRUE]
           /\ UNCHANGED streamed
        \/ /\ open.bubble = 0 \/ open.committed
           /\ streamed # <<>>
           /\ bubbles' = [bubbles EXCEPT ![Head(streamed)] = full]
           /\ streamed' = Tail(streamed)
           /\ UNCHANGED open
        \/ /\ open.bubble = 0 \/ open.committed
           /\ streamed = <<>>
           /\ bubbles' = Append(bubbles, full)
           /\ UNCHANGED <<open, streamed>>

-----------------------------------------------------------------------------
(* The turn receives. *)

Receiving == pc = "receiving" /\ client \in live

Kept == UNCHANGED <<clientVars, goal, turns, resumed>>

(* message_start of a message before the answer: what streams after it is   *)
(* dropped if the guard knows its id.                                       *)
ReplayStreams ==
    /\ Receiving
    /\ cli.todo # <<>>
    /\ LET known == gate.on /\ Head(cli.todo) \in gate.ids
       IN  /\ gate' = [gate EXCEPT !.stream = known, !.replay = @ \/ known]
           /\ streamed' = IF known THEN streamed ELSE <<>>
    /\ cli' = [cli EXCEPT !.msg = Head(cli.todo)]
    /\ UNCHANGED <<fileVars, sdkSid, pc, outcome, open, bubbles, told>>
    /\ Kept

(* A block of it; its message_start may have been read by the turn before.  *)
ReplayBlock ==
    /\ Receiving
    /\ cli.todo # <<>>
    /\ cli.msg = Head(cli.todo)
    /\ open.bubble = 0
    /\ StreamStarts(Head(cli.todo), 1)
    /\ UNCHANGED <<fileVars, sdkSid, pc, outcome, streamed, cli, told>>
    /\ Kept

(* The transcript of the CLI with message m. *)
Written(m) ==
    IF m \in MessagesOf(cli.sid) THEN files ELSE [files EXCEPT ![cli.sid].msgs = Append(@, m)]

(* The whole of it, under one of its ids at least; a block of it that was   *)
(* streamed has stopped by then if it is dropped.                           *)
ReplayMessage ==
    /\ Receiving
    /\ cli.todo # <<>>
    /\ cli' = [cli EXCEPT !.todo = Tail(@)]
    /\ \E uuid, id \in BOOLEAN :
        /\ uuid \/ id
        /\ IF gate.on /\ IsReplayed(Head(cli.todo), uuid, id)
           THEN gate' = [gate EXCEPT !.replay = TRUE] /\ Stops /\ UNCHANGED <<sdkSid, bubbles>>
           ELSE /\ gate' = [gate EXCEPT !.genuine = TRUE]
                /\ sdkSid' = cli.sid
                /\ Delivered(Head(cli.todo), 1)
    /\ files' = Written(Head(cli.todo))
    /\ UNCHANGED <<nextId, msgs, pc, outcome, told>>
    /\ Kept

(* Fault: swallowed more than once. *)
ResultSwallowed ==
    IF gate.on /\ gate.replay /\ ~ gate.genuine
    THEN /\ gate' = [gate EXCEPT !.swallowed = TRUE]
         /\ UNCHANGED <<pc, outcome, sdkSid, open>>
    ELSE /\ pc' = "idle"
         /\ outcome' = "result"
         /\ sdkSid' = cli.sid
         /\ open' = NoBlock
         /\ UNCHANGED gate

(* A result: the one that ends a replay is swallowed, once, if nothing but  *)
(* a replay was seen; any other ends the turn.  What is open is committed.  *)
Result ==
    IF gate.on /\ gate.replay /\ ~ gate.genuine /\ ~ gate.swallowed
    THEN /\ gate' = [gate EXCEPT !.swallowed = TRUE]
         /\ UNCHANGED <<pc, outcome, sdkSid, open>>
    ELSE /\ pc' = "idle"
         /\ outcome' = "result"
         /\ sdkSid' = cli.sid
         /\ open' = NoBlock
         /\ UNCHANGED gate

(* Results come before that of the CLI's answer. *)
Behind == cli.owed \/ cli.behind # 0

PastResult == IF cli.owed THEN [cli EXCEPT !.owed = FALSE, !.msg = 0]
              ELSE [cli EXCEPT !.behind = @ - 1, !.msg = 0]

(* A result that comes before that of the answer; the last of them comes    *)
(* after all messages, the others anywhere between them.                    *)
ReplayEnds ==
    /\ Receiving
    /\ Behind
    /\ cli' = PastResult
    /\ cli.todo # <<>> => cli'.owed \/ cli'.behind # 0
    /\ Result
    /\ UNCHANGED <<fileVars, streamed, bubbles, told>>
    /\ Kept

Answering == Receiving /\ ~ Behind /\ ~ cli.done

AllStopped == \A b \in DOMAIN cli.blocks : cli.blocks[b].stopped

AllTold == \A b \in DOMAIN cli.blocks : cli.blocks[b].told

(* A message of the answer: message_start. *)
MessageStarts ==
    /\ Answering
    /\ AllStopped /\ AllTold
    /\ msgs < MaxMsgs
    /\ msgs' = msgs + 1
    /\ cli' = [cli EXCEPT !.msg = msgs + 1, !.blocks = <<>>]
    /\ gate' = [gate EXCEPT !.stream = FALSE]
    /\ streamed' = <<>>
    /\ sdkSid' = IF gate.on THEN sdkSid ELSE cli.sid
    /\ UNCHANGED <<files, nextId, pc, outcome, open, bubbles, told>>
    /\ Kept

BlockStarts ==
    /\ Answering
    /\ cli.msg # 0
    /\ Len(cli.blocks) < MaxBlocks
    /\ AllStopped
    /\ AllTold \/ \A b \in DOMAIN cli.blocks : ~ cli.blocks[b].told
    /\ cli' = [cli EXCEPT !.blocks = Append(@, [stopped |-> FALSE, told |-> FALSE])]
    /\ StreamStarts(cli.msg, Len(cli.blocks) + 1)
    /\ UNCHANGED <<fileVars, sdkSid, pc, outcome, streamed, told>>
    /\ Kept

BlockGrows ==
    /\ Answering
    /\ ~ AllStopped
    /\ Delta
    /\ UNCHANGED <<fileVars, sdkSid, pc, outcome, gate, open, streamed, cli, told>>
    /\ Kept

BlockStops ==
    /\ Answering
    /\ ~ AllStopped
    /\ cli' = [cli EXCEPT !.blocks[Len(cli.blocks)].stopped = TRUE]
    /\ Stops
    /\ UNCHANGED <<fileVars, sdkSid, pc, outcome, gate, bubbles, told>>
    /\ Kept

(* The text of a block is delivered, and written to the transcript: of the  *)
(* last block, as soon as it has started; of all, in order, at the end; or  *)
(* of one that was not streamed at all.                                     *)
TextDelivered ==
    /\ Answering
    /\ cli.msg # 0
    /\ \E b \in 1 .. Len(cli.blocks) + 1 :
        /\ b <= MaxBlocks
        /\ \A c \in 1 .. b - 1 : cli.blocks[c].told
        /\ \/ /\ b <= Len(cli.blocks)
              /\ ~ cli.blocks[b].told
              /\ b = Len(cli.blocks) \/ AllStopped
              /\ cli' = [cli EXCEPT !.blocks[b].told = TRUE]
           \/ /\ b = Len(cli.blocks) + 1
              /\ AllStopped
              /\ cli' = [cli EXCEPT !.blocks = Append(@, [stopped |-> TRUE, told |-> TRUE])]
        /\ Delivered(cli.msg, b)
        /\ told' = told \cup {<<cli.msg, b>>}
    /\ files' = Written(cli.msg)
    /\ gate' = [gate EXCEPT !.genuine = TRUE]
    /\ sdkSid' = cli.sid
    /\ UNCHANGED <<nextId, msgs, pc, outcome>>
    /\ Kept

(* The result of the turn, which an interrupt may bring about at any time.  *)
TurnEnds ==
    /\ Answering
    /\ cli' = [cli EXCEPT !.done = TRUE]
    /\ Result
    /\ UNCHANGED <<fileVars, streamed, bubbles, told>>
    /\ Kept

(* Reading a message raises what does not end the client (provider_error):  *)
(* the message may be lost, or the result; the rest of the answer is left   *)
(* unread, more of the message at hand among it.                            *)
Raises ==
    /\ Receiving
    /\ pc' = "idle"
    /\ outcome' = "failed"
    /\ \/ Behind /\ cli' \in {cli, PastResult}
       \/ cli.todo # <<>> /\ cli' = [cli EXCEPT !.todo = Tail(@)]
       \/ Answering /\ cli' \in {[cli EXCEPT !.blocks = <<>>], [cli EXCEPT !.done = TRUE]}
       \/ Answering /\ cli.msg # 0 /\ cli' = [cli EXCEPT !.blocks = <<>>, !.todo = <<cli.msg>>]
    /\ UNCHANGED <<fileVars, sdkSid, gate, textVars>>
    /\ Kept

(* External: the CLI goes on with an answer that was left unread.           *)
WritesOn ==
    /\ client \in live
    /\ \/ pc = "idle" /\ ~ cli.done
       \/ pc \in {"idle", "receiving"} /\ cli.behind # 0
    /\ msgs < MaxMsgs
    /\ msgs' = msgs + 1
    /\ cli' = [cli EXCEPT !.todo = Append(@, msgs + 1)]
    /\ files' = [files EXCEPT ![cli.sid].msgs = Append(@, msgs + 1)]
    /\ UNCHANGED <<nextId, sdkSid, pc, outcome, gate, textVars>>
    /\ Kept

(* External: another CLI appends to a transcript, no repaired copy, perhaps *)
(* a message with unsigned thinking.                                        *)
OtherAppends(s) ==
    /\ s.made = <<>>
    /\ msgs < MaxMsgs
    /\ msgs' = msgs + 1
    /\ \E u \in {"no", "some"} :
        files' = [files EXCEPT ![s].msgs = Append(@, msgs + 1),
                               ![s].unsigned = IF @ = "no" THEN u ELSE @]
    /\ UNCHANGED <<nextId, clientVars, sdkSid, pc, goal, turns, outcome, gate, textVars, cli,
                   resumed>>

-----------------------------------------------------------------------------
Next ==
    \/ Start \/ SendConnects \/ Edit
    \/ Connected \/ ConnectEnds
    \/ Send \/ CliDies \/ Cancel \/ Close
    \/ ReplayStreams \/ ReplayBlock \/ ReplayMessage \/ ReplayEnds
    \/ Raises \/ WritesOn
    \/ MessageStarts \/ BlockStarts \/ BlockGrows \/ BlockStops \/ TextDelivered \/ TurnEnds
    \/ \E s \in DOMAIN files : OtherAppends(s)

Spec == Init /\ [][Next]_vars

-----------------------------------------------------------------------------
(* Properties. *)

(* While a turn receives, the result of its own answer is still to come:    *)
(* the guard has not taken it for a replay's, and the turn does not wait    *)
(* for a result it has dropped.                                             *)
ResultToCome == (pc = "receiving" /\ client \in live) => ~ cli.done

(* Nothing that comes before the CLI's answer to the turn is shown as its   *)
(* output.                                                                  *)
ReplayHidden == (pc = "receiving" /\ Behind) => bubbles = <<>>

(* At the result of a turn every block that was delivered is shown, whole,  *)
(* in one bubble and no other; and no other block has more than one.        *)
TextShownOnce ==
    (outcome = "result" /\ pc = "idle") =>
        /\ \A x \in told : \E i \in DOMAIN bubbles : bubbles[i] = [of |-> x, full |-> TRUE]
        /\ \A i, j \in DOMAIN bubbles : bubbles[i].of = bubbles[j].of => i = j

(* Every CLI that runs is the current client's, but for those whose         *)
(* connect() was cut short, which aclose() does not disconnect.             *)
NoStrayCli == \A c \in live : c = client \/ c \in cutOff

(* A session that was opened with a transcript goes on in it: a client that *)
(* send() brings up never starts from nothing.                              *)
ContextKept == (pc = "connecting" /\ resumed # NoSid) => goal.sid # NoSid

(* No step of the node takes a message from a transcript.                   *)
TranscriptsGrow ==
    [][\A s \in DOMAIN files : s \in DOMAIN files' /\ IsPrefix(files[s].msgs, files'[s].msgs)]_vars
=============================================================================
