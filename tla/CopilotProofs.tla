---------------------------- MODULE CopilotProofs ----------------------------
(***************************************************************************)
(* Proofs about Copilot for every set of permission requests, any number   *)
(* of turns, agents and text blocks.                                       *)
(*                                                                         *)
(* The reader and the provider change agents together, and only when no    *)
(* permission task is left: so a task answers the agent that asked, and an *)
(* agent is given up only once it was told to terminate.                   *)
(***************************************************************************)
EXTENDS Copilot, SequenceTheorems, TLAPS

USE CopilotAssumption

Kinds == {"allow", "reject", "other", "cancelled"}

Closing == {"closeRequest", "closeReader", "closeWait"}

(* An aclose() knows what follows it. *)
CloseHasNext == pc \in Closing => next # "none"

(* The reader reads the current agent's output, or what it has left.        *)
ReaderIsProcs == reader.proc = proc /\ (reader.on => proc # 0)

(* Between two agents there is none. *)
BetweenAgents == pc \in {"spawning", "closeWait"} => proc = 0

(* Whoever still runs is the current agent, or was told to terminate.       *)
OthersAreTold == \A p \in DOMAIN procs : (procs[p].alive /\ ~ procs[p].told) => p = proc

(* After Session.close() the provider rests. *)
ClosedRests == closing = "closed" => pc = "idle" /\ proc = 0

(* A permission task is at work for the current agent alone.                *)
AskedByCurrent ==
    \A a \in Asks : aux[a].state = "asking" =>
        /\ proc # 0 /\ aux[a].proc = proc
        /\ aux[a].answered = 0
        /\ pc # "closeReader"

Rest ==
    /\ CloseHasNext
    /\ ReaderIsProcs
    /\ BetweenAgents
    /\ OthersAreTold
    /\ ClosedRests
    /\ AskedByCurrent
    /\ VerdictHonoured

IInv == TypeOK /\ Rest

-----------------------------------------------------------------------------
(* The operators. *)

(* _select_option: what is chosen has a kind, and that of a deny refuses,   *)
(* whatever names the options have.                                         *)
LEMMA Selected ==
    ASSUME NEW options \in Options, NEW allow \in BOOLEAN
    PROVE  /\ Select(options, allow) \in Kinds
           /\ ~ allow => Select(options, allow) \in {"reject", "cancelled"}
<1>1. PICK n \in 0 .. 2 : options \in [1 .. n -> Option]
  BY DEF Options
<1> DEFINE fits == {i \in DOMAIN options : options[i].kind = IF allow THEN "allow" ELSE "reject"}
           named == {i \in DOMAIN options : options[i].keyword}
           best == IF fits # {} \/ ~ allow THEN fits
                   ELSE IF named # {} THEN named ELSE DOMAIN options
           least == CHOOSE i \in best : \A j \in best : i <= j
<1>2. DOMAIN options = 1 .. n
  BY <1>1
<1>3. fits \subseteq 1 .. n /\ named \subseteq 1 .. n
  BY <1>2
<1>4. best \subseteq 1 .. n
  BY <1>2, <1>3
<1>5. Select(options, allow) = IF best = {} THEN "cancelled" ELSE options[least].kind
  BY DEF Select
<1> HIDE DEF best
<1>6. CASE best = {}
  BY <1>5, <1>6 DEF Kinds
<1>7. CASE best # {}
  <2>1. best \subseteq {1, 2}
    BY <1>4
  <2>2. \E i \in best : \A j \in best : i <= j
    <3>1. CASE 1 \in best
      BY <2>1, <3>1
    <3>2. CASE 1 \notin best
      <4>1. best = {2}
        BY <2>1, <3>2, <1>7
      <4> QED BY <4>1
    <3> QED BY <3>1, <3>2
  <2>3. least \in best
    BY <2>2
  <2>4. options[least] \in Option
    BY <1>1, <1>4, <2>3
  <2>5. options[least].kind \in Kinds
    BY <2>4 DEF Option, Kinds
  <2>6. ~ allow => best = fits
    BY DEF best
  <2>7. ~ allow => options[least].kind = "reject"
    BY <2>3, <2>6
  <2> QED BY <1>5, <1>7, <2>5, <2>7
<1> QED BY <1>6, <1>7

(* _fail_pending and the cancel of a future keep the requests.              *)
LEMMA CallsTyped ==
    ASSUME calls \in Seq(Call)
    PROVE  FailPending \in Seq(Call) /\ Abandoned \in Seq(Call)
<1>1. \A c \in Call : [c EXCEPT !.pending = FALSE,
                                !.future = IF c.pending /\ @ = "waiting" THEN "failed" ELSE @] \in Call
  BY DEF Call
<1>2. \A c \in Call : [c EXCEPT !.future = IF @ = "waiting" THEN "cancelled" ELSE @] \in Call
  BY DEF Call
<1>3. FailPending \in Seq(Call)
  <2>1. \A i \in 1 .. Len(calls) : calls[i] \in Call
    OBVIOUS
  <2> DEFINE F(i) == [calls[i] EXCEPT
                        !.pending = FALSE,
                        !.future = IF calls[i].pending /\ @ = "waiting" THEN "failed" ELSE @]
  <2>2. \A i \in 1 .. Len(calls) : F(i) \in Call
    BY <1>1, <2>1
  <2>3. FailPending = [i \in 1 .. Len(calls) |-> F(i)]
    BY DEF FailPending
  <2> HIDE DEF F
  <2>4. [i \in 1 .. Len(calls) |-> F(i)] \in [1 .. Len(calls) -> Call]
    BY <2>2
  <2>5. Len(calls) \in Nat
    OBVIOUS
  <2> QED BY <2>3, <2>4, <2>5, SeqDef
<1>4. Abandoned \in Seq(Call)
  <2> DEFINE n == Len(calls)
             c == [calls[n] EXCEPT !.future = IF @ = "waiting" THEN "cancelled" ELSE @]
  <2>1. Abandoned = [calls EXCEPT ![n] = c]
    BY DEF Abandoned, Current
  <2>2. \A i \in 1 .. Len(calls) : i = n => c \in Call
    BY <1>2
  <2>3. \A i \in 1 .. Len(calls) : calls[i] \in Call
    OBVIOUS
  <2> HIDE DEF c, n
  <2>4. Abandoned = [i \in 1 .. Len(calls) |-> IF i = n THEN c ELSE calls[i]]
    <3>1. [calls EXCEPT ![n] = c] = [i \in DOMAIN calls |-> IF i = n THEN c ELSE calls[i]]
      BY Zenon
    <3>2. DOMAIN calls = 1 .. Len(calls)
      OBVIOUS
    <3> QED BY <2>1, <3>1, <3>2, Zenon
  <2>5. [i \in 1 .. Len(calls) |-> IF i = n THEN c ELSE calls[i]] \in [1 .. Len(calls) -> Call]
    BY <2>2, <2>3
  <2>6. Len(calls) \in Nat
    OBVIOUS
  <2> QED BY <2>4, <2>5, <2>6, SeqDef
<1> QED BY <1>3, <1>4

(* A request goes to the current agent. *)
LEMMA RequestTyped ==
    ASSUME TypeOK, Request
    PROVE  calls' \in Seq(Call)
<1>1. [proc |-> proc, pending |-> TRUE, future |-> "waiting"] \in Call
  BY DEF TypeOK, Request, Writes, Alive, Call
<1> QED BY <1>1 DEF TypeOK, Request

(* The tear-down leaves no permission task at work, and changes no answer.  *)
LEMMA TasksCancelled ==
    ASSUME aux \in [Asks -> Aux]
    PROVE  /\ CancelAux \in [Asks -> Aux]
           /\ \A a \in Asks : /\ CancelAux[a].state # "asking"
                              /\ CancelAux[a].proc = aux[a].proc
                              /\ CancelAux[a].answered = aux[a].answered
                              /\ CancelAux[a].allow = aux[a].allow
                              /\ CancelAux[a].chosen = aux[a].chosen
BY DEF CancelAux, Aux

(* A permission task gives its answer. *)
Answered(a, allow, chosen) ==
    [aux[a] EXCEPT !.state = "over", !.allow = allow, !.chosen = chosen,
                   !.answered = IF Writes THEN proc ELSE 0]

LEMMA AnswerGiven ==
    ASSUME NEW a \in Asks, AuxAnswers(a)
    PROVE  \E allow \in BOOLEAN, chosen \in Kinds :
               /\ aux' = [aux EXCEPT ![a] = Answered(a, allow, chosen)]
               /\ ~ allow => chosen \in {"reject", "cancelled"}
<1>1. PICK allow \in BOOLEAN :
        \E chosen \in {Select(options, allow) : options \in Options} \cup {"cancelled"} :
            aux' = [aux EXCEPT ![a].state = "over", ![a].allow = allow, ![a].chosen = chosen,
                               ![a].answered = IF Writes THEN proc ELSE 0]
  BY Zenon DEF AuxAnswers
<1>2. PICK chosen \in {Select(options, allow) : options \in Options} \cup {"cancelled"} :
        aux' = [aux EXCEPT ![a].state = "over", ![a].allow = allow, ![a].chosen = chosen,
                           ![a].answered = IF Writes THEN proc ELSE 0]
  BY <1>1
<1>3. chosen \in Kinds /\ (~ allow => chosen \in {"reject", "cancelled"})
  BY Selected DEF Kinds
<1>4. aux' = [aux EXCEPT ![a] = Answered(a, allow, chosen)]
  BY <1>2, Zenon DEF Answered
<1> QED BY <1>3, <1>4

LEMMA AnsweredTyped ==
    ASSUME TypeOK, NEW a \in Asks, NEW allow \in BOOLEAN, NEW chosen \in Kinds
    PROVE  Answered(a, allow, chosen) \in Aux
<1>1. aux[a] \in Aux
  BY DEF TypeOK
<1>2. (IF Writes THEN proc ELSE 0) \in 0 .. MaxProcs
  BY DEF TypeOK
<1> QED BY <1>1, <1>2 DEF Answered, Aux, Kinds

(* A response settles a request. *)
LEMMA ResponseTyped ==
    ASSUME calls \in Seq(Call), NEW i \in DOMAIN calls, Response(i)
    PROVE  \E c \in Call : calls' = [calls EXCEPT ![i] = c]
<1>1. PICK outcome \in {"result", "error"} :
        calls' = [calls EXCEPT ![i].pending = FALSE,
                               ![i].future = IF @ = "waiting" THEN outcome ELSE @]
  BY DEF Response
<1> DEFINE c == [calls[i] EXCEPT !.pending = FALSE,
                                 !.future = IF @ = "waiting" THEN outcome ELSE @]
<1>2. calls[i] \in Call
  OBVIOUS
<1>3. c \in Call
  BY <1>2 DEF Call
<1>4. calls' = [calls EXCEPT ![i] = c]
  BY <1>1, Zenon
<1> QED BY <1>3, <1>4

(* The agent that is told to terminate is the current one.                  *)
LEMMA AgentTold ==
    ASSUME TypeOK
    PROVE  /\ Told \in Seq(Proc) /\ Len(Told) = Len(procs)
           /\ OthersAreTold => \A p \in DOMAIN Told : ~ (Told[p].alive /\ ~ Told[p].told)
<1>1. \A r \in Proc : [r EXCEPT !.told = TRUE] \in Proc /\ [r EXCEPT !.told = TRUE].told
  BY DEF Proc
<1>2. CASE Alive
  <2>1. procs \in Seq(Proc) /\ proc \in 1 .. Len(procs)
    BY <1>2 DEF TypeOK, Alive
  <2> DEFINE q == [procs[proc] EXCEPT !.told = TRUE]
  <2>2. q \in Proc /\ q.told
    <3>1. procs[proc] \in Proc
      BY <2>1
    <3> QED BY <1>1, <3>1
  <2>3. Told = [procs EXCEPT ![proc] = q]
    BY <1>2 DEF Told
  <2> HIDE DEF q
  <2>4. Told \in Seq(Proc) /\ Len(Told) = Len(procs)
    BY <2>1, <2>2, <2>3
  <2>5. \A p \in 1 .. Len(procs) : Told[p] = IF p = proc THEN q ELSE procs[p]
    BY <2>1, <2>3
  <2>6. OthersAreTold => \A p \in 1 .. Len(procs) : ~ (Told[p].alive /\ ~ Told[p].told)
    BY <2>1, <2>2, <2>5 DEF OthersAreTold
  <2> QED BY <2>4, <2>6
<1>3. CASE ~ Alive
  BY <1>3 DEF Told, TypeOK, OthersAreTold, Alive, Proc
<1> QED BY <1>2, <1>3

Afters == {"spawn", "failed", "cancelled", "idle", "closed"}

(* aclose() up to its first suspension, and the tear-down. *)
LEMMA TearDownSteps ==
    ASSUME TypeOK, NEW after \in Afters, TearDown(after)
    PROVE  /\ connected' \in BOOLEAN
           /\ aux' = CancelAux /\ aux' \in [Asks -> Aux]
           /\ pc' = "closeReader" /\ next' = after
BY TasksCancelled DEF TearDown, TypeOK

LEMMA ACloseSteps ==
    ASSUME TypeOK, NEW after \in Afters, AClose(after)
    PROVE  /\ connected' \in BOOLEAN
           /\ aux' \in [Asks -> Aux]
           /\ calls' \in Seq(Call)
           /\ next' = after
           /\ \/ pc' = "closeRequest" /\ aux' = aux
              \/ pc' = "closeReader" /\ aux' = CancelAux
<1>1. CASE Request /\ pc' = "closeRequest" /\ next' = after /\ UNCHANGED <<connected, aux>>
  BY <1>1, RequestTyped DEF TypeOK
<1>2. CASE TearDown(after) /\ UNCHANGED calls
  BY <1>2, TearDownSteps DEF TypeOK
<1> QED BY <1>1, <1>2 DEF AClose

LEMMA PromptSteps ==
    ASSUME TypeOK, Prompt
    PROVE  /\ bubbles' \in Seq({"open", "committed"})
           /\ calls' \in Seq(Call)
           /\ pc' \in {"prompt", "failed"}
BY RequestTyped DEF Prompt, TypeOK

(* What follows an aclose(): a spawn, a failure, a rest. *)
LEMMA FollowSteps ==
    ASSUME TypeOK, CloseHasNext, pc \in Closing, Follow
    PROVE  /\ pc' \in {"spawning", "failed", "cancelled", "idle"}
           /\ next' = "none"
           /\ closing' \in {closing, "closed"}
           /\ closing' # closing => pc' = "idle"
BY DEF TypeOK, CloseHasNext, Follow

LEMMA CommitTyped ==
    ASSUME bubbles \in Seq({"open", "committed"})
    PROVE  Commit \in Seq({"open", "committed"})
<1>1. CASE bubbles = <<>>
  BY <1>1 DEF Commit
<1>2. CASE bubbles # <<>>
  <2>1. Len(bubbles) \in 1 .. Len(bubbles)
    BY <1>2
  <2> QED BY <1>2, <2>1 DEF Commit
<1> QED BY <1>1, <1>2

-----------------------------------------------------------------------------
LEMMA IInvInit == Init => IInv
<1> SUFFICES ASSUME Init PROVE IInv
  OBVIOUS
<1>1. Unasked(0) \in Aux
  BY DEF Unasked, Aux
<1>2. procs \in Seq(Proc) /\ Len(procs) = 0 /\ calls \in Seq(Call) /\ bubbles \in Seq({"open", "committed"})
  BY DEF Init
<1>5. reader \in Reader /\ reader.proc = 0
  BY DEF Init, Reader
<1>6. aux \in [Asks -> Aux]
  BY <1>1 DEF Init
<1>7. TypeOK
  <2>1. proc = 0 /\ attempts = 0 /\ pc = "idle" /\ next = "none" /\ closing = "no"
    BY DEF Init
  <2>2. {connected, opened, announced, capsClose} \subseteq BOOLEAN
        /\ cancel \in BOOLEAN
    BY DEF Init
  <2> QED BY <1>2, <1>5, <1>6, <2>1, <2>2 DEF TypeOK
<1>3. CloseHasNext /\ ReaderIsProcs /\ BetweenAgents /\ OthersAreTold /\ ClosedRests
  BY DEF Init, CloseHasNext, ReaderIsProcs, BetweenAgents, OthersAreTold, ClosedRests, Closing
<1>4. AskedByCurrent /\ VerdictHonoured
  BY DEF Init, AskedByCurrent, VerdictHonoured, Unasked
<1> QED BY <1>3, <1>4, <1>7 DEF IInv, Rest

(* The types, one action at a time. *)
LEMMA TypesKept == TypeOK /\ CloseHasNext /\ [Next]_vars => TypeOK'
<1> SUFFICES ASSUME TypeOK, CloseHasNext, [Next]_vars PROVE TypeOK'
  OBVIOUS
<1> USE DEF procVars, sessionVars, callerVars, Awaiting
<1>1. CASE Turn
  <2>1. UNCHANGED <<procVars, opened, announced, capsClose, cancel, closing>>
    BY <1>1 DEF Turn
  <2>2. attempts' \in 0 .. MaxTurns
    BY <1>1 DEF Turn, TypeOK
  <2>3. CASE Prompt /\ UNCHANGED <<connected, aux, next>>
    BY <2>1, <2>2, <2>3, PromptSteps DEF TypeOK
  <2>4. CASE AClose("spawn") /\ UNCHANGED bubbles
    BY <2>1, <2>2, <2>4, ACloseSteps DEF TypeOK, Afters
  <2>5. CASE pc' = "spawning" /\ UNCHANGED <<calls, aux, bubbles, connected, next>>
    BY <2>1, <2>2, <2>5 DEF TypeOK
  <2> QED BY <1>1, <2>3, <2>4, <2>5 DEF Turn
<1>2. CASE Spawned
  <2>1. [alive |-> TRUE, told |-> FALSE] \in Proc
    BY DEF Proc
  <2>2. Len(procs) + 1 \in 1 .. MaxProcs
    BY <1>2 DEF Spawned, TypeOK
  <2>3. procs' \in Seq(Proc) /\ Len(procs') = Len(procs) + 1
    BY <1>2, <2>1 DEF Spawned, TypeOK
  <2>4. reader' \in Reader
    BY <1>2, <2>2 DEF Spawned, Reader
  <2>5. [proc |-> Len(procs) + 1, pending |-> TRUE, future |-> "waiting"] \in Call
    BY <2>2 DEF Call
  <2>6. calls' \in Seq(Call)
    BY <1>2, <2>5 DEF Spawned, TypeOK
  <2> QED BY <1>2, <2>2, <2>3, <2>4, <2>6 DEF Spawned, TypeOK
<1>3. CASE SpawnFails
  BY <1>3 DEF SpawnFails, TypeOK
<1>4. CASE Initialized
  <2>1. UNCHANGED <<procVars, opened, announced, bubbles, cancel, closing, attempts>>
    BY <1>4 DEF Initialized
  <2>2. capsClose' \in BOOLEAN
    BY <1>4 DEF Initialized
  <2>3. CASE Request /\ pc' = "open" /\ UNCHANGED <<connected, aux, next>>
    BY <2>1, <2>2, <2>3, RequestTyped DEF TypeOK
  <2>4. CASE TearDown("failed") /\ UNCHANGED calls
    BY <2>1, <2>2, <2>4, TearDownSteps DEF TypeOK, Afters
  <2> QED BY <1>4, <2>3, <2>4 DEF Initialized
<1>5. CASE SessionOpened
  <2>1. UNCHANGED <<procVars, capsClose, aux, next, cancel, closing, attempts>>
    BY <1>5 DEF SessionOpened
  <2>2. opened' = TRUE /\ announced' = TRUE
    BY <1>5 DEF SessionOpened
  <2>3. CASE pc' = "announcing" /\ UNCHANGED <<calls, bubbles, connected>>
    BY <2>1, <2>2, <2>3 DEF TypeOK
  <2>4. CASE connected' = TRUE /\ Prompt
    BY <2>1, <2>2, <2>4, PromptSteps DEF TypeOK
  <2> QED BY <1>5, <2>3, <2>4 DEF SessionOpened
<1>6. CASE Announced
  BY <1>6, PromptSteps DEF Announced, TypeOK
<1>7. CASE HandshakeFails
  <2>1. UNCHANGED <<procVars, opened, announced, capsClose, bubbles, closing, attempts>>
    BY <1>7 DEF HandshakeFails
  <2>2. cancel' = FALSE /\ calls' \in Seq(Call)
    BY <1>7, CallsTyped DEF HandshakeFails, TypeOK
  <2>3. PICK after \in Afters : TearDown(after)
    BY <1>7 DEF HandshakeFails, Afters
  <2> QED BY <2>1, <2>2, <2>3, TearDownSteps DEF TypeOK, Afters
<1>8. CASE TurnEnds
  BY <1>8, CommitTyped DEF TurnEnds, TypeOK
<1>9. CASE TurnFails
  BY <1>9, CallsTyped DEF TurnFails, TypeOK
<1>10. CASE AfterFailure
  <2>1. UNCHANGED <<procVars, opened, announced, capsClose, bubbles, closing, attempts>>
    BY <1>10 DEF AfterFailure
  <2>2. CASE AClose("idle") /\ UNCHANGED cancel
    BY <2>1, <2>2, ACloseSteps DEF TypeOK, Afters
  <2>3. CASE /\ pc' = IF cancel THEN "cancelled" ELSE "idle"
             /\ cancel' = FALSE
             /\ UNCHANGED <<calls, aux, connected, next>>
    BY <2>1, <2>3 DEF TypeOK
  <2> QED BY <1>10, <2>2, <2>3 DEF AfterFailure
<1>11. CASE CloseAnswered
  <2>1. next \in Afters
    BY <1>11 DEF CloseAnswered, TypeOK, CloseHasNext, Closing, Afters
  <2> QED BY <1>11, <2>1, TearDownSteps DEF CloseAnswered, TypeOK, Afters
<1>12. CASE CloseCancelled
  BY <1>12, CallsTyped DEF CloseCancelled, TypeOK
<1>13. CASE ReaderAwaited
  <2>1. reader' \in Reader /\ reader'.proc = 0
    BY <1>13 DEF ReaderAwaited, Reader
  <2>2. procs' \in Seq(Proc) /\ Len(procs') = Len(procs)
    BY <1>13, AgentTold DEF ReaderAwaited
  <2>3. calls' \in Seq(Call)
    BY <1>13, CallsTyped DEF ReaderAwaited, TypeOK
  <2>4. /\ proc' = 0 /\ cancel' = FALSE /\ connected' = FALSE
        /\ UNCHANGED <<opened, announced, capsClose, aux, bubbles, attempts>>
    BY <1>13 DEF ReaderAwaited, TypeOK
  <2>5. /\ pc' \in {"closeWait", "spawning", "failed", "cancelled", "idle"}
        /\ next' \in {next, "none"}
        /\ closing' \in {closing, "closed"}
    BY <1>13, FollowSteps DEF ReaderAwaited, Closing
  <2>6. proc' \in 0 .. Len(procs') /\ reader'.proc <= Len(procs') /\ Len(procs') <= MaxProcs
    BY <2>1, <2>2, <2>4 DEF TypeOK
  <2>7. {connected, opened, announced, capsClose}' \subseteq BOOLEAN
    BY <2>4 DEF TypeOK
  <2>8. UNCHANGED <<aux, bubbles, attempts>> /\ cancel' \in BOOLEAN
    BY <2>4
  <2> QED BY <2>1, <2>2, <2>3, <2>5, <2>6, <2>7, <2>8 DEF TypeOK
<1>14. CASE ProcessAwaited
  <2>1. procs' \in Seq(Proc) /\ Len(procs') = Len(procs)
    <3> DEFINE F(p) == IF procs[p].told THEN [procs[p] EXCEPT !.alive = FALSE] ELSE procs[p]
    <3>1. \A r \in Proc : [r EXCEPT !.alive = FALSE] \in Proc
      BY DEF Proc
    <3>2. \A p \in 1 .. Len(procs) : F(p) \in Proc
      BY <3>1 DEF TypeOK
    <3>3. procs' = [p \in 1 .. Len(procs) |-> F(p)]
      BY <1>14 DEF ProcessAwaited, TypeOK
    <3> HIDE DEF F
    <3>4. Len(procs) \in Nat
      BY DEF TypeOK
    <3>5. [p \in 1 .. Len(procs) |-> F(p)] \in [1 .. Len(procs) -> Proc]
      BY <3>2
    <3> QED BY <3>3, <3>4, <3>5, SeqDef
  <2>2. UNCHANGED <<proc, reader, sessionVars, aux, bubbles, cancel, attempts>>
    BY <1>14 DEF ProcessAwaited
  <2>3. /\ pc' \in {"spawning", "failed", "cancelled", "idle"}
        /\ next' = "none"
        /\ closing' \in {closing, "closed"}
    BY <1>14, FollowSteps DEF ProcessAwaited, Closing
  <2>4. proc' \in 0 .. Len(procs') /\ reader' \in Reader /\ reader'.proc <= Len(procs')
    BY <2>1, <2>2 DEF TypeOK
  <2>5. Len(procs') <= MaxProcs
    BY <2>1 DEF TypeOK
  <2>6. {connected, opened, announced, capsClose}' \subseteq BOOLEAN /\ UNCHANGED cancel
    BY <2>2 DEF TypeOK
  <2>7. UNCHANGED <<aux, bubbles, attempts>>
    BY <2>2
  <2>8. calls' \in Seq(Call)
    BY <1>14, CallsTyped DEF ProcessAwaited, TypeOK
  <2> QED BY <2>1, <2>3, <2>4, <2>5, <2>6, <2>7, <2>8 DEF TypeOK
<1>15. CASE Close
  BY <1>15 DEF Close, TypeOK
<1>16. CASE CloseProvider
  BY <1>16, ACloseSteps DEF CloseProvider, TypeOK, Afters
<1>17. ASSUME NEW p \in DOMAIN procs, AgentDies(p) PROVE TypeOK'
  <2>1. [procs[p] EXCEPT !.alive = FALSE] \in Proc
    <3>1. procs[p] \in Proc
      BY DEF TypeOK
    <3> QED BY <3>1 DEF Proc
  <2>2. procs' \in Seq(Proc) /\ Len(procs') = Len(procs)
    BY <1>17, <2>1 DEF AgentDies, TypeOK
  <2> QED BY <1>17, <2>2 DEF AgentDies, TypeOK
<1>18. ASSUME NEW i \in DOMAIN calls, Response(i) PROVE TypeOK'
  <2>1. PICK c \in Call : calls' = [calls EXCEPT ![i] = c]
    BY <1>18, ResponseTyped DEF TypeOK
  <2>2. calls' \in Seq(Call)
    BY <2>1 DEF TypeOK
  <2> QED BY <1>18, <2>2 DEF Response, TypeOK
<1>19. CASE Update
  <2>1. Commit \in Seq({"open", "committed"})
    BY CommitTyped DEF TypeOK
  <2>2. bubbles' \in Seq({"open", "committed"})
    BY <1>19, <2>1 DEF Update
  <2> QED BY <1>19, <2>2 DEF Update, TypeOK
<1>20. CASE ReaderEnds
  BY <1>20, CallsTyped DEF ReaderEnds, TypeOK, Reader
<1>21. ASSUME NEW a \in Asks, AgentAsks(a) PROVE TypeOK'
  <2>1. [Unasked(reader.proc) EXCEPT !.state = "asking"] \in Aux
    <3>1. reader.proc \in 0 .. MaxProcs
      BY DEF TypeOK, Reader
    <3>2. Unasked(reader.proc) \in Aux
      BY <3>1 DEF Unasked, Aux
    <3> QED BY <3>2 DEF Aux
  <2> QED BY <1>21, <2>1 DEF AgentAsks, TypeOK
<1>22. ASSUME NEW a \in Asks, AuxAnswers(a) PROVE TypeOK'
  <2>1. PICK allow \in BOOLEAN, chosen \in Kinds : aux' = [aux EXCEPT ![a] = Answered(a, allow, chosen)]
    BY <1>22, AnswerGiven
  <2>2. Answered(a, allow, chosen) \in Aux
    BY AnsweredTyped
  <2>3. aux' \in [Asks -> Aux]
    BY <2>1, <2>2 DEF TypeOK
  <2> QED BY <1>22, <2>3 DEF AuxAnswers, TypeOK
<1>23. CASE UNCHANGED vars
  BY <1>23 DEF vars, TypeOK
<1> QED BY <1>1, <1>2, <1>3, <1>4, <1>5, <1>6, <1>7, <1>8, <1>9, <1>10, <1>11, <1>12, <1>13,
           <1>14, <1>15, <1>16, <1>17, <1>18, <1>19, <1>20, <1>21, <1>22, <1>23
        DEF Next, CallerStep

-----------------------------------------------------------------------------
(* The steps that leave the agents alone. *)
LEMMA AgentsLeftAlone ==
    ASSUME TypeOK, Rest, UNCHANGED procVars,
           \/ aux' = aux /\ (pc' = "closeReader" => pc = "closeReader")
           \/ aux' = CancelAux,
           pc' \in {"spawning", "closeWait"} => proc = 0,
           closing' = "closed" => pc' = "idle" /\ proc = 0,
           pc' \in Closing => next' # "none"
    PROVE  Rest'
<1>1. UNCHANGED <<procs, proc, reader>>
  BY DEF procVars
<1>2. CloseHasNext' /\ ReaderIsProcs' /\ BetweenAgents' /\ OthersAreTold' /\ ClosedRests'
  BY <1>1 DEF Rest, CloseHasNext, ReaderIsProcs, BetweenAgents, OthersAreTold, ClosedRests, Closing
<1>3. CASE aux' = aux /\ (pc' = "closeReader" => pc = "closeReader")
  BY <1>1, <1>2, <1>3 DEF Rest, AskedByCurrent, VerdictHonoured
<1>4. CASE aux' = CancelAux
  <2>1. AskedByCurrent'
    BY <1>4, TasksCancelled DEF AskedByCurrent, TypeOK
  <2>2. VerdictHonoured'
    BY <1>4, TasksCancelled DEF Rest, VerdictHonoured, TypeOK
  <2> QED BY <1>2, <2>1, <2>2 DEF Rest
<1> QED BY <1>3, <1>4

(* The rest of the invariant, one action at a time. *)
LEMMA RestKept == TypeOK /\ Rest /\ [Next]_vars => Rest'
<1> SUFFICES ASSUME TypeOK, Rest, [Next]_vars PROVE Rest'
  OBVIOUS
<1>0. closing = "closed" => pc = "idle" /\ proc = 0
  BY DEF Rest, ClosedRests
<1>1. CASE Turn
  <2>1. UNCHANGED procVars /\ closing' = "no"
    BY <1>1 DEF Turn
  <2>2. CASE Prompt /\ UNCHANGED <<connected, aux, next>>
    BY <2>1, <2>2, PromptSteps, AgentsLeftAlone DEF Closing
  <2>3. CASE AClose("spawn") /\ UNCHANGED bubbles
    BY <2>1, <2>3, ACloseSteps, AgentsLeftAlone DEF Afters
  <2>4. CASE proc = 0 /\ pc' = "spawning" /\ UNCHANGED <<calls, aux, bubbles, connected, next>>
    BY <2>1, <2>4, AgentsLeftAlone DEF Closing
  <2> QED BY <1>1, <2>2, <2>3, <2>4 DEF Turn
<1>2. CASE Spawned
  <2>1. proc = 0 /\ closing # "closed"
    BY <1>2, <1>0 DEF Spawned, Rest, BetweenAgents
  <2>2. UNCHANGED <<aux, next, closing>> /\ pc' = "initialize"
    BY <1>2 DEF Spawned
  <2>3. proc' = Len(procs) + 1 /\ reader' = [proc |-> Len(procs) + 1, on |-> TRUE]
    BY <1>2 DEF Spawned
  <2>4. procs' = Append(procs, [alive |-> TRUE, told |-> FALSE])
    BY <1>2 DEF Spawned
  <2>5. OthersAreTold'
    <3>1. \A p \in 1 .. Len(procs) : ~ (procs[p].alive /\ ~ procs[p].told)
      BY <2>1 DEF Rest, OthersAreTold, TypeOK
    <3> QED BY <2>3, <2>4, <3>1 DEF OthersAreTold, TypeOK
  <2>6. AskedByCurrent' /\ VerdictHonoured'
    BY <2>1, <2>2 DEF Rest, AskedByCurrent, VerdictHonoured
  <2>7. ReaderIsProcs'
    BY <2>3 DEF ReaderIsProcs, TypeOK
  <2> QED BY <2>1, <2>2, <2>5, <2>6, <2>7
          DEF Rest, CloseHasNext, BetweenAgents, ClosedRests, Closing
<1>3. CASE SpawnFails
  BY <1>3, <1>0, AgentsLeftAlone DEF SpawnFails, Closing
<1>4. CASE Initialized
  <2>1. UNCHANGED procVars /\ closing' # "closed"
    BY <1>4, <1>0 DEF Initialized
  <2>2. CASE pc' = "open" /\ UNCHANGED <<connected, aux, next>>
    BY <2>1, <2>2, AgentsLeftAlone DEF Closing
  <2>3. CASE TearDown("failed")
    BY <2>1, <2>3, TearDownSteps, AgentsLeftAlone DEF Afters
  <2> QED BY <1>4, <2>2, <2>3 DEF Initialized
<1>5. CASE SessionOpened
  <2>1. UNCHANGED procVars /\ UNCHANGED aux /\ closing' # "closed"
    BY <1>5, <1>0 DEF SessionOpened
  <2>2. pc' \in {"announcing", "prompt", "failed"}
    BY <1>5, PromptSteps DEF SessionOpened
  <2> QED BY <2>1, <2>2, AgentsLeftAlone DEF Closing
<1>6. CASE Announced
  <2>1. UNCHANGED procVars /\ UNCHANGED aux /\ closing' # "closed"
    BY <1>6, <1>0 DEF Announced
  <2>2. pc' \in {"prompt", "failed"}
    BY <1>6, PromptSteps DEF Announced
  <2> QED BY <2>1, <2>2, AgentsLeftAlone DEF Closing
<1>7. CASE HandshakeFails
  <2>1. UNCHANGED procVars /\ closing' # "closed"
    BY <1>7, <1>0 DEF HandshakeFails
  <2>2. PICK after \in Afters : TearDown(after)
    BY <1>7 DEF HandshakeFails, Afters
  <2> QED BY <2>1, <2>2, TearDownSteps, AgentsLeftAlone DEF Afters
<1>8. CASE TurnEnds \/ TurnFails
  BY <1>8, <1>0, AgentsLeftAlone DEF TurnEnds, TurnFails, sessionVars, Closing
<1>9. CASE AfterFailure
  <2>1. UNCHANGED procVars /\ closing' # "closed"
    BY <1>9, <1>0 DEF AfterFailure
  <2>2. CASE AClose("idle")
    BY <2>1, <2>2, ACloseSteps, AgentsLeftAlone DEF Afters
  <2>3. CASE pc' \in {"cancelled", "idle"} /\ UNCHANGED aux
    BY <2>1, <2>3, AgentsLeftAlone DEF Closing
  <2> QED BY <1>9, <2>2, <2>3 DEF AfterFailure
<1>10. CASE CloseAnswered
  <2>1. next \in Afters
    BY <1>10 DEF CloseAnswered, TypeOK, Rest, CloseHasNext, Closing, Afters
  <2>2. UNCHANGED procVars /\ closing' # "closed"
    BY <1>10, <1>0 DEF CloseAnswered
  <2>3. TearDown(next)
    BY <1>10 DEF CloseAnswered
  <2> QED BY <2>1, <2>2, <2>3, TearDownSteps, AgentsLeftAlone DEF Afters
<1>11. CASE CloseCancelled
  BY <1>11, <1>0, AgentsLeftAlone DEF CloseCancelled, Closing
<1>12. CASE ReaderAwaited
  <2>1. pc = "closeReader" /\ closing # "closed" /\ next # "none"
    BY <1>12, <1>0 DEF ReaderAwaited, Rest, CloseHasNext, Closing
  <2>2. procs' = Told /\ proc' = 0 /\ reader' = [proc |-> 0, on |-> FALSE] /\ UNCHANGED aux
    BY <1>12 DEF ReaderAwaited
  <2>3. \/ pc' = "closeWait" /\ UNCHANGED <<next, closing>>
        \/ Follow
    BY <1>12 DEF ReaderAwaited
  <2>4. CloseHasNext' /\ ClosedRests'
    BY <2>1, <2>2, <2>3, FollowSteps DEF Rest, CloseHasNext, ClosedRests, Closing
  <2>5. OthersAreTold'
    BY <2>2, AgentTold DEF Rest, OthersAreTold
  <2>6. AskedByCurrent' /\ VerdictHonoured'
    BY <2>1, <2>2 DEF Rest, AskedByCurrent, VerdictHonoured
  <2> QED BY <2>2, <2>4, <2>5, <2>6 DEF Rest, ReaderIsProcs, BetweenAgents
<1>13. CASE ProcessAwaited
  <2>1. pc = "closeWait" /\ proc = 0 /\ closing # "closed"
    BY <1>13, <1>0 DEF ProcessAwaited, Rest, BetweenAgents
  <2>2. UNCHANGED <<proc, reader, aux>>
    BY <1>13 DEF ProcessAwaited
  <2>3. procs' = [p \in DOMAIN procs |->
                    IF procs[p].told THEN [procs[p] EXCEPT !.alive = FALSE] ELSE procs[p]]
    BY <1>13 DEF ProcessAwaited
  <2>4. Follow
    BY <1>13 DEF ProcessAwaited
  <2>5. CloseHasNext' /\ ClosedRests' /\ pc' # "closeReader"
    BY <2>1, <2>2, <2>4, FollowSteps DEF Rest, CloseHasNext, ClosedRests, Closing
  <2>6. OthersAreTold'
    <3>1. \A p \in DOMAIN procs : procs[p] \in Proc
      BY DEF TypeOK
    <3>2. \A p \in DOMAIN procs : (procs'[p].alive /\ ~ procs'[p].told) => procs[p].alive /\ ~ procs[p].told
      BY <2>3, <3>1 DEF Proc
    <3> QED BY <2>2, <2>3, <3>2 DEF Rest, OthersAreTold
  <2>7. AskedByCurrent' /\ VerdictHonoured'
    BY <2>2, <2>5 DEF Rest, AskedByCurrent, VerdictHonoured
  <2> QED BY <2>1, <2>2, <2>5, <2>6, <2>7 DEF Rest, ReaderIsProcs, BetweenAgents
<1>14. CASE Close
  BY <1>14, AgentsLeftAlone DEF Close, Rest, CloseHasNext, BetweenAgents
<1>15. CASE CloseProvider
  BY <1>15, ACloseSteps, AgentsLeftAlone DEF CloseProvider, Afters
<1>16. ASSUME NEW p \in DOMAIN procs, AgentDies(p) PROVE Rest'
  <2>1. procs' = [procs EXCEPT ![p].alive = FALSE]
    BY <1>16 DEF AgentDies
  <2>2. UNCHANGED <<proc, reader, aux, pc, next, closing>>
    BY <1>16 DEF AgentDies, callerVars
  <2>3. OthersAreTold'
    BY <2>1, <2>2 DEF Rest, OthersAreTold, TypeOK, Proc
  <2> QED BY <2>2, <2>3 DEF Rest, CloseHasNext, ReaderIsProcs, BetweenAgents, ClosedRests,
                            AskedByCurrent, VerdictHonoured
<1>17. CASE (\E i \in DOMAIN calls : Response(i)) \/ Update
  BY <1>17, AgentsLeftAlone DEF Response, Update, callerVars, Rest, CloseHasNext, BetweenAgents, ClosedRests
<1>18. CASE ReaderEnds
  <2>1. UNCHANGED <<procs, proc, aux, pc, next, closing>>
    BY <1>18 DEF ReaderEnds, callerVars
  <2>2. ReaderIsProcs'
    BY <1>18, <2>1 DEF ReaderEnds, Rest, ReaderIsProcs, TypeOK, Reader
  <2> QED BY <2>1, <2>2 DEF Rest, CloseHasNext, BetweenAgents, OthersAreTold, ClosedRests,
                            AskedByCurrent, VerdictHonoured
<1>19. ASSUME NEW a \in Asks, AgentAsks(a) PROVE Rest'
  <2>1. UNCHANGED <<procs, proc, reader, pc, next, closing>>
    BY <1>19 DEF AgentAsks, procVars, callerVars
  <2>2. proc # 0 /\ reader.proc = proc /\ pc # "closeReader"
    BY <1>19 DEF AgentAsks, Reading, Rest, ReaderIsProcs
  <2>3. aux' = [aux EXCEPT ![a] = [Unasked(proc) EXCEPT !.state = "asking"]]
    BY <1>19, <2>2 DEF AgentAsks
  <2>4. AskedByCurrent' /\ VerdictHonoured'
    BY <2>1, <2>2, <2>3 DEF Rest, AskedByCurrent, VerdictHonoured, Unasked, TypeOK
  <2> QED BY <2>1, <2>4 DEF Rest, CloseHasNext, ReaderIsProcs, BetweenAgents, OthersAreTold, ClosedRests
<1>20. ASSUME NEW a \in Asks, AuxAnswers(a) PROVE Rest'
  <2>1. UNCHANGED <<procs, proc, reader, pc, next, closing>>
    BY <1>20 DEF AuxAnswers, procVars, callerVars
  <2>2. proc # 0 /\ aux[a].proc = proc
    BY <1>20 DEF AuxAnswers, Rest, AskedByCurrent
  <2>3. PICK allow \in BOOLEAN, chosen \in Kinds :
            /\ aux' = [aux EXCEPT ![a] = Answered(a, allow, chosen)]
            /\ ~ allow => chosen \in {"reject", "cancelled"}
    BY <1>20, AnswerGiven
  <2> DEFINE x == Answered(a, allow, chosen)
  <2>4. /\ x.state = "over" /\ x.proc = proc /\ x.answered \in {0, proc}
        /\ x.allow = allow /\ x.chosen = chosen
    <3>1. aux[a] \in Aux
      BY DEF TypeOK
    <3> QED BY <2>2, <3>1 DEF Answered, Aux
  <2> HIDE DEF x
  <2>5. \A b \in Asks : aux'[b] = IF b = a THEN x ELSE aux[b]
    BY <2>3 DEF TypeOK, x
  <2>6. AskedByCurrent'
    BY <2>1, <2>4, <2>5 DEF Rest, AskedByCurrent
  <2>7. VerdictHonoured'
    BY <2>3, <2>4, <2>5 DEF Rest, VerdictHonoured
  <2> QED BY <2>1, <2>6, <2>7 DEF Rest, CloseHasNext, ReaderIsProcs, BetweenAgents, OthersAreTold, ClosedRests
<1>21. CASE UNCHANGED vars
  BY <1>21, AgentsLeftAlone
  DEF vars, callerVars, Rest, CloseHasNext, BetweenAgents, ClosedRests
<1> QED BY <1>1, <1>2, <1>3, <1>4, <1>5, <1>6, <1>7, <1>8, <1>9, <1>10, <1>11, <1>12, <1>13,
           <1>14, <1>15, <1>16, <1>17, <1>18, <1>19, <1>20, <1>21
        DEF Next, CallerStep

-----------------------------------------------------------------------------
LEMMA Invariant == Spec => []IInv
<1>1. IInv /\ [Next]_vars => IInv'
  BY TypesKept, RestKept DEF IInv, Rest
<1> QED BY <1>1, IInvInit, PTL DEF Spec

(* The type invariant, for any number of turns, agents and text blocks.     *)
THEOREM TypeCorrect == Spec => []TypeOK
<1>1. IInv => TypeOK
  BY DEF IInv
<1> QED BY <1>1, Invariant, PTL

(* Whichever step of a turn, a failure or a close fails or is cancelled, an *)
(* agent is the current one or was told to terminate, and a session that is *)
(* closed has none (_spawn_and_connect, aclose).                            *)
THEOREM NoAgentLeft == Spec => []NoStrayAgent
<1>1. IInv => NoStrayAgent
  BY DEF IInv, Rest, OthersAreTold, ClosedRests, NoStrayAgent
<1> QED BY <1>1, Invariant, PTL

(* A permission task answers the agent that asked, and a deny selects no    *)
(* option but one that refuses (_serve_permission, _select_option).         *)
THEOREM VerdictReaches == Spec => []VerdictHonoured
<1>1. IInv => VerdictHonoured
  BY DEF IInv, Rest
<1> QED BY <1>1, Invariant, PTL
=============================================================================
