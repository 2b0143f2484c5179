--------------------------- MODULE SessionProofs ---------------------------
(***************************************************************************)
(* Proofs about Session for every set of permission requests, every retry  *)
(* limit and any number of turns.                                          *)
(*                                                                         *)
(* Five invariants, each inductive with the types: TInv, a command under   *)
(* way that spawns a turn has room for it; AInv, a verdict of allow was a  *)
(* browser's even before it is returned; OInv, until close() cancels       *)
(* tasks, whatever is no chain is behind finished turns alone; CInv, the   *)
(* cancel of a clean close reaches every task; RInv, the flag a retry      *)
(* decides by tells of the outputs of the turn it is about.                *)
(***************************************************************************)
EXTENDS Session, SequenceTheorems, TLAPS

USE SessionAssumption

Pcs == New \cup {"waiting"} \cup Active \cup Finished

(* A turn that is about to be spawned has room. *)
RoomToSpawn == cmd.pc \in {"start", "edit"} => Len(turns) < MaxTurns

TInv == TypeOK /\ RoomToSpawn

-----------------------------------------------------------------------------
(* The sequence of turns. *)

(* One element of a sequence of turns is replaced. *)
LEMMA TurnReplaced ==
    ASSUME NEW q \in Seq(Turn), NEW i \in 1 .. Len(q), NEW t \in Turn,
           NEW r, r = [q EXCEPT ![i] = t]
    PROVE  /\ r \in Seq(Turn)
           /\ Len(r) = Len(q)
           /\ \A j \in 1 .. Len(q) : r[j] = IF j = i THEN t ELSE q[j]
  BY DEF Turn

(* A turn moves to another pc. *)
LEMMA TurnMoves ==
    ASSUME TypeOK, NEW i \in Turns, NEW p \in Pcs,
           turns' = [turns EXCEPT ![i].pc = p]
    PROVE  /\ turns' \in Seq(Turn)
           /\ Len(turns') = Len(turns)
           /\ \A j \in Turns :
                /\ turns'[j].pc = IF j = i THEN p ELSE turns[j].pc
                /\ turns'[j].attempt = turns[j].attempt
                /\ turns'[j].cancel = turns[j].cancel
<1> DEFINE t == [turns[i] EXCEPT !.pc = p]
<1>1. turns \in Seq(Turn) /\ turns[i] \in Turn
  BY DEF TypeOK, Turns
<1>2. t \in Turn
  BY <1>1 DEF Turn, Pcs
<1>3. turns' = [turns EXCEPT ![i] = t]
  BY <1>1
<1>4. /\ turns' \in Seq(Turn)
      /\ Len(turns') = Len(turns)
      /\ \A j \in Turns : turns'[j] = IF j = i THEN t ELSE turns[j]
  <2> HIDE DEF t
  <2> QED BY <1>1, <1>2, <1>3, TurnReplaced DEF Turns
<1>5. t.pc = p /\ t.attempt = turns[i].attempt /\ t.cancel = turns[i].cancel
  BY <1>1 DEF Turn
<1> HIDE DEF t
<1> QED BY <1>4, <1>5

(* A turn begins an attempt. *)
LEMMA AttemptBegun ==
    ASSUME TypeOK, NEW i \in Turns, BeginAttempt(i)
    PROVE  /\ turns' \in Seq(Turn)
           /\ Len(turns') = Len(turns)
           /\ \A j \in Turns :
                /\ turns'[j].pc = IF j = i THEN "attempt" ELSE turns[j].pc
                /\ turns'[j].attempt = IF j = i THEN turns[i].attempt + 1 ELSE turns[j].attempt
                /\ turns'[j].cancel = turns[j].cancel
<1> DEFINE t == [turns[i] EXCEPT !.pc = "attempt", !.attempt = @ + 1]
<1>1. turns \in Seq(Turn) /\ turns[i] \in Turn
  BY DEF TypeOK, Turns
<1>2. t \in Turn
  <2>1. turns[i].attempt + 1 \in Nat
    BY <1>1 DEF Turn
  <2>2. "attempt" \in Active
    BY DEF Active
  <2> QED BY <1>1, <2>1, <2>2 DEF Turn
<1>3. turns' = [turns EXCEPT ![i] = t]
  BY <1>1 DEF BeginAttempt, Turns, Turn
<1>4. /\ turns' \in Seq(Turn)
      /\ Len(turns') = Len(turns)
      /\ \A j \in Turns : turns'[j] = IF j = i THEN t ELSE turns[j]
  <2> HIDE DEF t
  <2> QED BY <1>1, <1>2, <1>3, TurnReplaced DEF Turns
<1>5. t.pc = "attempt" /\ t.attempt = turns[i].attempt + 1 /\ t.cancel = turns[i].cancel
  BY <1>1 DEF Turn
<1> HIDE DEF t
<1> QED BY <1>4, <1>5

(* A turn is spawned behind the others. *)
LEMMA Spawned ==
    ASSUME TypeOK, NEW isEdit \in BOOLEAN, Spawn(isEdit)
    PROVE  /\ turns' \in Seq(Turn)
           /\ Len(turns') = Len(turns) + 1
           /\ \A j \in Turns : turns'[j] = turns[j]
           /\ turns'[Len(turns) + 1].pc =
                IF turns # <<>> /\ LastTurn.pc \notin Finished THEN "chain" ELSE "guard"
           /\ turns'[Len(turns) + 1].attempt = 0
           /\ ~ turns'[Len(turns) + 1].cancel
<1> DEFINE t == [pc |-> IF turns # <<>> /\ LastTurn.pc \notin Finished
                        THEN "chain" ELSE "guard",
                 edit |-> isEdit, attempt |-> 0, cancel |-> FALSE]
<1>1. turns \in Seq(Turn)
  BY DEF TypeOK
<1>2. t \in Turn
  BY DEF Turn, New
<1>3. turns' = Append(turns, t)
  BY DEF Spawn
<1>4. /\ turns' \in Seq(Turn)
      /\ Len(turns') = Len(turns) + 1
      /\ \A j \in Turns : turns'[j] = turns[j]
      /\ turns'[Len(turns) + 1] = t
  <2> HIDE DEF t
  <2> QED BY <1>1, <1>2, <1>3 DEF Turns
<1> QED BY <1>4

(* close() requests the cancel of some turns. *)
LEMMA CancelRequested ==
    ASSUME TypeOK, NEW C \in SUBSET Turns,
           turns' = [i \in Turns |-> IF i \in C THEN [turns[i] EXCEPT !.cancel = TRUE]
                                     ELSE turns[i]]
    PROVE  /\ turns' \in Seq(Turn)
           /\ Len(turns') = Len(turns)
           /\ \A j \in Turns :
                /\ turns'[j].pc = turns[j].pc
                /\ turns'[j].attempt = turns[j].attempt
<1>1. turns \in Seq(Turn) /\ \A j \in Turns : turns[j] \in Turn
  BY DEF TypeOK, Turns
<1>2. \A j \in Turns : turns'[j] \in Turn
  BY <1>1 DEF Turn
<1>3. turns' \in Seq(Turn) /\ Len(turns') = Len(turns)
  <2>1. turns' \in [1 .. Len(turns) -> Turn]
    BY <1>1, <1>2 DEF Turns
  <2> QED BY <2>1, <1>1 DEF Turns
<1> QED BY <1>1, <1>3 DEF Turn

-----------------------------------------------------------------------------
(* The other state. *)

(* An emit keeps the history of outputs well typed. *)
LEMMA EmitTyped ==
    ASSUME TypeOK, NEW i \in Turns, EmitFor(i)
    PROVE  emitted' \in BOOLEAN /\ outputs' \in SUBSET Output
<1> DEFINE o == [turn |-> i, attempt |-> turns[i].attempt,
                 rewound |-> \E j \in Edits : i < j]
<1>1. i \in Nat /\ turns[i].attempt \in Nat
  <2>1. turns \in Seq(Turn) /\ i \in 1 .. Len(turns)
    BY DEF TypeOK, Turns
  <2>2. turns[i] \in Turn
    BY <2>1
  <2> QED BY <2>1, <2>2 DEF Turn
<1>2. o \in Output
  BY <1>1 DEF Output
<1> QED BY <1>2 DEF EmitFor, TypeOK

(* The end of a task. *)
LEMMA FinishTyped ==
    ASSUME TypeOK, NEW i \in Turns, NEW how \in Finished, Finish(i, how)
    PROVE  /\ turns' \in Seq(Turn) /\ Len(turns') = Len(turns)
           /\ status' \in {"idle", "running"}
           /\ stopped' \in SUBSET (1 .. MaxTurns)
<1>1. how \in Pcs
  BY DEF Pcs
<1> QED BY <1>1, TurnMoves DEF Finish, TypeOK

(* The provider's aclose(). *)
LEMMA ProviderCloseTyped ==
    ASSUME TypeOK, ProviderCloses
    PROVE  client' \in BOOLEAN /\ asks' \in [Asks -> Ask] /\ pending' \in SUBSET Asks
BY DEF ProviderCloses, TypeOK, Ask

LEMMA CancelAllTyped ==
    ASSUME TypeOK, CancelAll
    PROVE  asks' \in [Asks -> Ask] /\ pending' \in SUBSET Asks
BY DEF CancelAll, TypeOK, Ask

LEMMA SettledTyped ==
    ASSUME TypeOK, NEW a \in Asks, NEW decision
    PROVE  Settled(a, decision) \in [Asks -> Ask]
BY DEF Settled, Verdict, TypeOK, Ask

-----------------------------------------------------------------------------
(* Types. *)

LEMMA TInvInit == Init => TInv
<1> SUFFICES ASSUME Init PROVE TInv
  OBVIOUS
<1>1. turns \in Seq(Turn) /\ Len(turns) = 0
  BY DEF Init
<1>2. asks \in [Asks -> Ask]
  BY DEF Init, Ask
<1>3. cmd \in Cmd /\ MaxTurns > 0
  BY DEF Init, Cmd
<1>4. RoomToSpawn
  BY <1>1, <1>3 DEF RoomToSpawn
<1>5. Len(turns) <= MaxTurns
  BY <1>1, <1>3
<1> QED BY <1>1, <1>2, <1>3, <1>4, <1>5 DEF Init, TInv, TypeOK

(* The steps of a turn. *)
LEMMA TInvTurn ==
    ASSUME TInv, NEW i \in Turns,
           TurnStep(i) \/ TurnOutput(i) \/ TurnRaises(i)
    PROVE  TInv'
<1> USE DEF TInv, RoomToSpawn
<1>1. CASE TaskStarts(i)
  <2>1. CASE NeverBegins(i)
    <3>1. turns' \in Seq(Turn) /\ Len(turns') = Len(turns)
      BY <2>1, TurnMoves DEF NeverBegins, Pcs, Finished
    <3> QED BY <1>1, <2>1, <3>1 DEF NeverBegins, TaskStarts, TypeOK, askVars, closeVars
  <2>2. CASE turns' = [turns EXCEPT ![i].pc = "waiting"]
               /\ UNCHANGED <<status, emitted, client, stopped>>
    <3>1. turns' \in Seq(Turn) /\ Len(turns') = Len(turns)
      BY <2>2, TurnMoves DEF Pcs
    <3> QED BY <1>1, <2>2, <3>1 DEF TaskStarts, TypeOK, askVars, closeVars
  <2>3. CASE BeginAttempt(i)
    <3>1. turns' \in Seq(Turn) /\ Len(turns') = Len(turns)
      BY <2>3, AttemptBegun
    <3> QED BY <1>1, <2>3, <3>1 DEF BeginAttempt, TaskStarts, TypeOK, askVars, closeVars
  <2> QED BY <1>1, <2>1, <2>2, <2>3 DEF TaskStarts
<1>2. CASE ChainResumes(i)
  <2>1. CASE NeverBegins(i)
    <3>1. turns' \in Seq(Turn) /\ Len(turns') = Len(turns)
      BY <2>1, TurnMoves DEF NeverBegins, Pcs, Finished
    <3> QED BY <1>2, <2>1, <3>1 DEF NeverBegins, ChainResumes, TypeOK, askVars, closeVars
  <2>2. CASE BeginAttempt(i)
    <3>1. turns' \in Seq(Turn) /\ Len(turns') = Len(turns)
      BY <2>2, AttemptBegun
    <3> QED BY <1>2, <2>2, <3>1 DEF BeginAttempt, ChainResumes, TypeOK, askVars, closeVars
  <2> QED BY <1>2, <2>1, <2>2 DEF ChainResumes
<1>3. CASE TurnReturns(i)
  BY <1>3, FinishTyped DEF TurnReturns, Finished, TypeOK, askVars, closeVars
<1>4. CASE ResetForRetry(i)
  <2>1. turns' \in Seq(Turn) /\ Len(turns') = Len(turns)
    BY <1>4, TurnMoves DEF ResetForRetry, Pcs, Active
  <2> QED BY <1>4, <2>1, ProviderCloseTyped DEF ResetForRetry, TypeOK, closeVars
<1>5. CASE Retry(i)
  <2>1. turns' \in Seq(Turn) /\ Len(turns') = Len(turns)
    BY <1>5, AttemptBegun DEF Retry
  <2> QED BY <1>5, <2>1 DEF BeginAttempt, Retry, TypeOK, askVars, closeVars
<1>6. CASE ErrorReported(i)
  <2>1. CASE turns' = [turns EXCEPT ![i].pc = "reset"] /\ UNCHANGED <<status, stopped>>
    <3>1. turns' \in Seq(Turn) /\ Len(turns') = Len(turns)
      BY <2>1, TurnMoves DEF Pcs, Active
    <3> QED BY <1>6, <2>1, <3>1 DEF ErrorReported, TypeOK, askVars, closeVars
  <2>2. CASE Finish(i, "done")
    BY <1>6, <2>2, FinishTyped DEF ErrorReported, Finished, TypeOK, askVars, closeVars
  <2> QED BY <1>6, <2>1, <2>2 DEF ErrorReported
<1>7. CASE ResetAfterError(i)
  BY <1>7, FinishTyped, ProviderCloseTyped
  DEF ResetAfterError, Finished, TypeOK, closeVars
<1>8. CASE TurnCancelled(i)
  BY <1>8, FinishTyped DEF TurnCancelled, Finished, TypeOK, askVars, closeVars
<1>9. CASE TurnOutput(i)
  BY <1>9, EmitTyped DEF TurnOutput, TypeOK, askVars, closeVars
<1>10. CASE TurnRaises(i)
  <2>1. \E p \in {"retry", "fatal", "fail"} : turns' = [turns EXCEPT ![i].pc = p]
    BY <1>10 DEF TurnRaises
  <2>2. turns' \in Seq(Turn) /\ Len(turns') = Len(turns)
    BY <2>1, TurnMoves DEF Pcs, Active
  <2>3. emitted' \in BOOLEAN
    BY <1>10 DEF TurnRaises, TypeOK
  <2> QED BY <1>10, <2>2, <2>3 DEF TurnRaises, TypeOK, askVars, closeVars
<1> QED BY <1>1, <1>2, <1>3, <1>4, <1>5, <1>6, <1>7, <1>8, <1>9, <1>10 DEF TurnStep

(* The steps of a permission request, and its answers. *)
LEMMA TInvAsk ==
    ASSUME TInv, NEW a \in Asks,
           \/ AskStep(a) \/ AskRaised(a)
           \/ \E decision \in {"allow", "deny", "other"} : Resolve(a, decision)
    PROVE  TInv'
<1> USE DEF TInv, RoomToSpawn
<1>1. CASE AskRegistered(a)
  BY <1>1 DEF AskRegistered, TypeOK, Ask, runVars, closeVars
<1>2. CASE AskReturns(a)
  BY <1>2 DEF AskReturns, TypeOK, Ask, runVars, closeVars
<1>3. CASE AskTimesOut(a)
  BY <1>3 DEF AskTimesOut, TypeOK, Ask, runVars, closeVars
<1>4. CASE AskRaised(a)
  <2>1. emitted' \in BOOLEAN /\ outputs' \in SUBSET Output
    BY <1>4, EmitTyped DEF AskRaised
  <2>2. asks' \in [Asks -> Ask]
    BY <1>4 DEF AskRaised, TypeOK, Ask
  <2> QED BY <1>4, <2>1, <2>2 DEF AskRaised, TypeOK, closeVars
<1>5. ASSUME NEW decision \in {"allow", "deny", "other"}, Resolve(a, decision)
      PROVE  TInv'
  <2>1. asks' \in [Asks -> Ask]
    BY <1>5, SettledTyped DEF Resolve
  <2> QED BY <1>5, <2>1 DEF Resolve, TypeOK, runVars, closeVars
<1> QED BY <1>1, <1>2, <1>3, <1>4, <1>5 DEF AskStep

(* The commands and close(). *)
LEMMA TInvCommand ==
    ASSUME TInv, \/ CommandStep \/ Send \/ Edit \/ Stop
                 \/ DuplicateFound \/ Close \/ CloseAwaited \/ Closed
    PROVE  TInv'
<1> USE DEF TInv, RoomToSpawn
<1>0. Idle \in Cmd /\ [pc |-> "edit"] \in Cmd /\ [pc |-> "stop"] \in Cmd
  BY DEF Idle, Cmd
<1>spawn. ASSUME NEW isEdit \in BOOLEAN, Spawn(isEdit), Len(turns) < MaxTurns
          PROVE  turns' \in Seq(Turn) /\ Len(turns') <= MaxTurns
  <2>1. turns \in Seq(Turn)
    BY DEF TypeOK
  <2>2. Len(turns) \in Nat
    BY <2>1
  <2>3. turns' \in Seq(Turn) /\ Len(turns') = Len(turns) + 1
    BY <1>spawn, Spawned
  <2> QED BY <2>2, <2>3, <1>spawn
<1>idle. ASSUME cmd' = Idle PROVE cmd' \in Cmd /\ RoomToSpawn'
  BY <1>0, <1>idle DEF Idle
<1>1. CASE Start
  <2>1. turns' \in Seq(Turn) /\ Len(turns') <= MaxTurns
    BY <1>1, <1>spawn DEF Start
  <2> QED BY <1>1, <2>1, <1>idle DEF Start, TypeOK, runVars, askVars, closeVars
<1>2. CASE EditSpawns
  <2>1. turns' \in Seq(Turn) /\ Len(turns') <= MaxTurns
    BY <1>2, <1>spawn DEF EditSpawns
  <2> QED BY <1>2, <2>1, <1>idle DEF EditSpawns, TypeOK, runVars, askVars, closeVars
<1>3. CASE Send
  <2>1. turns' \in Seq(Turn) /\ Len(turns') <= MaxTurns
    BY <1>3, <1>spawn DEF Send
  <2>2. cmd' = Idle
    BY <1>3 DEF Send
  <2> QED BY <1>3, <2>1, <2>2, <1>idle DEF Send, TypeOK, runVars, askVars, closeVars
<1>4. CASE Edit
  BY <1>0, <1>4 DEF Edit, TypeOK, askVars, closeVars
<1>5. CASE Stop
  <2>1. cmd' \in Cmd /\ cmd'.pc = "deny"
    BY <1>5 DEF Stop, Cmd, TypeOK
  <2> QED BY <1>5, <2>1, CancelAllTyped DEF Stop, TypeOK, runVars, closeVars
<1>6. CASE TellDenied
  <2>1. cmd' \in Cmd /\ cmd'.pc = "deny"
    BY <1>6 DEF TellDenied, Cmd, TypeOK
  <2> QED BY <1>6, <2>1 DEF TellDenied, TypeOK, askVars, closeVars
<1>7. CASE InterruptProvider
  <2>1. Turns \subseteq 1 .. MaxTurns
    <3>1. turns \in Seq(Turn) /\ Len(turns) <= MaxTurns
      BY DEF TypeOK
    <3>2. Len(turns) \in Nat
      BY <3>1
    <3> QED BY <3>1, <3>2 DEF Turns
  <2>2. stopped' \in SUBSET (1 .. MaxTurns)
    BY <1>7, <2>1 DEF InterruptProvider, TypeOK
  <2>3. cmd' \in Cmd /\ RoomToSpawn'
    BY <1>0, <1>7 DEF InterruptProvider
  <2> QED BY <1>7, <2>2, <2>3 DEF InterruptProvider, TypeOK, askVars, closeVars
<1>8. CASE Stopped
  BY <1>0, <1>8 DEF Stopped, Idle, TypeOK, runVars, askVars, closeVars
<1>9. CASE DuplicateFound
  BY <1>9, EmitTyped DEF DuplicateFound, TypeOK, askVars
<1>10. CASE Close
  <2>1. turns' \in Seq(Turn) /\ Len(turns') = Len(turns)
    <3>1. CASE UNCHANGED turns
      BY <3>1 DEF TypeOK
    <3>2. CASE \E C \in SUBSET Turns :
                   turns' = [i \in Turns |-> IF i \in C THEN [turns[i] EXCEPT !.cancel = TRUE]
                                             ELSE turns[i]]
      BY <3>2, CancelRequested
    <3>3. \/ UNCHANGED turns
          \/ turns' = [i \in Turns |->
                 IF i \in {k \in Turns : CancelReaches(k) /\ turns[k].pc \notin Finished}
                 THEN [turns[i] EXCEPT !.cancel = TRUE] ELSE turns[i]]
      BY <1>10 DEF Close
    <3> QED BY <3>1, <3>2, <3>3
  <2>2. closing' \in {"cancelling", "aclosing"} /\ clean' \in BOOLEAN
    BY <1>10 DEF Close
  <2> QED BY <1>10, <2>1, <2>2, CancelAllTyped DEF Close, TypeOK, runVars
<1>11. CASE CloseAwaited
  BY <1>11 DEF CloseAwaited, TypeOK, runVars, askVars
<1>12. CASE Closed
  BY <1>12, ProviderCloseTyped DEF Closed, TypeOK
<1> QED BY <1>1, <1>2, <1>3, <1>4, <1>5, <1>6, <1>7, <1>8, <1>9, <1>10, <1>11, <1>12
        DEF CommandStep

LEMMA TInvNext == TInv /\ [Next]_vars => TInv'
<1> SUFFICES ASSUME TInv, [Next]_vars PROVE TInv'
  OBVIOUS
<1>1. CASE UNCHANGED vars
  BY <1>1 DEF TInv, TypeOK, RoomToSpawn, vars, runVars, askVars, closeVars
<1>2. CASE Next
  BY <1>2, TInvTurn, TInvAsk, TInvCommand DEF Next
<1> QED BY <1>1, <1>2

(* The type invariant of session.py's state, for any number of turns. *)
THEOREM TypeCorrect == Spec => []TypeOK
<1>1. TInv => TypeOK
  BY DEF TInv
<1> QED BY <1>1, TInvInit, TInvNext, PTL DEF Spec

-----------------------------------------------------------------------------
(* Approvals.  A verdict of allow, returned yet or not, was a browser's. *)
AllowIsBrowsers == \A a \in Asks : asks[a].verdict = "allow" => a \in allowed

AInv == TypeOK /\ AllowIsBrowsers /\ BlockedIsListed

LEMMA AInvInit == Init => AInv
<1>1. Init => TypeOK
  BY TInvInit DEF TInv
<1>2. Init => AllowIsBrowsers /\ BlockedIsListed
  BY DEF Init, AllowIsBrowsers, BlockedIsListed
<1> QED BY <1>1, <1>2 DEF AInv

(* Steps that take the client down: a request it had is dropped. *)
LEMMA AInvProviderCloses ==
    ASSUME AInv, ProviderCloses, UNCHANGED allowed
    PROVE  AllowIsBrowsers' /\ BlockedIsListed'
<1> USE DEF AInv, AllowIsBrowsers, BlockedIsListed
<1>1. ASSUME NEW a \in Asks
      PROVE  /\ asks'[a].verdict = asks[a].verdict
             /\ asks'[a].pc = "waiting" => (asks[a].pc = "waiting" /\ a \notin Outstanding)
  BY <1>1 DEF ProviderCloses, Outstanding, TypeOK, Ask
<1>2. \A a \in Asks : a \notin Outstanding => (a \in pending' <=> a \in pending)
  BY DEF ProviderCloses
<1> QED BY <1>1, <1>2

(* cancel_all settles all it forgets. *)
LEMMA AInvCancelAll ==
    ASSUME AInv, CancelAll, UNCHANGED allowed
    PROVE  AllowIsBrowsers' /\ BlockedIsListed'
BY DEF AInv, AllowIsBrowsers, BlockedIsListed, CancelAll, TypeOK, Ask

LEMMA AInvUnchanged ==
    ASSUME AInv, UNCHANGED askVars
    PROVE  AllowIsBrowsers' /\ BlockedIsListed'
BY DEF AInv, AllowIsBrowsers, BlockedIsListed, askVars

LEMMA AInvNext == AInv /\ TInv /\ [Next]_vars => AllowIsBrowsers' /\ BlockedIsListed'
<1> SUFFICES ASSUME AInv, TInv, [Next]_vars
             PROVE  AllowIsBrowsers' /\ BlockedIsListed'
  OBVIOUS
<1>1. CASE UNCHANGED vars
  BY <1>1, AInvUnchanged DEF vars
<1>2. ASSUME NEW i \in Turns, TurnStep(i) \/ TurnOutput(i) \/ TurnRaises(i)
      PROVE  AllowIsBrowsers' /\ BlockedIsListed'
  <2>1. CASE ResetForRetry(i) \/ ResetAfterError(i)
    BY <2>1, AInvProviderCloses DEF ResetForRetry, ResetAfterError
  <2>2. CASE ~ (ResetForRetry(i) \/ ResetAfterError(i))
    <3>1. UNCHANGED askVars
      BY <1>2, <2>2 DEF TurnStep, TaskStarts, ChainResumes, TurnReturns, Retry,
         ErrorReported, TurnCancelled, TurnOutput, TurnRaises
    <3> QED BY <3>1, AInvUnchanged
  <2> QED BY <2>1, <2>2
<1>3. ASSUME NEW a \in Asks,
             \/ AskStep(a) \/ AskRaised(a)
             \/ \E decision \in {"allow", "deny", "other"} : Resolve(a, decision)
      PROVE  AllowIsBrowsers' /\ BlockedIsListed'
  <2> USE DEF AInv, AllowIsBrowsers, BlockedIsListed, TypeOK, Ask
  <2>1. CASE AskRegistered(a)
    BY <2>1 DEF AskRegistered
  <2>2. CASE AskReturns(a)
    BY <2>2 DEF AskReturns
  <2>3. CASE AskTimesOut(a)
    BY <2>3 DEF AskTimesOut
  <2>4. CASE AskRaised(a)
    BY <2>4 DEF AskRaised
  <2>5. ASSUME NEW decision \in {"allow", "deny", "other"}, Resolve(a, decision)
        PROVE  AllowIsBrowsers' /\ BlockedIsListed'
    <3>1. \A b \in Asks :
             /\ asks'[b].pc = asks[b].pc
             /\ asks'[b].verdict = asks[b].verdict
                \/ (b = a /\ asks[b].verdict = "none" /\ asks'[b].verdict = Verdict(decision))
      BY <2>5 DEF Resolve, Settled
    <3>2. Verdict(decision) = "allow" => allowed' = allowed \cup {a}
      BY <2>5 DEF Resolve, Verdict
    <3>3. Verdict(decision) # "none"
      BY DEF Verdict
    <3>4. pending' = pending /\ allowed \subseteq allowed'
      BY <2>5 DEF Resolve
    <3> QED BY <3>1, <3>2, <3>3, <3>4
  <2> QED BY <1>3, <2>1, <2>2, <2>3, <2>4, <2>5 DEF AskStep
<1>4. CASE CommandStep
  BY <1>4, AInvUnchanged
  DEF CommandStep, Start, EditSpawns, TellDenied, InterruptProvider, Stopped
<1>5. CASE Send \/ Edit \/ DuplicateFound
  BY <1>5, AInvUnchanged DEF Send, Edit, DuplicateFound
<1>6. CASE Stop \/ Close
  BY <1>6, AInvCancelAll DEF Stop, Close
<1>7. CASE CloseAwaited
  BY <1>7, AInvUnchanged DEF CloseAwaited
<1>8. CASE Closed
  BY <1>8, AInvProviderCloses DEF Closed
<1> QED BY <1>1, <1>2, <1>3, <1>4, <1>5, <1>6, <1>7, <1>8 DEF Next

LEMMA Approvals == Spec => [](TInv /\ AInv)
<1>1. Init => TInv /\ AInv
  BY TInvInit, AInvInit
<1>2. TInv /\ AInv /\ [Next]_vars => (TInv /\ AInv)'
  BY TInvNext, AInvNext DEF TInv, AInv
<1> QED BY <1>1, <1>2, PTL DEF Spec

(* However answers, timeouts, stops, crashes and close interleave, an agent *)
(* is allowed only what a browser allowed: permissions.py lets a future be  *)
(* settled once.                                                            *)
THEOREM NoAllowWithoutBrowser == Spec => []AllowOnlyByBrowser
<1>1. AInv => AllowOnlyByBrowser
  BY DEF AInv, AllowIsBrowsers, AllowOnlyByBrowser
<1> QED BY <1>1, Approvals, PTL

(* A request that blocks its turn can be found and answered. *)
THEOREM NoHiddenRequest == Spec => []BlockedIsListed
<1>1. AInv => BlockedIsListed
  BY DEF AInv
<1> QED BY <1>1, Approvals, PTL

-----------------------------------------------------------------------------
(* The order of the turns.  Until close() cancels tasks, a task that is not *)
(* a chain was made, or has gone on, when all before it had finished; a     *)
(* chain has a task to wait for.                                            *)
Open == closing \in {"no", "scheduled"}

Unchained == Active \cup Finished \cup {"guard"}

NoCancel == \A i \in Turns : ~ turns[i].cancel

ChainHasPredecessor ==
    \A i \in Turns : turns[i].pc \in {"chain", "waiting"} => i > 1

AllBeforeFinished(i) == \A k \in Turns : k < i => turns[k].pc \in Finished

FinishedInOrder ==
    \A i \in Turns : turns[i].pc \in Unchained => AllBeforeFinished(i)

StatusTells == status = "running" <=> \E i \in Turns : turns[i].pc \in Active

OInv ==
    /\ registered => closing = "no"
    /\ Open => NoCancel /\ ChainHasPredecessor /\ FinishedInOrder /\ StatusTells

USE DEF Open

LEMMA OInvInit == Init => OInv
<1> SUFFICES ASSUME Init PROVE OInv
  OBVIOUS
<1>1. Turns = {}
  BY DEF Init, Turns
<1> QED BY <1>1 DEF Init, OInv, NoCancel, ChainHasPredecessor, FinishedInOrder, StatusTells

(* A turn may go on when all before it have finished, or to wait for one.   *)
LEMMA TurnInOrder ==
    ASSUME TInv, OInv, NEW i \in Turns, NEW p \in Pcs \ New,
           turns' = [turns EXCEPT ![i].pc = p] \/ (p = "attempt" /\ BeginAttempt(i)),
           turns[i].pc \notin Finished,
           UNCHANGED <<registered, closing>>,
           Open => \/ /\ AllBeforeFinished(i)
                      /\ p # "waiting"
                      /\ status' = IF p \in Active THEN "running" ELSE "idle"
                   \/ /\ p = "waiting"
                      /\ turns[i].pc = "chain"
                      /\ UNCHANGED status
    PROVE  OInv'
<1>1. CASE ~ Open
  BY <1>1 DEF OInv
<1>2. CASE Open
  <2>1. /\ Len(turns') = Len(turns)
        /\ \A j \in Turns : /\ turns'[j].pc = IF j = i THEN p ELSE turns[j].pc
                            /\ turns'[j].cancel = turns[j].cancel
    BY TurnMoves, AttemptBegun DEF TInv
  <2>2. Turns' = Turns
    BY <2>1 DEF Turns
  <2>3. NoCancel' /\ ChainHasPredecessor'
    BY <1>2, <2>1, <2>2 DEF OInv, NoCancel, ChainHasPredecessor, New, Pcs
  <2>4. \A j \in Turns : turns[j].pc \in Finished => turns'[j].pc \in Finished
    BY <2>1
  <2>5. FinishedInOrder'
    <3> SUFFICES ASSUME NEW j \in Turns, turns'[j].pc \in Unchained,
                        NEW k \in Turns, k < j
                 PROVE  turns'[k].pc \in Finished
      BY <2>2 DEF FinishedInOrder, AllBeforeFinished
    <3>1. CASE j = i
      <4>1. p # "waiting"
        BY <3>1, <2>1 DEF Unchained, Active, Finished
      <4> QED BY <4>1, <3>1, <1>2, <2>4 DEF AllBeforeFinished
    <3>2. CASE j # i
      <4>1. turns[j].pc \in Unchained
        BY <3>2, <2>1
      <4>2. turns[k].pc \in Finished
        BY <4>1, <1>2 DEF OInv, FinishedInOrder, AllBeforeFinished
      <4> QED BY <4>2, <2>4
    <3> QED BY <3>1, <3>2
  <2>6. StatusTells'
    <3>1. \A j \in Turns : (AllBeforeFinished(i) /\ j # i) => turns[j].pc \notin Active
      <4> SUFFICES ASSUME NEW j \in Turns, AllBeforeFinished(i), j # i, turns[j].pc \in Active
                   PROVE  FALSE
        OBVIOUS
      <4>1. i \in Int /\ j \in Int
        BY DEF Turns
      <4>2. turns[j].pc \notin Finished
        BY DEF Active, Finished
      <4>3. i < j
        BY <4>1, <4>2 DEF AllBeforeFinished
      <4>4. turns[i].pc \in Finished
        BY <4>3, <1>2 DEF OInv, FinishedInOrder, AllBeforeFinished, Unchained
      <4> QED BY <4>4
    <3>2. CASE p = "waiting"
      <4>1. turns[i].pc = "chain" /\ UNCHANGED status
        BY <3>2, <1>2
      <4>2. "chain" \notin Active /\ "waiting" \notin Active
        BY DEF Active
      <4>3. \A j \in Turns : turns'[j].pc \in Active <=> turns[j].pc \in Active
        BY <4>1, <4>2, <3>2, <2>1
      <4> QED BY <4>1, <4>3, <2>2, <1>2 DEF StatusTells, OInv
    <3>3. CASE p # "waiting"
      <4>1. \A j \in Turns : turns'[j].pc \in Active <=> (j = i /\ p \in Active)
        BY <3>3, <3>1, <2>1, <1>2
      <4>2. status' = "running" <=> p \in Active
        BY <3>3, <1>2
      <4> QED BY <4>1, <4>2, <2>2 DEF StatusTells
    <3> QED BY <3>2, <3>3
  <2> QED BY <2>3, <2>5, <2>6 DEF OInv
<1> QED BY <1>1, <1>2

(* Steps that leave the turns and the registry alone. *)
LEMMA OrderUnchanged ==
    ASSUME OInv, UNCHANGED <<turns, status, registered, closing>>
    PROVE  OInv'
BY DEF OInv, NoCancel, ChainHasPredecessor, FinishedInOrder, AllBeforeFinished,
       StatusTells, Turns

(* A turn that runs: those before it have finished. *)
LEMMA ActiveIsFirst ==
    ASSUME OInv, NEW i \in Turns, turns[i].pc \in Active
    PROVE  /\ turns[i].pc \notin Finished
           /\ Open => AllBeforeFinished(i) /\ status = "running"
BY DEF OInv, FinishedInOrder, Unchained, StatusTells, Active, Finished

(* A task that has not begun: none runs if those before it have finished.   *)
LEMMA NoneActive ==
    ASSUME TInv, OInv, Open, NEW i \in Turns, AllBeforeFinished(i),
           turns[i].pc \in New \cup {"waiting"}
    PROVE  status = "idle"
<1>1. \A j \in Turns : turns[j].pc \notin Active
  <2> SUFFICES ASSUME NEW j \in Turns, turns[j].pc \in Active PROVE FALSE
    OBVIOUS
  <2>1. i \in Int /\ j \in Int
    BY DEF Turns
  <2>2. turns[i].pc \notin Finished /\ turns[i].pc \notin Active
    BY DEF New, Finished, Active
  <2>3. turns[j].pc \notin Finished
    BY DEF Active, Finished
  <2>4. i < j
    BY <2>1, <2>2, <2>3 DEF AllBeforeFinished
  <2> QED BY <2>2, <2>4 DEF OInv, FinishedInOrder, AllBeforeFinished, Unchained
<1> QED BY <1>1 DEF OInv, StatusTells, TInv, TypeOK

(* A chain whose predecessor has finished is behind finished turns alone.   *)
LEMMA BehindFinished ==
    ASSUME TInv, OInv, Open, NEW i \in Turns, turns[i].pc \in {"chain", "waiting"},
           turns[i - 1].pc \in Finished
    PROVE  AllBeforeFinished(i)
<1>1. Turns \subseteq Int /\ Len(turns) \in Nat
  BY DEF Turns, TInv, TypeOK
<1>2. i > 1 /\ i - 1 \in Turns
  BY <1>1 DEF OInv, ChainHasPredecessor, Turns
<1>3. AllBeforeFinished(i - 1)
  BY <1>2 DEF OInv, FinishedInOrder, Unchained
<1> QED BY <1>1, <1>2, <1>3 DEF AllBeforeFinished

LEMMA OrderTurn ==
    ASSUME TInv, OInv, NEW i \in Turns,
           TurnStep(i) \/ TurnOutput(i) \/ TurnRaises(i)
    PROVE  OInv'
<1>0. /\ Finished \subseteq Pcs \ New /\ Active \subseteq Pcs \ New /\ "waiting" \in Pcs \ New
      /\ "waiting" \notin Finished /\ "waiting" \notin Active
      /\ New \cap Finished = {} /\ Active \cap Finished = {} /\ "attempt" \in Active
  BY DEF Pcs, New, Active, Finished
<1>1. CASE TaskStarts(i) \/ ChainResumes(i)
  <2>1. /\ UNCHANGED <<registered, closing>>
        /\ turns[i].pc \in New \cup {"waiting"}
        /\ turns[i].pc \notin Finished
    BY <1>0, <1>1 DEF TaskStarts, ChainResumes, closeVars
  <2>2. Open => ~ turns[i].cancel
    BY DEF OInv, NoCancel
  <2>3. CASE NeverBegins(i)
    <3>1. Open => AllBeforeFinished(i)
      <4>1. CASE turns[i].cancel
        BY <4>1, <2>2
      <4>2. CASE ~ turns[i].cancel /\ turns[i].pc \in {"chain", "waiting"}
                 /\ turns[i - 1].pc \in Finished
        BY <4>2, BehindFinished
      <4>3. CASE ~ turns[i].cancel
                 /\ ~ (turns[i].pc \in {"chain", "waiting"} /\ turns[i - 1].pc \in Finished)
        <5>1. turns'[i].pc = "cancelled"
          <6>1. "cancelled" \in Pcs /\ turns' = [turns EXCEPT ![i].pc = "cancelled"] /\ TypeOK
            BY <2>3 DEF NeverBegins, Pcs, Finished, TInv
          <6>2. \A j \in Turns : turns'[j].pc = IF j = i THEN "cancelled" ELSE turns[j].pc
            BY <6>1, TurnMoves
          <6> QED BY <6>2
        <5>2. CASE TaskStarts(i)
          BY <5>1, <5>2, <4>3, <2>3, TurnMoves, AttemptBegun
          DEF TaskStarts, TInv, Pcs, Finished
        <5>3. CASE ChainResumes(i)
          BY <5>3, <4>3 DEF ChainResumes
        <5> QED BY <1>1, <5>2, <5>3
      <4> QED BY <4>1, <4>2, <4>3
    <3>2. Open => status' = "idle"
      BY <2>1, <2>3, <3>1, NoneActive DEF NeverBegins
    <3>3. "cancelled" \in Pcs \ New /\ "cancelled" # "waiting" /\ "cancelled" \notin Active
      BY DEF Pcs, New, Finished, Active
    <3> QED BY <2>1, <2>3, <3>1, <3>2, <3>3, TurnInOrder DEF NeverBegins
  <2>4. CASE /\ turns[i].pc = "chain"
             /\ turns' = [turns EXCEPT ![i].pc = "waiting"]
             /\ UNCHANGED <<status, emitted, client, stopped>>
    BY <1>0, <2>1, <2>4, TurnInOrder
  <2>5. CASE /\ BeginAttempt(i)
             /\ turns[i].pc \in {"chain", "waiting"} => turns[i - 1].pc \in Finished
    <3>1. Open => AllBeforeFinished(i)
      <4>1. CASE turns[i].pc = "guard"
        BY <4>1 DEF OInv, FinishedInOrder, Unchained
      <4>2. CASE turns[i].pc # "guard"
        BY <4>2, <2>1, <2>5, BehindFinished DEF New
      <4> QED BY <4>1, <4>2
    <3>2. status' = "running"
      BY <2>5 DEF BeginAttempt
    <3> QED BY <1>0, <2>1, <2>5, <3>1, <3>2, TurnInOrder
  <2>6. CASE TaskStarts(i)
    <3>1. turns[i].pc # "waiting" /\ "done" \in Finished
      BY <2>6 DEF TaskStarts, New, Finished
    <3> QED BY <2>3, <2>4, <2>5, <2>6, <3>1 DEF TaskStarts
  <2>7. CASE ChainResumes(i)
    BY <2>3, <2>5, <2>7 DEF ChainResumes, Finished
  <2> QED BY <1>1, <2>6, <2>7
<1>2. CASE TurnReturns(i) \/ ResetAfterError(i) \/ TurnCancelled(i)
  <2>1. turns[i].pc \in Active /\ UNCHANGED <<registered, closing>>
    BY <1>2 DEF TurnReturns, ResetAfterError, TurnCancelled, Running, Active, closeVars
  <2>2. PICK how \in Finished : Finish(i, how)
    BY <1>2 DEF TurnReturns, ResetAfterError, TurnCancelled, Finished
  <2>3. status' = "idle" /\ turns' = [turns EXCEPT ![i].pc = how]
    BY <2>2 DEF Finish
  <2>4. how \in Pcs \ New /\ how # "waiting" /\ how \notin Active
    BY <1>0
  <2>5. turns[i].pc \notin Finished /\ (Open => AllBeforeFinished(i))
    BY <2>1, ActiveIsFirst
  <2> QED BY <2>1, <2>3, <2>4, <2>5, TurnInOrder
<1>3. CASE ResetForRetry(i) \/ TurnRaises(i)
  <2>1. /\ turns[i].pc \in Active
        /\ UNCHANGED <<registered, closing, status>>
        /\ \E p \in Active : turns' = [turns EXCEPT ![i].pc = p]
    BY <1>3 DEF ResetForRetry, TurnRaises, Running, Active, closeVars
  <2> QED BY <1>0, <2>1, ActiveIsFirst, TurnInOrder
<1>4. CASE Retry(i)
  <2>1. turns[i].pc \in Active /\ UNCHANGED <<registered, closing>>
        /\ BeginAttempt(i) /\ status' = "running"
    BY <1>4 DEF Retry, BeginAttempt, Running, Active, closeVars
  <2> QED BY <1>0, <2>1, ActiveIsFirst, TurnInOrder
<1>5. CASE ErrorReported(i)
  <2>1. turns[i].pc \in Active /\ UNCHANGED <<registered, closing>>
    BY <1>5 DEF ErrorReported, Running, Active, closeVars
  <2>2. CASE turns' = [turns EXCEPT ![i].pc = "reset"] /\ UNCHANGED <<status, stopped>>
    <3>1. "reset" \in Active
      BY DEF Active
    <3> QED BY <1>0, <2>1, <2>2, <3>1, ActiveIsFirst, TurnInOrder
  <2>3. CASE Finish(i, "done")
    <3>1. status' = "idle" /\ turns' = [turns EXCEPT ![i].pc = "done"] /\ "done" \in Finished
      BY <2>3 DEF Finish, Finished
    <3> QED BY <1>0, <2>1, <3>1, ActiveIsFirst, TurnInOrder
  <2> QED BY <1>5, <2>2, <2>3 DEF ErrorReported
<1>6. CASE TurnOutput(i)
  BY <1>6, OrderUnchanged DEF TurnOutput, closeVars
<1> QED BY <1>1, <1>2, <1>3, <1>4, <1>5, <1>6 DEF TurnStep

LEMMA OrderSpawn ==
    ASSUME TInv, OInv, NEW isEdit \in BOOLEAN, Spawn(isEdit),
           UNCHANGED <<status, registered, closing>>
    PROVE  OInv'
<1>1. CASE ~ Open
  BY <1>1 DEF OInv
<1>2. CASE Open
  <2> DEFINE n == Len(turns)
  <2>1. /\ n \in Nat
        /\ Len(turns') = n + 1
        /\ \A j \in Turns : turns'[j] = turns[j]
        /\ turns'[n + 1].pc = IF turns # <<>> /\ LastTurn.pc \notin Finished
                              THEN "chain" ELSE "guard"
        /\ ~ turns'[n + 1].cancel
    BY Spawned DEF TInv, TypeOK
  <2>2. Turns' = Turns \cup {n + 1} /\ \A j \in Turns : j \in Int /\ j <= n
    BY <2>1 DEF Turns
  <2>3. NoCancel'
    BY <1>2, <2>1, <2>2 DEF OInv, NoCancel
  <2>4. ChainHasPredecessor'
    <3>1. turns # <<>> => n > 0
      BY <2>1 DEF TInv, TypeOK
    <3>2. turns'[n + 1].pc \in {"chain", "waiting"} => n + 1 > 1
      BY <2>1, <3>1
    <3> QED BY <1>2, <2>1, <2>2, <3>2 DEF OInv, ChainHasPredecessor
  <2>5. FinishedInOrder'
    <3> SUFFICES ASSUME NEW j \in Turns', turns'[j].pc \in Unchained,
                        NEW k \in Turns', k < j
                 PROVE  turns'[k].pc \in Finished
      BY DEF FinishedInOrder, AllBeforeFinished
    <3>1. CASE j \in Turns
      <4>1. k \in Turns
        BY <3>1, <2>1, <2>2
      <4> QED BY <3>1, <4>1, <1>2, <2>1 DEF OInv, FinishedInOrder, AllBeforeFinished
    <3>2. CASE j = n + 1
      <4>1. k \in Turns
        BY <3>2, <2>1, <2>2
      <4>2. turns'[j].pc # "chain"
        BY DEF Unchained, Active, Finished
      <4>3. turns # <<>> /\ turns[n].pc \in Finished
        <5>1. turns # <<>>
          BY <4>1 DEF Turns
        <5> QED BY <5>1, <3>2, <4>2, <2>1 DEF LastTurn
      <4>4. n \in Turns
        BY <4>1, <2>1, <2>2 DEF Turns
      <4>5. turns[k].pc \in Finished
        <5>1. AllBeforeFinished(n)
          BY <4>3, <4>4, <1>2 DEF OInv, FinishedInOrder, Unchained
        <5> QED BY <5>1, <4>1, <4>3, <2>1, <2>2 DEF AllBeforeFinished
      <4> QED BY <4>1, <4>5, <2>1
    <3> QED BY <3>1, <3>2, <2>2
  <2>6. StatusTells'
    <3>1. turns'[n + 1].pc \notin Active
      BY <2>1 DEF Active
    <3> QED BY <3>1, <1>2, <2>1, <2>2 DEF OInv, StatusTells
  <2> QED BY <1>2, <2>3, <2>4, <2>5, <2>6 DEF OInv
<1> QED BY <1>1, <1>2

LEMMA OInvNext == TInv /\ OInv /\ [Next]_vars => OInv'
<1> SUFFICES ASSUME TInv, OInv, [Next]_vars PROVE OInv'
  OBVIOUS
<1>1. CASE UNCHANGED vars
  BY <1>1, OrderUnchanged DEF vars, runVars, closeVars
<1>2. ASSUME NEW i \in Turns, TurnStep(i) \/ TurnOutput(i) \/ TurnRaises(i)
      PROVE  OInv'
  BY <1>2, OrderTurn
<1>3. ASSUME NEW a \in Asks,
             \/ AskStep(a) \/ AskRaised(a)
             \/ \E decision \in {"allow", "deny", "other"} : Resolve(a, decision)
      PROVE  OInv'
  BY <1>3, OrderUnchanged
  DEF AskStep, AskRegistered, AskReturns, AskTimesOut, AskRaised, Resolve, runVars, closeVars
<1>4. CASE Start \/ Send \/ EditSpawns
  BY <1>4, OrderSpawn DEF Start, Send, EditSpawns, runVars, closeVars
<1>5. CASE TellDenied \/ InterruptProvider \/ Stopped \/ Edit \/ Stop
  BY <1>5, OrderUnchanged
  DEF TellDenied, InterruptProvider, Stopped, Edit, Stop, runVars, closeVars
<1>6. CASE DuplicateFound
  <2>1. Open /\ UNCHANGED <<turns, status>> /\ registered' = FALSE
    BY <1>6 DEF DuplicateFound, OInv
  <2> QED BY <2>1 DEF OInv, NoCancel, ChainHasPredecessor, FinishedInOrder,
             AllBeforeFinished, StatusTells, Turns
<1>7. CASE Close \/ CloseAwaited \/ Closed
  <2>1. closing' \in {"cancelling", "aclosing", "closed"} /\ registered' = FALSE
    BY <1>7 DEF Close, CloseAwaited, Closed, OInv
  <2> QED BY <2>1 DEF OInv
<1> QED BY <1>1, <1>2, <1>3, <1>4, <1>5, <1>6, <1>7 DEF Next, CommandStep

(* session.py's chain of tasks runs the turns one at a time and in order,   *)
(* whatever is retried, fails or is stopped, and status tells of it, for    *)
(* any number of turns and retries.                                         *)
THEOREM TurnsInOrder == Spec => []RunsInOrder
<1>1. TInv /\ OInv => RunsInOrder
  <2> SUFFICES ASSUME TInv, OInv, Open PROVE RunsInOrder
    BY DEF RunsInOrder
  <2>1. FinishedInOrder /\ StatusTells
    BY DEF OInv
  <2> QED BY <2>1 DEF RunsInOrder, FinishedInOrder, AllBeforeFinished, StatusTells, Unchained
<1>2. Init => TInv /\ OInv
  BY TInvInit, OInvInit
<1>3. TInv /\ OInv /\ [Next]_vars => (TInv /\ OInv)'
  BY TInvNext, OInvNext
<1> QED BY <1>1, <1>2, <1>3, PTL DEF Spec

-----------------------------------------------------------------------------
(* The close of a session.  A clean one finds the unfinished turns waiting  *)
(* in a row for the one that runs, so the cancel of the last reaches all.   *)
AllBeforeBegun(i) == \A k \in Turns : k < i => turns[k].pc \notin New

StartIsFirst == cmd.pc = "start" => turns = <<>> /\ closing = "no"

ScheduledHasTurn == closing = "scheduled" => turns # <<>>

WaitsBehindBegun == \A i \in Turns : turns[i].pc = "waiting" => AllBeforeBegun(i)

OpenIsClean == Open => clean

CleanCancels ==
    (~ Open /\ clean) =>
        /\ cmd.pc # "edit"
        /\ \A i \in Turns : turns[i].pc \notin Finished => turns[i].cancel

CleanEnds ==
    (closing \in {"aclosing", "closed"} /\ clean) => \A i \in Turns : turns[i].pc \in Finished

CInv ==
    /\ StartIsFirst
    /\ ScheduledHasTurn
    /\ WaitsBehindBegun
    /\ OpenIsClean
    /\ CleanCancels
    /\ CleanEnds
    /\ CleanCloseIsFinal

LEMMA CInvInit == Init => CInv
<1> SUFFICES ASSUME Init PROVE CInv
  OBVIOUS
<1>1. Turns = {}
  BY DEF Init, Turns
<1> QED BY <1>1 DEF Init, CInv, StartIsFirst, ScheduledHasTurn, WaitsBehindBegun, OpenIsClean,
                    CleanCancels, CleanEnds, CleanCloseIsFinal

(* What the step of a turn does to it: it goes on to pc p. *)
GoesOn(i, p) ==
    /\ Len(turns') = Len(turns) /\ Turns' = Turns
    /\ \A j \in Turns : /\ turns'[j].pc = IF j = i THEN p ELSE turns[j].pc
                        /\ turns'[j].cancel = turns[j].cancel

LEMMA Moving ==
    ASSUME TInv, NEW i \in Turns, NEW p \in Pcs, turns' = [turns EXCEPT ![i].pc = p]
    PROVE  GoesOn(i, p) /\ \A j \in Turns : turns'[j].attempt = turns[j].attempt
BY TurnMoves DEF TInv, GoesOn, Turns

LEMMA Beginning ==
    ASSUME TInv, NEW i \in Turns, BeginAttempt(i)
    PROVE  /\ GoesOn(i, "attempt") /\ ~ emitted'
           /\ \A j \in Turns : j # i => turns'[j].attempt = turns[j].attempt
<1>1. TypeOK /\ ~ emitted'
  BY DEF TInv, BeginAttempt
<1> QED BY <1>1, AttemptBegun DEF GoesOn, Turns

LEMMA TurnGoesOn ==
    ASSUME TInv, NEW i \in Turns, TurnStep(i) \/ TurnOutput(i) \/ TurnRaises(i)
    PROVE  /\ \E p \in Pcs \ New :
                /\ GoesOn(i, p)
                /\ p = "waiting" => AllBeforeBegun(i)
                /\ turns[i].cancel => p \in Finished
           /\ turns[i].pc \notin Finished
           /\ UNCHANGED <<registered, closing, clean, cmd>>
<1> DEFINE Goal == \E p \in Pcs \ New :
                      /\ GoesOn(i, p)
                      /\ p = "waiting" => AllBeforeBegun(i)
                      /\ turns[i].cancel => p \in Finished
<1>0. /\ Finished \subseteq Pcs \ New /\ Active \subseteq Pcs \ New /\ "waiting" \in Pcs \ New
      /\ "waiting" \notin Finished /\ "waiting" \notin Active /\ New \cap Finished = {}
      /\ Active \cap Finished = {} /\ "attempt" \in Active /\ "cancelled" \in Finished
  BY DEF Pcs, New, Active, Finished
<1>1. ASSUME NEW p \in Finished, turns' = [turns EXCEPT ![i].pc = p] PROVE Goal
  BY <1>0, <1>1, Moving
<1>2. ASSUME NEW p \in Active, ~ turns[i].cancel, turns' = [turns EXCEPT ![i].pc = p] PROVE Goal
  BY <1>0, <1>2, Moving
<1>3. ASSUME ~ turns[i].cancel, BeginAttempt(i) PROVE Goal
  BY <1>0, <1>3, Beginning
<1> HIDE DEF Goal
<1>4. UNCHANGED <<registered, closing, clean, cmd>>
  BY DEF TurnStep, TaskStarts, ChainResumes, TurnReturns, ResetForRetry, Retry, ErrorReported,
         ResetAfterError, TurnCancelled, TurnOutput, TurnRaises, closeVars
<1>5. turns[i].pc \notin Finished
  BY <1>0 DEF TurnStep, TaskStarts, ChainResumes, TurnReturns, ResetForRetry, Retry, ErrorReported,
         ResetAfterError, TurnCancelled, TurnOutput, TurnRaises, Running, Active, Finished
<1>6. ASSUME TaskStarts(i) PROVE Goal
  <2>1. CASE NeverBegins(i)
    BY <1>0, <1>1, <2>1 DEF NeverBegins
  <2>2. CASE ~ turns[i].cancel /\ turns' = [turns EXCEPT ![i].pc = "waiting"]
    <3>1. GoesOn(i, "waiting")
      BY <1>0, <2>2, Moving
    <3>2. AllBeforeBegun(i)
      BY <1>6 DEF TaskStarts, AllBeforeBegun, Turns
    <3> QED BY <1>0, <2>2, <3>1, <3>2 DEF Goal
  <2>3. CASE ~ turns[i].cancel /\ BeginAttempt(i)
    BY <1>3, <2>3
  <2> QED BY <1>6, <2>1, <2>2, <2>3 DEF TaskStarts
<1>7. ASSUME ChainResumes(i) PROVE Goal
  <2>1. CASE NeverBegins(i)
    BY <1>0, <1>1, <2>1 DEF NeverBegins
  <2> QED BY <1>3, <1>7, <2>1 DEF ChainResumes
<1>8. ASSUME TurnReturns(i) \/ ResetAfterError(i) \/ TurnCancelled(i) PROVE Goal
  <2>1. PICK how \in Finished : Finish(i, how)
    BY <1>8 DEF TurnReturns, ResetAfterError, TurnCancelled, Finished
  <2> QED BY <1>1, <2>1 DEF Finish
<1>9. ASSUME ResetForRetry(i) \/ TurnRaises(i) PROVE Goal
  <2>1. ~ turns[i].cancel /\ \E p \in Active : turns' = [turns EXCEPT ![i].pc = p]
    BY <1>9 DEF ResetForRetry, TurnRaises, Running, Active
  <2> QED BY <1>2, <2>1
<1>10. ASSUME Retry(i) PROVE Goal
  BY <1>3, <1>10 DEF Retry, Running
<1>11. ASSUME ErrorReported(i) PROVE Goal
  <2>1. ~ turns[i].cancel
    BY <1>11 DEF ErrorReported, Running
  <2>2. CASE turns' = [turns EXCEPT ![i].pc = "reset"]
    BY <1>2, <2>1, <2>2 DEF Active
  <2>3. CASE Finish(i, "done")
    BY <1>1, <2>3 DEF Finish, Finished
  <2> QED BY <1>11, <2>2, <2>3 DEF ErrorReported
<1>12. ASSUME TurnOutput(i) PROVE Goal
  <2>1. ~ turns[i].cancel /\ turns[i].pc = "attempt" /\ turns' = turns
    BY <1>12 DEF TurnOutput, Running
  <2>2. GoesOn(i, "attempt")
    BY <2>1 DEF GoesOn, Turns
  <2> QED BY <1>0, <2>1, <2>2 DEF Goal
<1> QED BY <1>4, <1>5, <1>6, <1>7, <1>8, <1>9, <1>10, <1>11, <1>12 DEF TurnStep, Goal

LEMMA CloseTurn ==
    ASSUME TInv, CInv, NEW i \in Turns, TurnStep(i) \/ TurnOutput(i) \/ TurnRaises(i)
    PROVE  CInv'
<1>1. PICK p \in Pcs \ New :
        /\ GoesOn(i, p)
        /\ p = "waiting" => AllBeforeBegun(i)
        /\ turns[i].cancel => p \in Finished
  BY TurnGoesOn
<1>2. turns[i].pc \notin Finished /\ UNCHANGED <<registered, closing, clean, cmd>>
  BY TurnGoesOn
<1>3. turns # <<>> /\ turns' # <<>>
  <2>1. Len(turns) \in Nat /\ i \in 1 .. Len(turns) /\ Len(turns') = Len(turns)
    BY <1>1 DEF Turns, TInv, TypeOK, GoesOn
  <2> QED BY <2>1
<1>4. StartIsFirst' /\ ScheduledHasTurn' /\ OpenIsClean'
  BY <1>2, <1>3 DEF CInv, StartIsFirst, ScheduledHasTurn, OpenIsClean
<1>5. WaitsBehindBegun'
  BY <1>1 DEF CInv, WaitsBehindBegun, AllBeforeBegun, GoesOn
<1>6. CleanCancels' /\ CleanEnds' /\ CleanCloseIsFinal'
  BY <1>1, <1>2 DEF CInv, CleanCancels, CleanEnds, CleanCloseIsFinal, GoesOn
<1> QED BY <1>4, <1>5, <1>6 DEF CInv

LEMMA CloseSpawn ==
    ASSUME TInv, OInv, CInv, NEW isEdit \in BOOLEAN, Spawn(isEdit), cmd' = Idle,
           \/ cmd.pc \in {"start", "edit"}
           \/ registered,
           UNCHANGED <<runVars, askVars, closeVars>>
    PROVE  CInv'
<1> DEFINE n == Len(turns)
<1>1. /\ n \in Nat
      /\ Len(turns') = n + 1
      /\ \A j \in Turns : turns'[j] = turns[j]
      /\ turns'[n + 1].pc \in New
      /\ ~ turns'[n + 1].cancel
  BY Spawned DEF TInv, TypeOK, New
<1>2. Turns' = Turns \cup {n + 1} /\ \A j \in Turns : j \in Int /\ j <= n
  BY <1>1 DEF Turns
<1>3. ~ Open => ~ clean
  BY DEF CInv, OInv, CleanCancels, StartIsFirst
<1>4. turns' # <<>>
  BY <1>1
<1>5. StartIsFirst' /\ ScheduledHasTurn' /\ OpenIsClean'
  BY <1>4 DEF CInv, StartIsFirst, ScheduledHasTurn, OpenIsClean, Idle, closeVars
<1>6. WaitsBehindBegun'
  BY <1>1, <1>2 DEF CInv, WaitsBehindBegun, AllBeforeBegun, New
<1>7. CleanCancels' /\ CleanEnds' /\ CleanCloseIsFinal'
  BY <1>3 DEF CleanCancels, CleanEnds, CleanCloseIsFinal, closeVars
<1> QED BY <1>5, <1>6, <1>7 DEF CInv

(* Steps that leave the turns, the client and the close alone.              *)
LEMMA CloseAside ==
    ASSUME CInv, UNCHANGED <<turns, client, registered, closing, clean>>,
           cmd'.pc \in {cmd.pc, "idle", "deny", "stop"} \/ (cmd'.pc = "edit" /\ Open),
           closing = "closed" /\ clean => Outstanding' \subseteq Outstanding
    PROVE  CInv'
BY DEF CInv, StartIsFirst, ScheduledHasTurn, WaitsBehindBegun, AllBeforeBegun, OpenIsClean,
       CleanCancels, CleanEnds, CleanCloseIsFinal, Turns

(* The requests that are raised and not returned yet. *)
LEMMA AsksKept ==
    ASSUME TInv, \A a \in Asks : asks'[a].pc \in {"raising", "waiting"} => a \in Outstanding
    PROVE  Outstanding' \subseteq Outstanding
BY DEF Outstanding

LEMMA CloseAsk ==
    ASSUME TInv, CInv, NEW a \in Asks,
           \/ AskStep(a) \/ AskRaised(a)
           \/ \E decision \in {"allow", "deny", "other"} : Resolve(a, decision)
    PROVE  CInv'
<1>1. UNCHANGED <<turns, client, registered, closing, clean, cmd>>
  BY DEF AskStep, AskRegistered, AskReturns, AskTimesOut, AskRaised, Resolve, runVars, closeVars
<1>2. CASE AskStep(a) \/ \E decision \in {"allow", "deny", "other"} : Resolve(a, decision)
  <2>1. Outstanding' \subseteq Outstanding
    BY <1>2 DEF Outstanding, AskStep, AskRegistered, AskReturns, AskTimesOut, Resolve, Settled,
                TInv, TypeOK, Ask
  <2> QED BY <1>1, <2>1, CloseAside
<1>3. CASE AskRaised(a)
  <2>1. ~ (closing = "closed" /\ clean)
    BY <1>3 DEF AskRaised, CInv, CleanEnds, Finished
  <2> QED BY <1>1, <2>1, CloseAside
<1> QED BY <1>2, <1>3

LEMMA CloseCommand ==
    ASSUME TInv, OInv, CInv, TellDenied \/ InterruptProvider \/ Stopped \/ Edit \/ Stop
    PROVE  CInv'
<1>1. UNCHANGED <<turns, client, registered, closing, clean>>
  BY DEF TellDenied, InterruptProvider, Stopped, Edit, Stop, runVars, closeVars
<1>2. cmd'.pc \in {"idle", "deny", "stop"} \/ (cmd'.pc = "edit" /\ Open)
  <2>1. TellDenied => cmd'.pc = "deny"
    BY DEF TellDenied, TInv, TypeOK, Cmd
  <2> QED BY <2>1 DEF InterruptProvider, Stopped, Edit, Stop, Idle, OInv
<1>3. Outstanding' \subseteq Outstanding
  BY DEF Outstanding, TellDenied, InterruptProvider, Stopped, Edit, Stop, CancelAll, askVars,
         TInv, TypeOK, Ask
<1> QED BY <1>1, <1>2, <1>3, CloseAside

(* The cancel of a clean close reaches every turn that has not finished.    *)
LEMMA CancelReachesAll ==
    ASSUME TInv, OInv, CInv, Open, turns # <<>>, LastTurn.pc # "chain",
           NEW i \in Turns, turns[i].pc \notin Finished
    PROVE  CancelReaches(i)
<1> DEFINE n == Len(turns)
<1>1. n \in Nat /\ n \in Turns /\ \A k \in Turns : k \in Int /\ k <= n
  BY DEF TInv, TypeOK, Turns
<1>2. ASSUME NEW k \in Turns, i < k PROVE turns[k].pc \in {"chain", "waiting"}
  <2>1. turns[k].pc \notin Unchained
    BY <1>2 DEF OInv, FinishedInOrder, AllBeforeFinished
  <2>2. turns[k].pc \in Pcs
    <3>1. turns[k] \in Turn
      BY DEF TInv, TypeOK, Turns
    <3> QED BY <3>1 DEF Turn, Pcs
  <2> QED BY <2>1, <2>2 DEF Pcs, Unchained, New
<1>3. ASSUME NEW k \in Turns, i < k PROVE turns[k].pc = "waiting"
  <2>1. turns[n].pc = "waiting"
    BY <1>1, <1>2, <1>3 DEF LastTurn
  <2>2. turns[k].pc # "chain"
    BY <1>1, <2>1 DEF CInv, WaitsBehindBegun, AllBeforeBegun, LastTurn, New
  <2> QED BY <1>2, <1>3, <2>2
<1>4. ASSUME NEW k \in i + 1 .. n PROVE turns[k].pc = "waiting" /\ turns[k - 1].pc \notin Finished
  <2>1. k \in Turns /\ i < k /\ k - 1 \in Turns /\ (k - 1 = i \/ i < k - 1)
    BY <1>1 DEF Turns
  <2> QED BY <1>3, <2>1 DEF Finished
<1> QED BY <1>4 DEF CancelReaches

LEMMA CloseBegins == ASSUME TInv, OInv, CInv, Close PROVE CInv'
<1>1. Open /\ turns # <<>> /\ registered' = FALSE
  BY DEF Close, OInv, CInv, ScheduledHasTurn
<1>2. /\ closing' \in {"cancelling", "aclosing"}
      /\ clean' => LastTurn.pc # "chain" /\ cmd.pc # "edit"
      /\ UNCHANGED cmd
      /\ cmd.pc # "start"
  BY DEF Close, CInv, StartIsFirst, Idle
<1>3. StartIsFirst' /\ ScheduledHasTurn' /\ OpenIsClean' /\ CleanCloseIsFinal'
  BY <1>2 DEF StartIsFirst, ScheduledHasTurn, OpenIsClean, CleanCloseIsFinal
<1>4. Len(turns) \in Nat /\ Len(turns) \in Turns
  BY <1>1 DEF TInv, TypeOK, Turns
<1>5. CASE LastTurn.pc \in Finished /\ closing' = "aclosing" /\ UNCHANGED turns
  <2>1. \A i \in Turns : turns[i].pc \in Finished
    BY <1>1, <1>4, <1>5 DEF OInv, FinishedInOrder, AllBeforeFinished, Unchained, LastTurn, Turns
  <2>2. CleanCancels' /\ CleanEnds' /\ WaitsBehindBegun'
    BY <1>2, <1>5, <2>1 DEF CleanCancels, CleanEnds, WaitsBehindBegun, AllBeforeBegun, Turns, CInv
  <2> QED BY <1>3, <2>2 DEF CInv
<1>6. CASE /\ LastTurn.pc \notin Finished
           /\ closing' = "cancelling"
           /\ turns' = [i \in Turns |-> IF CancelReaches(i) /\ turns[i].pc \notin Finished
                                        THEN [turns[i] EXCEPT !.cancel = TRUE] ELSE turns[i]]
  <2> DEFINE C == {i \in Turns : CancelReaches(i) /\ turns[i].pc \notin Finished}
  <2>1. turns' = [i \in Turns |-> IF i \in C THEN [turns[i] EXCEPT !.cancel = TRUE] ELSE turns[i]]
    BY <1>6, Zenon
  <2>2. /\ Len(turns') = Len(turns) /\ Turns' = Turns
        /\ \A j \in Turns : turns'[j].pc = turns[j].pc
    BY <2>1, CancelRequested DEF TInv, Turns
  <2>3. \A j \in C : turns'[j].cancel
    <3>1. \A j \in C : turns'[j] = [turns[j] EXCEPT !.cancel = TRUE] /\ turns[j] \in Turn
      BY <2>1 DEF TInv, TypeOK, Turns
    <3> HIDE DEF C
    <3> QED BY <3>1 DEF Turn
  <2>4. WaitsBehindBegun'
    BY <2>2 DEF WaitsBehindBegun, AllBeforeBegun, CInv
  <2>5. clean' => \A j \in Turns : turns[j].pc \notin Finished => j \in C
    BY <1>1, <1>2, CancelReachesAll
  <2>6. CleanCancels' /\ CleanEnds'
    <3> HIDE DEF C
    <3> QED BY <1>2, <1>6, <2>2, <2>3, <2>5 DEF CleanCancels, CleanEnds
  <2> QED BY <1>3, <2>4, <2>6 DEF CInv
<1>7. \/ LastTurn.pc \in Finished /\ closing' = "aclosing" /\ UNCHANGED turns
      \/ /\ LastTurn.pc \notin Finished
         /\ closing' = "cancelling"
         /\ turns' = [i \in Turns |-> IF CancelReaches(i) /\ turns[i].pc \notin Finished
                                      THEN [turns[i] EXCEPT !.cancel = TRUE] ELSE turns[i]]
  BY Zenon DEF Close
<1> QED BY <1>5, <1>6, <1>7

LEMMA CInvNext == TInv /\ OInv /\ CInv /\ [Next]_vars => CInv'
<1> SUFFICES ASSUME TInv, OInv, CInv, [Next]_vars PROVE CInv'
  OBVIOUS
<1>1. CASE UNCHANGED vars
  <2>1. Outstanding' = Outstanding
    BY <1>1 DEF vars, askVars, Outstanding
  <2> QED BY <1>1, <2>1, CloseAside DEF vars, runVars, closeVars
<1>2. ASSUME NEW i \in Turns, TurnStep(i) \/ TurnOutput(i) \/ TurnRaises(i) PROVE CInv'
  BY <1>2, CloseTurn
<1>3. ASSUME NEW a \in Asks,
             \/ AskStep(a) \/ AskRaised(a)
             \/ \E decision \in {"allow", "deny", "other"} : Resolve(a, decision)
      PROVE  CInv'
  BY <1>3, CloseAsk
<1>4. CASE Start \/ Send \/ EditSpawns
  <2>1. /\ cmd' = Idle /\ UNCHANGED <<runVars, askVars, closeVars>>
        /\ cmd.pc \in {"start", "edit"} \/ registered
    BY <1>4 DEF Start, Send, EditSpawns
  <2>2. \E isEdit \in BOOLEAN : Spawn(isEdit)
    BY <1>4 DEF Start, Send, EditSpawns
  <2> QED BY <2>1, <2>2, CloseSpawn
<1>5. CASE TellDenied \/ InterruptProvider \/ Stopped \/ Edit \/ Stop
  BY <1>5, CloseCommand
<1>6. CASE DuplicateFound
  <2>1. Open /\ closing' = "scheduled" /\ registered' = FALSE /\ UNCHANGED <<turns, cmd, clean>>
    BY <1>6 DEF DuplicateFound, OInv
  <2>2. turns # <<>>
    BY <1>6 DEF DuplicateFound, Turns, TInv, TypeOK
  <2> QED BY <2>1, <2>2 DEF CInv, StartIsFirst, ScheduledHasTurn, WaitsBehindBegun, AllBeforeBegun,
               OpenIsClean, CleanCancels, CleanEnds, CleanCloseIsFinal, Turns
<1>7. CASE Close
  BY <1>7, CloseBegins
<1>8. CASE CloseAwaited
  BY <1>8 DEF CloseAwaited, CInv, StartIsFirst, ScheduledHasTurn, WaitsBehindBegun, AllBeforeBegun,
              OpenIsClean, CleanCancels, CleanEnds, CleanCloseIsFinal, Turns
<1>9. CASE Closed
  <2>1. ~ client' /\ Outstanding' = {} /\ closing' = "closed"
    BY <1>9 DEF Closed, ProviderCloses, Outstanding, TInv, TypeOK, Ask
  <2> QED BY <1>9, <2>1 DEF Closed, CInv, StartIsFirst, ScheduledHasTurn, WaitsBehindBegun,
               AllBeforeBegun, OpenIsClean, CleanCancels, CleanEnds, CleanCloseIsFinal, Turns
<1> QED BY <1>1, <1>2, <1>3, <1>4, <1>5, <1>6, <1>7, <1>8, <1>9 DEF Next, CommandStep

LEMMA Closing == Spec => [](TInv /\ OInv /\ CInv)
<1>1. Init => TInv /\ OInv /\ CInv
  BY TInvInit, OInvInit, CInvInit
<1>2. TInv /\ OInv /\ CInv /\ [Next]_vars => (TInv /\ OInv /\ CInv)'
  BY TInvNext, OInvNext, CInvNext
<1> QED BY <1>1, <1>2, PTL DEF Spec

(* close() ends every turn, leaves no client and no callback, for any       *)
(* number of turns in any state, if it found no chain still to start and no *)
(* edit under way.                                                          *)
THEOREM CleanCloseEnds == Spec => []CleanCloseIsFinal
<1>1. CInv => CleanCloseIsFinal
  BY DEF CInv
<1> QED BY <1>1, Closing, PTL

-----------------------------------------------------------------------------
(* What a turn put out.  _turn_emitted is one flag for all turns, but the   *)
(* turns run one at a time; while it is off, the turn that runs has put out *)
(* nothing.                                                                 *)
Silent == New \cup {"waiting", "retry", "backoff"}

OutputsOfTurns == \A p \in outputs : p.turn \in Turns

SilentBefore == \A p \in outputs : turns[p.turn].pc \notin Silent

FlagTells ==
    \A p \in outputs :
        turns[p.turn].pc = "attempt" => emitted /\ p.attempt = turns[p.turn].attempt

RInv ==
    /\ OutputsOfTurns
    /\ clean => SilentBefore /\ FlagTells
    /\ NoReplayAfterOutput

LEMMA RInvInit == Init => RInv
BY DEF Init, RInv, OutputsOfTurns, SilentBefore, FlagTells, NoReplayAfterOutput

(* A step that puts out nothing, and at most turns the flag on. *)
LEMMA QuietStep ==
    ASSUME RInv, UNCHANGED outputs, clean' => clean, emitted => emitted',
           Turns \subseteq Turns',
           \A i \in Turns : /\ turns'[i].pc \in Silent => turns[i].pc \in Silent
                            /\ turns'[i].pc = "attempt" =>
                                  /\ turns[i].pc = "attempt"
                                  /\ turns'[i].attempt = turns[i].attempt
    PROVE  RInv'
<1>1. OutputsOfTurns' /\ NoReplayAfterOutput'
  BY DEF RInv, OutputsOfTurns, NoReplayAfterOutput
<1>2. ASSUME clean' PROVE SilentBefore' /\ FlagTells'
  BY <1>2 DEF RInv, OutputsOfTurns, SilentBefore, FlagTells
<1> QED BY <1>1, <1>2 DEF RInv

(* A turn that runs emits an event. *)
LEMMA EmittingStep ==
    ASSUME TInv, RInv, NEW i \in Turns, turns[i].pc = "attempt", EmitFor(i),
           UNCHANGED <<turns, clean>>
    PROVE  RInv'
<1> DEFINE o == [turn |-> i, attempt |-> turns[i].attempt, rewound |-> \E j \in Edits : i < j]
<1>1. emitted' /\ outputs' = outputs \cup {o} /\ Turns' = Turns
  BY DEF EmitFor, Turns
<1>2. o.turn = i /\ o.attempt = turns[i].attempt
  OBVIOUS
<1> HIDE DEF o
<1>3. OutputsOfTurns'
  BY <1>1, <1>2 DEF RInv, OutputsOfTurns
<1>4. ASSUME clean PROVE SilentBefore' /\ FlagTells' /\ NoReplayAfterOutput'
  <2>1. SilentBefore' /\ FlagTells'
    BY <1>1, <1>2, <1>4 DEF RInv, SilentBefore, FlagTells, Silent, New
  <2>2. \A p \in outputs : p.turn = i => p.attempt = o.attempt
    BY <1>2, <1>4 DEF RInv, FlagTells
  <2>3. NoReplayAfterOutput'
    BY <1>1, <1>2, <1>4, <2>2 DEF RInv, NoReplayAfterOutput
  <2> QED BY <2>1, <2>3
<1> QED BY <1>3, <1>4 DEF RInv, NoReplayAfterOutput

LEMMA OneActive ==
    ASSUME OInv, Open, NEW i \in Turns, NEW j \in Turns,
           turns[i].pc \in Active, turns[j].pc \in Active
    PROVE  i = j
<1>1. i \in Int /\ j \in Int
  BY DEF Turns
<1>2. turns[i].pc \notin Finished /\ turns[j].pc \notin Finished
  BY DEF Active, Finished
<1> QED BY <1>1, <1>2 DEF OInv, FinishedInOrder, AllBeforeFinished, Unchained

(* An attempt begins: no other turn runs, so it may turn the flag off. *)
LEMMA BeginningStep ==
    ASSUME TInv, OInv, OInv', CInv, RInv, NEW i \in Turns, turns[i].pc \in Silent,
           ~ turns[i].cancel, BeginAttempt(i), UNCHANGED <<outputs, closing, clean>>
    PROVE  RInv'
<1>1. /\ Turns' = Turns
      /\ \A j \in Turns : turns'[j].pc = IF j = i THEN "attempt" ELSE turns[j].pc
      /\ \A j \in Turns : j # i => turns'[j].attempt = turns[j].attempt
  BY Beginning DEF GoesOn
<1>2. OutputsOfTurns' /\ NoReplayAfterOutput'
  BY <1>1 DEF RInv, OutputsOfTurns, NoReplayAfterOutput
<1>3. ASSUME clean PROVE SilentBefore' /\ FlagTells'
  <2>1. Open
    <3>1. turns[i].pc \notin Finished
      BY DEF Silent, New, Finished
    <3> QED BY <1>3, <3>1 DEF CInv, CleanCancels
  <2>2. \A p \in outputs : p.turn \in Turns \ {i}
    BY <1>3 DEF RInv, OutputsOfTurns, SilentBefore
  <2>3. \A j \in Turns : turns'[j].pc = "attempt" => j = i
    <3>1. Open' /\ "attempt" \in Active /\ turns'[i].pc = "attempt"
      BY <1>1, <2>1 DEF Active
    <3>2. ASSUME NEW j \in Turns, turns'[j].pc \in Active PROVE j = i
      <4>1. i \in Int /\ j \in Int
        BY DEF Turns
      <4>2. turns'[i].pc \notin Finished /\ turns'[j].pc \notin Finished
        BY <3>1, <3>2 DEF Active, Finished
      <4> QED BY <1>1, <3>1, <3>2, <4>1, <4>2 DEF OInv, FinishedInOrder, AllBeforeFinished, Unchained
    <3> QED BY <3>1, <3>2
  <2>4. SilentBefore'
    BY <1>1, <1>3, <2>2 DEF RInv, SilentBefore
  <2>5. FlagTells'
    BY <2>2, <2>3 DEF FlagTells
  <2> QED BY <2>4, <2>5
<1> QED BY <1>2, <1>3 DEF RInv

(* A turn that runs goes on to another place, or finishes. *)
LEMMA PassingStep ==
    ASSUME TInv, RInv, NEW i \in Turns, NEW p \in Pcs, turns' = [turns EXCEPT ![i].pc = p],
           p \in Silent => turns[i].pc \in Silent, p # "attempt",
           UNCHANGED <<outputs, clean>>, emitted => emitted'
    PROVE  RInv'
<1>1. GoesOn(i, p) /\ \A j \in Turns : turns'[j].attempt = turns[j].attempt
  BY Moving
<1> QED BY <1>1, QuietStep DEF GoesOn

LEMMA RInvTurn ==
    ASSUME TInv, OInv, OInv', CInv, RInv, NEW i \in Turns,
           TurnStep(i) \/ TurnOutput(i) \/ TurnRaises(i)
    PROVE  RInv'
<1>0. /\ Finished \subseteq Pcs /\ Active \subseteq Pcs /\ "waiting" \in Pcs /\ New \subseteq Silent
      /\ {"waiting", "retry", "backoff"} \subseteq Silent
      /\ Finished \cap Silent = {} /\ "attempt" \notin Finished /\ "attempt" \notin Silent
  BY DEF Pcs, New, Active, Finished, Silent
<1>1. UNCHANGED <<closing, clean>>
  BY TurnGoesOn
<1>2. ASSUME NEW how \in Finished, turns' = [turns EXCEPT ![i].pc = how],
             UNCHANGED <<outputs, emitted>>
      PROVE  RInv'
  BY <1>0, <1>1, <1>2, PassingStep
<1>3. CASE TaskStarts(i)
  <2>1. turns[i].pc \in Silent /\ UNCHANGED outputs
    BY <1>0, <1>3 DEF TaskStarts
  <2>2. CASE NeverBegins(i)
    BY <1>2, <2>1, <2>2 DEF NeverBegins, Finished
  <2>3. CASE turns' = [turns EXCEPT ![i].pc = "waiting"] /\ UNCHANGED emitted
    BY <1>0, <1>1, <2>1, <2>3, PassingStep
  <2>4. CASE ~ turns[i].cancel /\ BeginAttempt(i)
    BY <1>1, <2>1, <2>4, BeginningStep
  <2> QED BY <1>3, <2>2, <2>3, <2>4 DEF TaskStarts
<1>4. CASE ChainResumes(i)
  <2>1. turns[i].pc \in Silent /\ UNCHANGED outputs
    BY <1>0, <1>4 DEF ChainResumes
  <2>2. CASE NeverBegins(i)
    BY <1>2, <2>1, <2>2 DEF NeverBegins, Finished
  <2>3. CASE ~ turns[i].cancel /\ BeginAttempt(i)
    BY <1>1, <2>1, <2>3, BeginningStep
  <2> QED BY <1>4, <2>2, <2>3 DEF ChainResumes
<1>5. CASE TurnReturns(i) \/ ResetAfterError(i) \/ TurnCancelled(i)
  <2>1. PICK how \in Finished : Finish(i, how)
    BY <1>5 DEF TurnReturns, ResetAfterError, TurnCancelled, Finished
  <2>2. UNCHANGED <<outputs, emitted>>
    BY <1>5 DEF TurnReturns, ResetAfterError, TurnCancelled
  <2> QED BY <1>2, <2>1, <2>2 DEF Finish
<1>6. CASE ResetForRetry(i)
  <2>1. turns[i].pc = "retry" /\ turns' = [turns EXCEPT ![i].pc = "backoff"]
        /\ UNCHANGED <<outputs, emitted>>
    BY <1>6 DEF ResetForRetry, Running
  <2>2. "backoff" \in Active
    BY DEF Active
  <2> QED BY <1>0, <1>1, <2>1, <2>2, PassingStep
<1>7. CASE Retry(i)
  <2>1. turns[i].pc \in Silent /\ ~ turns[i].cancel /\ BeginAttempt(i) /\ UNCHANGED outputs
    BY <1>0, <1>7 DEF Retry, Running
  <2> QED BY <1>1, <2>1, BeginningStep
<1>8. CASE ErrorReported(i)
  <2>1. UNCHANGED <<outputs, emitted>>
    BY <1>8 DEF ErrorReported
  <2>2. CASE turns' = [turns EXCEPT ![i].pc = "reset"]
    <3>1. "reset" \in Active /\ "reset" \notin Silent
      BY DEF Active, Silent, New
    <3> QED BY <1>0, <1>1, <2>1, <2>2, <3>1, PassingStep
  <2>3. CASE Finish(i, "done")
    BY <1>2, <2>1, <2>3 DEF Finish, Finished
  <2> QED BY <1>8, <2>2, <2>3 DEF ErrorReported
<1>9. CASE TurnOutput(i)
  BY <1>1, <1>9, EmittingStep DEF TurnOutput, Running
<1>10. CASE TurnRaises(i)
  <2>1. turns[i].pc = "attempt" /\ UNCHANGED outputs
    BY <1>10 DEF TurnRaises, Running
  <2>2. CASE \E p \in {"fatal", "fail"} : turns' = [turns EXCEPT ![i].pc = p] /\ emitted' = TRUE
    <3>1. {"fatal", "fail"} \subseteq Active \ Silent
      BY DEF Active, Silent, New
    <3> QED BY <1>0, <1>1, <2>1, <2>2, <3>1, PassingStep
  <2>3. CASE ~ emitted /\ turns' = [turns EXCEPT ![i].pc = "retry"] /\ UNCHANGED emitted
    <3>1. "retry" \in Pcs
      BY DEF Pcs, Active
    <3>2. /\ Turns' = Turns
          /\ \A j \in Turns : /\ turns'[j].pc = IF j = i THEN "retry" ELSE turns[j].pc
                              /\ turns'[j].attempt = turns[j].attempt
      BY <2>3, <3>1, Moving DEF GoesOn
    <3>3. clean => \A p \in outputs : p.turn # i
      BY <2>1, <2>3 DEF RInv, FlagTells
    <3>4. OutputsOfTurns' /\ NoReplayAfterOutput'
      BY <1>1, <2>1, <3>2 DEF RInv, OutputsOfTurns, NoReplayAfterOutput
    <3>5. ASSUME clean PROVE SilentBefore' /\ FlagTells'
      BY <2>1, <2>3, <3>2, <3>3, <3>5 DEF RInv, OutputsOfTurns, SilentBefore, FlagTells
    <3> QED BY <1>1, <3>4, <3>5 DEF RInv
  <2> QED BY <1>10, <2>2, <2>3 DEF TurnRaises, MayRetry
<1> QED BY <1>3, <1>4, <1>5, <1>6, <1>7, <1>8, <1>9, <1>10 DEF TurnStep

LEMMA RInvNext == TInv /\ OInv /\ OInv' /\ CInv /\ RInv /\ [Next]_vars => RInv'
<1> SUFFICES ASSUME TInv, OInv, OInv', CInv, RInv, [Next]_vars PROVE RInv'
  OBVIOUS
<1>1. ASSUME UNCHANGED <<turns, outputs, clean>>, emitted => emitted' PROVE RInv'
  BY <1>1, QuietStep DEF Turns
<1>2. CASE UNCHANGED vars
  BY <1>1, <1>2 DEF vars, runVars, closeVars
<1>3. ASSUME NEW i \in Turns, TurnStep(i) \/ TurnOutput(i) \/ TurnRaises(i) PROVE RInv'
  BY <1>3, RInvTurn
<1>4. ASSUME NEW a \in Asks,
             AskStep(a) \/ \E decision \in {"allow", "deny", "other"} : Resolve(a, decision)
      PROVE  RInv'
  BY <1>1, <1>4 DEF AskStep, AskRegistered, AskReturns, AskTimesOut, Resolve, runVars, closeVars
<1>5. ASSUME NEW a \in Asks, AskRaised(a) PROVE RInv'
  <2>1. PICK i \in Turns : turns[i].pc = "attempt" /\ EmitFor(i)
    BY <1>5 DEF AskRaised
  <2> QED BY <1>5, <2>1, EmittingStep DEF AskRaised, closeVars
<1>6. CASE TellDenied \/ InterruptProvider \/ Stopped \/ Edit \/ Stop \/ CloseAwaited \/ Closed
  BY <1>1, <1>6
  DEF TellDenied, InterruptProvider, Stopped, Edit, Stop, CloseAwaited, Closed, runVars, closeVars
<1>7. CASE Start \/ Send \/ EditSpawns
  <2>1. UNCHANGED <<outputs, clean, emitted>> /\ \E isEdit \in BOOLEAN : Spawn(isEdit)
    BY <1>7 DEF Start, Send, EditSpawns, runVars, closeVars
  <2>2. Turns \subseteq Turns' /\ \A j \in Turns : turns'[j] = turns[j]
    BY <2>1, Spawned DEF TInv, TypeOK, Turns
  <2> QED BY <2>1, <2>2, QuietStep
<1>8. CASE DuplicateFound
  <2>1. PICK i \in Turns : turns[i].pc = "attempt" /\ EmitFor(i)
    BY <1>8 DEF DuplicateFound, Running
  <2> QED BY <1>8, <2>1, EmittingStep DEF DuplicateFound
<1>9. CASE Close
  <2>1. Open /\ clean /\ UNCHANGED <<outputs, emitted>>
    BY <1>9 DEF Close, OInv, CInv, OpenIsClean, runVars
  <2>2. /\ Turns' = Turns
        /\ \A j \in Turns : turns'[j].pc = turns[j].pc /\ turns'[j].attempt = turns[j].attempt
    <3>1. CASE UNCHANGED turns
      BY <3>1 DEF Turns
    <3>2. CASE turns' = [i \in Turns |-> IF CancelReaches(i) /\ turns[i].pc \notin Finished
                                         THEN [turns[i] EXCEPT !.cancel = TRUE] ELSE turns[i]]
      <4> DEFINE C == {i \in Turns : CancelReaches(i) /\ turns[i].pc \notin Finished}
      <4>1. turns' = [i \in Turns |-> IF i \in C THEN [turns[i] EXCEPT !.cancel = TRUE]
                                      ELSE turns[i]]
        BY <3>2, Zenon
      <4> QED BY <4>1, CancelRequested DEF TInv, Turns
    <3> QED BY <1>9, <3>1, <3>2, Zenon DEF Close
  <2> QED BY <2>1, <2>2, QuietStep
<1> QED BY <1>2, <1>3, <1>4, <1>5, <1>6, <1>7, <1>8, <1>9 DEF Next, CommandStep

(* A turn is retried only when the browser saw nothing of it, not even a    *)
(* permission request: all its output is of one attempt, for any number of  *)
(* turns and retries.                                                       *)
THEOREM NoReplay == Spec => []NoReplayAfterOutput
<1> DEFINE Inv == TInv /\ OInv /\ CInv /\ RInv
<1>1. Init => Inv
  BY TInvInit, OInvInit, CInvInit, RInvInit
<1>2. Inv /\ [Next]_vars => Inv'
  BY TInvNext, OInvNext, CInvNext, RInvNext
<1>3. Inv => NoReplayAfterOutput
  BY DEF RInv
<1> QED BY <1>1, <1>2, <1>3, PTL DEF Spec
=============================================================================
