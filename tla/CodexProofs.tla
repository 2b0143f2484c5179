----------------------------- MODULE CodexProofs -----------------------------
(***************************************************************************)
(* Proofs about Codex for every set of jobs and any number of turns.       *)
(*                                                                         *)
(* A codex process runs only for the turn that is under way, which _proc   *)
(* names; or, when a close has cancelled the wait for it, until the close  *)
(* has stopped it.                                                         *)
(***************************************************************************)
EXTENDS Codex, TLAPS

USE CodexAssumption

(* What a turn that runs relies on: _proc is its process, and only a close  *)
(* cancels it.                                                              *)
RunningHasProc ==
    /\ pc \in Running \cup {"creating"} => turn # 0
    /\ pc \in Running => proc = turn

CancelIsClose ==
    /\ cancel => closing = "awaiting" /\ pc \notin {"idle", "cancelled"}
    /\ (pc = "cancelled" \/ raising = "cancelled") => closing # "no"
    /\ closing \in {"closing", "closed"} => pc \in {"idle", "cancelled"}

(* The runs of _stop_process_tree, and who waits for them. *)
StopOfTurn == (stops["turn"].at # "no" /\ ~ stops["turn"].orphan) => pc = "stopping"

StopOfClose ==
    /\ stops["close"].at # "no" <=> closing = "closing"
    /\ closing = "closing" => stops["close"].of = proc

CodexIsKnown ==
    \A t \in Turns : Codex \in alive[t] =>
        /\ t = turn
        /\ \/ pc \in Running
           \/ t = proc /\ closing \in {"awaiting", "closing"}

(* One outcome at most, and those of the end only at the end. *)
OnlyOne(o) == [p \in Outcomes |-> IF p = o THEN 1 ELSE 0]

OneReported ==
    /\ Reported => \E o \in Outcomes : reports = OnlyOne(o)
    /\ pc \in Running \cup {"creating"} => reports["exit"] = 0
    /\ stopped => interrupted

Rest ==
    /\ RunningHasProc
    /\ CancelIsClose
    /\ StopOfTurn
    /\ StopOfClose
    /\ CodexIsKnown
    /\ OneReported

IInv == TypeOK /\ Rest

-----------------------------------------------------------------------------
(* A run of _stop_process_tree begins or returns. *)
LEMMA StopBeginsTyped ==
    ASSUME TypeOK, NEW s \in Stoppers, NEW t \in 0 .. MaxTurns, StopBegins(s, t)
    PROVE  /\ stops' \in [Stoppers -> Stop]
           /\ lock' \in Stoppers \cup {"free"}
           /\ stops'[s].at # "no" /\ stops'[s].of = t /\ ~ stops'[s].orphan
           /\ \A q \in Stoppers \ {s} : stops'[q] = stops[q]
<1> DEFINE x == [NoStop EXCEPT !.at = IF lock = "free" THEN "begun" ELSE "lock", !.of = t]
<1>1. x \in Stop /\ x.at # "no" /\ x.of = t /\ ~ x.orphan
  BY DEF NoStop, Stop
<1>2. stops' = [stops EXCEPT ![s] = x]
  BY DEF StopBegins
<1> HIDE DEF x
<1>3. lock' \in Stoppers \cup {"free"}
  BY DEF StopBegins, TypeOK
<1> QED BY <1>1, <1>2, <1>3 DEF TypeOK

LEMMA StopReturnsTyped ==
    ASSUME TypeOK, NEW s \in Stoppers, StopReturns(s)
    PROVE  /\ stops' \in [Stoppers -> Stop]
           /\ lock' \in Stoppers \cup {"free"}
           /\ stops' = [stops EXCEPT ![s] = NoStop]
           /\ pc' = IF s = "turn" /\ ~ stops["turn"].orphan THEN "draining" ELSE pc
           /\ closing' = IF s = "close" THEN "closed" ELSE closing
<1>1. NoStop \in Stop
  BY DEF NoStop, Stop
<1> QED BY <1>1 DEF StopReturns, TypeOK

(* One more outcome is counted: none was before. *)
LEMMA ReportTyped ==
    ASSUME TypeOK, ~ Reported, NEW o \in Outcomes, Report(o)
    PROVE  reports' \in [Outcomes -> 0 .. 2] /\ reports' = OnlyOne(o)
<1>1. reports \in [Outcomes -> 0 .. 2]
  BY DEF TypeOK
<1>2. \A p \in Outcomes : reports[p] = 0
  BY <1>1 DEF Reported
<1>3. reports' = [reports EXCEPT ![o] = @ + 1]
  BY DEF Report
<1>4. \A p \in Outcomes : reports'[p] = IF p = o THEN 1 ELSE 0
  BY <1>1, <1>2, <1>3
<1>5. reports' \in [Outcomes -> 0 .. 2]
  <2>1. reports[o] + 1 \in 0 .. 2
    BY <1>2
  <2> QED BY <1>1, <1>3, <2>1
<1>6. reports' = [p \in Outcomes |-> reports'[p]]
  BY <1>5
<1>7. reports' = [p \in Outcomes |-> IF p = o THEN 1 ELSE 0]
  BY <1>4, <1>6
<1> QED BY <1>5, <1>7 DEF OnlyOne

LEMMA IInvInit == Init => IInv
<1> SUFFICES ASSUME Init PROVE IInv
  OBVIOUS
<1>1. NoStop \in Stop
  BY DEF NoStop, Stop
<1>2. alive \in [Turns -> SUBSET Members] /\ born \in [Turns -> SUBSET Members]
  BY DEF Init
<1>3. \A t \in Turns : alive[t] = {} /\ born[t] = {}
  BY DEF Init
<1>4. turn = 0 /\ proc = 0 /\ interrupted = FALSE /\ pc = "idle" /\ raising = "no" /\ lock = "free"
  BY DEF Init
<1>5. cancel = FALSE /\ closing = "no" /\ stopped = FALSE /\ missed = {} /\ gaveUp = FALSE
  BY DEF Init
<1>11. {interrupted, cancel, stopped, gaveUp} \subseteq BOOLEAN
  BY <1>4, <1>5
<1>6. stops \in [Stoppers -> Stop]
  BY <1>1 DEF Init
<1>7. reports \in [Outcomes -> 0 .. 2] /\ ~ Reported
  BY DEF Init, Reported
<1>8. TypeOK
  BY <1>2, <1>3, <1>4, <1>5, <1>6, <1>7, <1>11 DEF TypeOK, Running
<1>9. stops["turn"].at = "no" /\ stops["close"].at = "no"
  BY DEF Init, Stoppers, NoStop
<1>10. Rest
  BY <1>3, <1>4, <1>5, <1>7, <1>9
     DEF Rest, RunningHasProc, CancelIsClose, StopOfTurn, StopOfClose, CodexIsKnown, OneReported, Running
<1> QED BY <1>8, <1>10 DEF IInv

-----------------------------------------------------------------------------
(* The turn. *)

LEMMA TurnKeeps == ASSUME IInv, Turn PROVE IInv'
<1> USE DEF IInv
<1>1. turn' = turn + 1 /\ turn' \in 1 .. MaxTurns /\ pc = "idle" /\ pc' \in {"idle", "creating"}
  BY DEF Turn, TypeOK
<1>2. reports' \in [Outcomes -> 0 .. 2]
  BY DEF Turn
<1>3. interrupted' \in BOOLEAN /\ stopped' \in BOOLEAN /\ ~ stopped' /\ missed' = {} /\ closing = "no"
  BY DEF Turn, TypeOK
<1>4. UNCHANGED <<alive, born, raising, cancel, proc, stops, lock, gaveUp, closing>>
  BY DEF Turn, treeVars
<1>5. proc' \in 0 .. turn'
  BY <1>1, <1>4 DEF TypeOK
<1>6. TypeOK'
  BY <1>1, <1>2, <1>3, <1>4, <1>5 DEF TypeOK, Running
<1>7. RunningHasProc' /\ CancelIsClose' /\ StopOfTurn' /\ StopOfClose'
  BY <1>1, <1>3, <1>4
     DEF Rest, RunningHasProc, CancelIsClose, StopOfTurn, StopOfClose, Running, TypeOK
<1>8. CodexIsKnown'
  BY <1>1, <1>3, <1>4 DEF Rest, CodexIsKnown, Running
<1>9. OneReported'
  <2>1. PICK answered \in {0, 1} : reports' = [o \in Outcomes |-> IF o = "result" THEN answered ELSE 0]
    BY DEF Turn
  <2>2. reports'["exit"] = 0
    BY <2>1 DEF Outcomes
  <2>3. CASE answered = 0
    <3>1. ~ Reported'
      BY <2>1, <2>3 DEF Reported
    <3> QED BY <1>3, <2>2, <3>1 DEF OneReported
  <2>4. CASE answered = 1
    <3>1. reports' = OnlyOne("result")
      BY <2>1, <2>4 DEF OnlyOne
    <3>2. "result" \in Outcomes
      BY DEF Outcomes
    <3> QED BY <1>3, <2>2, <3>1, <3>2 DEF OneReported
  <2> QED BY <2>3, <2>4
<1> QED BY <1>6, <1>7, <1>8, <1>9 DEF Rest

LEMMA CreatedKeeps == ASSUME IInv, Created PROVE IInv'
<1> USE DEF IInv
<1>1. pc = "creating" /\ pc' = "reading" /\ proc' = turn /\ turn \in Turns /\ turn \in 1 .. MaxTurns
  BY DEF Created, TypeOK, Rest, RunningHasProc, Turns
<1>2. UNCHANGED <<turn, raising, cancel, reports, interrupted, stops, lock, stopped, missed, gaveUp, closing>>
  BY DEF Created, stopVars
<1>3. /\ alive' \in [Turns -> SUBSET Members] /\ born' \in [Turns -> SUBSET Members]
      /\ alive'[turn] = {Codex} /\ born'[turn] = {Codex}
      /\ \A t \in Turns \ {turn} : alive'[t] = alive[t] /\ born'[t] = born[t]
  <2>1. {Codex} \in SUBSET Members
    BY DEF Members
  <2> QED BY <1>1, <2>1 DEF Created, TypeOK
<1>4. \A t \in Turns : alive'[t] \subseteq born'[t]
  BY <1>3 DEF TypeOK
<1>5. TypeOK'
  BY <1>1, <1>2, <1>3, <1>4 DEF TypeOK, Running
<1>6. RunningHasProc' /\ CancelIsClose' /\ StopOfTurn' /\ StopOfClose' /\ OneReported'
  BY <1>1, <1>2 DEF Created, Rest, RunningHasProc, CancelIsClose, StopOfTurn, StopOfClose, OneReported,
                    Reported, Running
<1>7. CodexIsKnown'
  BY <1>1, <1>2, <1>3 DEF Rest, CodexIsKnown, Running
<1> QED BY <1>5, <1>6, <1>7 DEF Rest

(* The steps of the turn that change neither processes nor stops.          *)
LEMMA PlainStepKeeps ==
    ASSUME IInv, CreateFails \/ EndOfOutput \/ WaitCancelled
    PROVE  IInv'
<1> USE DEF IInv
<1>1. UNCHANGED <<alive, born, turn, reports, proc, interrupted, stops, lock, stopped, missed, gaveUp, closing>>
  BY DEF CreateFails, EndOfOutput, WaitCancelled, treeVars, stopVars
<1>2. /\ pc' \in {"idle", "cancelled", "waiting"} /\ raising' \in {"no", "error", "cancelled"}
      /\ cancel' \in BOOLEAN
  BY DEF CreateFails, EndOfOutput, WaitCancelled, TypeOK
<1>3. TypeOK'
  BY <1>1, <1>2 DEF TypeOK, Running
<1>4. RunningHasProc' /\ CancelIsClose' /\ StopOfTurn' /\ StopOfClose' /\ OneReported'
  BY <1>1 DEF CreateFails, EndOfOutput, WaitCancelled, Rest, RunningHasProc, CancelIsClose, StopOfTurn,
              StopOfClose, OneReported, Reported, Running, TypeOK
<1>5. CodexIsKnown'
  <2>1. CASE CreateFails
    BY <1>1, <2>1 DEF CreateFails, Rest, CodexIsKnown, Running
  <2>2. CASE EndOfOutput
    BY <1>1, <2>2 DEF EndOfOutput, Rest, CodexIsKnown, Running
  <2>3. CASE WaitCancelled
    BY <1>1, <2>3 DEF WaitCancelled, Rest, CodexIsKnown, RunningHasProc, CancelIsClose, Running
  <2> QED BY <2>1, <2>2, <2>3
<1> QED BY <1>3, <1>4, <1>5 DEF Rest

LEMMA TerminalKeeps == ASSUME IInv, Terminal PROVE IInv'
<1> USE DEF IInv
<1>1. UNCHANGED <<alive, born, turn, pc, raising, cancel, proc, interrupted, stops, lock, stopped, missed,
                  gaveUp, closing>>
  BY DEF Terminal, treeVars, stopVars
<1>2. PICK o \in {"result", "failed"} : Report(o)
  BY DEF Terminal
<1>3. o \in Outcomes /\ "exit" \in Outcomes /\ o # "exit"
  BY DEF Outcomes
<1>4. reports' \in [Outcomes -> 0 .. 2] /\ reports' = OnlyOne(o)
  BY <1>2, <1>3, ReportTyped DEF Terminal
<1>5. TypeOK'
  BY <1>1, <1>4 DEF TypeOK
<1>6. RunningHasProc' /\ CancelIsClose' /\ StopOfTurn' /\ StopOfClose' /\ CodexIsKnown'
  BY <1>1 DEF Rest, RunningHasProc, CancelIsClose, StopOfTurn, StopOfClose, CodexIsKnown
<1>7. reports'["exit"] = 0
  BY <1>3, <1>4 DEF OnlyOne
<1>8. OneReported'
  BY <1>1, <1>3, <1>4, <1>7 DEF Rest, OneReported
<1> QED BY <1>5, <1>6, <1>8 DEF Rest

LEMMA ExitedKeeps ==
    ASSUME IInv, Exited
    PROVE  /\ IInv'
           /\ raising = "no" => /\ \E o \in Outcomes : reports' = OnlyOne(o)
                                /\ stopped => reports'["exit"] = 0
<1> USE DEF IInv
<1>1. /\ pc = "waiting" /\ pc' \in {"idle", "cancelled"} /\ raising' = "no" /\ cancel' = FALSE
      /\ proc' \in {0, proc}
      /\ raising # "cancelled" => pc' = "idle"
      /\ raising = "cancelled" => pc' = "cancelled"
  BY DEF Exited
<1>2. UNCHANGED <<alive, born, turn, interrupted, stops, lock, stopped, missed, gaveUp, closing>>
  BY DEF Exited, treeVars, stopVars
<1>3. turn # 0 /\ reports["exit"] = 0 /\ (stopped => interrupted)
  BY <1>1 DEF Rest, RunningHasProc, OneReported, Running
<1>4. /\ reports' \in [Outcomes -> 0 .. 2]
      /\ Reported' => \E o \in Outcomes : reports' = OnlyOne(o)
      /\ raising = "no" => /\ \E o \in Outcomes : reports' = OnlyOne(o)
                           /\ stopped => reports'["exit"] = 0
  <2>1. CASE raising # "no" \/ Reported
    <3>1. reports' = reports
      BY <2>1 DEF Exited
    <3> QED BY <1>3, <2>1, <3>1 DEF TypeOK, Rest, OneReported, Reported
  <2>2. CASE raising = "no" /\ ~ Reported
    <3>1. PICK o \in {"interrupted", "exit"} : Report(o) /\ (interrupted => o = "interrupted")
      BY <2>2 DEF Exited
    <3>2. o \in Outcomes /\ "exit" \in Outcomes
      BY DEF Outcomes
    <3>3. reports' \in [Outcomes -> 0 .. 2] /\ reports' = OnlyOne(o)
      BY <2>2, <3>1, <3>2, ReportTyped
    <3>4. stopped => reports'["exit"] = 0
      BY <1>3, <3>1, <3>2, <3>3 DEF OnlyOne
    <3> QED BY <3>2, <3>3, <3>4
  <2> QED BY <2>1, <2>2
<1>5. TypeOK'
  <2>1. proc' \in 0 .. turn'
    BY <1>1, <1>2 DEF TypeOK
  <2>2. cancel' \in BOOLEAN
    BY <1>1
  <2> QED BY <1>1, <1>2, <1>4, <2>1, <2>2 DEF TypeOK, Running
<1>6. RunningHasProc' /\ CancelIsClose' /\ StopOfTurn' /\ OneReported'
  BY <1>1, <1>2, <1>3, <1>4 DEF Rest, RunningHasProc, CancelIsClose, StopOfTurn, OneReported, Running
<1>7. StopOfClose'
  BY <1>1, <1>2 DEF Rest, CancelIsClose, StopOfClose
<1>8. CodexIsKnown'
  <2>1. Codex \notin alive[turn]
    BY <1>3 DEF Exited, CodexLives
  <2>2. \A t \in Turns : Codex \in alive[t] => t = turn
    BY DEF Rest, CodexIsKnown
  <2> QED BY <1>2, <2>1, <2>2 DEF CodexIsKnown
<1> QED BY <1>4, <1>5, <1>6, <1>7, <1>8 DEF Rest

LEMMA ReadFailsKeeps == ASSUME IInv, ReadFails PROVE IInv'
<1> USE DEF IInv
<1>1. /\ pc = "reading" /\ pc' = "stopping" /\ cancel' = FALSE
      /\ raising' = IF cancel THEN "cancelled" ELSE "error"
      /\ StopBegins("turn", turn)
  BY DEF ReadFails, CutShort
<1>2. UNCHANGED <<alive, born, turn, reports, proc, interrupted, stopped, missed, gaveUp, closing>>
  BY DEF ReadFails, treeVars
<1>3. /\ "turn" \in Stoppers /\ "close" \in Stoppers \ {"turn"} /\ turn \in 0 .. MaxTurns
  BY DEF Stoppers, TypeOK
<1>4. /\ stops' \in [Stoppers -> Stop] /\ lock' \in Stoppers \cup {"free"}
      /\ stops'["close"] = stops["close"]
  BY <1>1, <1>3, StopBeginsTyped
<1>5. TypeOK'
  <2>1. raising' \in {"error", "cancelled"} /\ cancel' \in BOOLEAN
    BY <1>1
  <2> QED BY <1>1, <1>2, <1>4, <2>1 DEF TypeOK, Running
<1>6. RunningHasProc' /\ CancelIsClose' /\ StopOfTurn' /\ StopOfClose' /\ OneReported' /\ CodexIsKnown'
  BY <1>1, <1>2, <1>4 DEF Rest, RunningHasProc, CancelIsClose, StopOfTurn, StopOfClose, OneReported, Reported,
                          CodexIsKnown, Running
<1> QED BY <1>5, <1>6 DEF Rest

LEMMA CleanupCancelledKeeps == ASSUME IInv, CleanupCancelled PROVE IInv'
<1> USE DEF IInv
<1> DEFINE x == IF stops["turn"].at \in {"begun", "snapped"}
                THEN [stops["turn"] EXCEPT !.orphan = TRUE] ELSE NoStop
<1>1. /\ pc \in {"stopping", "draining"} /\ pc' = "waiting" /\ cancel /\ cancel' = FALSE
      /\ raising' = "cancelled"
      /\ stops' = [stops EXCEPT !["turn"] = x]
  BY DEF CleanupCancelled
<1>2. UNCHANGED <<alive, born, turn, reports, proc, interrupted, stopped, missed, closing>>
  BY DEF CleanupCancelled, treeVars
<1>3. lock' \in Stoppers \cup {"free"} /\ gaveUp' \in BOOLEAN
  BY DEF CleanupCancelled, TypeOK
<1>4. x \in Stop /\ (x.at # "no" => x.orphan)
  <2>1. stops["turn"] \in Stop
    BY DEF TypeOK, Stoppers
  <2>2. [stops["turn"] EXCEPT !.orphan = TRUE] \in Stop /\ [stops["turn"] EXCEPT !.orphan = TRUE].orphan
    BY <2>1 DEF Stop
  <2>3. NoStop \in Stop /\ NoStop.at = "no"
    BY DEF NoStop, Stop
  <2> QED BY <2>2, <2>3
<1> HIDE DEF x
<1>5. /\ stops' \in [Stoppers -> Stop]
      /\ stops'["turn"] = x /\ stops'["close"] = stops["close"]
  BY <1>1, <1>4 DEF TypeOK, Stoppers
<1>6. TypeOK'
  BY <1>1, <1>2, <1>3, <1>5 DEF TypeOK, Running
<1>7. RunningHasProc' /\ CancelIsClose' /\ OneReported' /\ CodexIsKnown'
  BY <1>1, <1>2 DEF Rest, RunningHasProc, CancelIsClose, OneReported, Reported, CodexIsKnown, Running
<1>8. StopOfTurn' /\ StopOfClose'
  BY <1>2, <1>4, <1>5 DEF Rest, StopOfTurn, StopOfClose
<1> QED BY <1>6, <1>7, <1>8 DEF Rest

-----------------------------------------------------------------------------
(* Stopping. *)

LEMMA InterruptKeeps == ASSUME IInv, Interrupt PROVE IInv'
<1> USE DEF IInv
<1>1. interrupted' = TRUE /\ stopped' = TRUE /\ StopBegins("stop", proc)
  BY DEF Interrupt, Interrupts
<1>2. UNCHANGED <<alive, born, turn, pc, raising, cancel, reports, proc, missed, gaveUp, closing>>
  BY DEF Interrupt, treeVars, turnVars
<1>3. /\ "stop" \in Stoppers /\ {"turn", "close"} \subseteq Stoppers \ {"stop"}
      /\ proc \in 0 .. MaxTurns
  BY DEF Stoppers, TypeOK
<1>4. /\ stops' \in [Stoppers -> Stop] /\ lock' \in Stoppers \cup {"free"}
      /\ stops'["close"] = stops["close"] /\ stops'["turn"] = stops["turn"]
  BY <1>1, <1>3, StopBeginsTyped
<1>5. TypeOK'
  BY <1>1, <1>2, <1>4 DEF TypeOK
<1>6. Rest'
  BY <1>1, <1>2, <1>4 DEF Rest, RunningHasProc, CancelIsClose, StopOfTurn, StopOfClose, OneReported, Reported,
                          CodexIsKnown
<1> QED BY <1>5, <1>6

LEMMA CloseKeeps == ASSUME IInv, Close PROVE IInv'
<1> USE DEF IInv
<1>1. closing = "no" /\ closing' = "awaiting" /\ cancel' = (pc # "idle")
  BY DEF Close
<1>2. UNCHANGED <<alive, born, turn, pc, raising, reports, proc, interrupted, stops, lock, stopped, missed, gaveUp>>
  BY DEF Close, treeVars, stopVars
<1>3. TypeOK'
  BY <1>1, <1>2 DEF TypeOK
<1>4. Rest'
  BY <1>1, <1>2 DEF Rest, RunningHasProc, CancelIsClose, StopOfTurn, StopOfClose, OneReported, Reported,
                    CodexIsKnown
<1> QED BY <1>3, <1>4

LEMMA ACloseKeeps == ASSUME IInv, AClose PROVE IInv'
<1> USE DEF IInv
<1>1. closing = "awaiting" /\ pc \in {"idle", "cancelled"} /\ pc \notin Running
  BY DEF AClose, Running
<1>2. UNCHANGED <<alive, born, turn, pc, raising, cancel, reports, proc, missed, gaveUp>>
  BY DEF AClose, treeVars, turnVars
<1>3. CASE proc = 0
  <2>1. closing' = "closed" /\ UNCHANGED <<interrupted, stops, lock, stopped>>
    BY <1>3 DEF AClose
  <2>2. TypeOK'
    BY <1>2, <2>1 DEF TypeOK
  <2>3. \A t \in Turns : Codex \notin alive[t]
    BY <1>1, <1>3 DEF Rest, CodexIsKnown, Turns
  <2>4. Rest'
    BY <1>1, <1>2, <2>1, <2>3 DEF Rest, RunningHasProc, CancelIsClose, StopOfTurn, StopOfClose, OneReported,
                                  Reported, CodexIsKnown
  <2> QED BY <2>2, <2>4
<1>4. CASE proc # 0
  <2>1. /\ closing' = "closing" /\ interrupted' = TRUE /\ stopped' = TRUE
        /\ StopBegins("close", proc)
    BY <1>4 DEF AClose, Interrupts
  <2>2. /\ "close" \in Stoppers /\ "turn" \in Stoppers \ {"close"}
        /\ proc \in 0 .. MaxTurns
    BY DEF Stoppers, TypeOK
  <2>3. /\ stops' \in [Stoppers -> Stop] /\ lock' \in Stoppers \cup {"free"}
        /\ stops'["close"].at # "no" /\ stops'["close"].of = proc
        /\ stops'["turn"] = stops["turn"]
    BY <2>1, <2>2, StopBeginsTyped
  <2>4. TypeOK'
    BY <1>2, <2>1, <2>3 DEF TypeOK
  <2>5. Rest'
    BY <1>1, <1>2, <2>1, <2>3 DEF Rest, RunningHasProc, CancelIsClose, StopOfTurn, StopOfClose, OneReported,
                                  Reported, CodexIsKnown
  <2> QED BY <2>4, <2>5
<1> QED BY <1>3, <1>4

LEMMA TakesLockKeeps == ASSUME IInv, NEW s \in Stoppers, TakesLock(s) PROVE IInv'
<1> USE DEF IInv
<1>1. /\ stops[s].at = "lock" /\ lock' = s
      /\ stops' = [stops EXCEPT ![s].at = "begun"]
  BY DEF TakesLock
<1>2. UNCHANGED <<alive, born, turn, pc, raising, cancel, reports, proc, interrupted, stopped, missed, gaveUp, closing>>
  BY DEF TakesLock, treeVars, turnVars
<1>3. stops[s] \in Stop
  BY DEF TypeOK
<1>4. /\ stops' \in [Stoppers -> Stop]
      /\ \A q \in Stoppers : /\ stops'[q].of = stops[q].of /\ stops'[q].orphan = stops[q].orphan
                             /\ stops'[q].at = "no" <=> stops[q].at = "no"
  BY <1>1, <1>3 DEF TypeOK, Stop
<1>5. TypeOK'
  BY <1>1, <1>2, <1>4 DEF TypeOK
<1>6. StopOfTurn' /\ StopOfClose'
  BY <1>2, <1>4 DEF Rest, StopOfTurn, StopOfClose, Stoppers
<1>7. Rest'
  BY <1>2, <1>6 DEF Rest, RunningHasProc, CancelIsClose, OneReported, Reported, CodexIsKnown
<1> QED BY <1>5, <1>7

(* A run that returns while codex does not run. *)
LEMMA ReturnKeeps ==
    ASSUME IInv, NEW s \in Stoppers, stops[s].at # "no", StopReturns(s),
           alive' \in [Turns -> SUBSET Members],
           \A t \in Turns : alive'[t] \subseteq alive[t],
           stops[s].of = 0 \/ Codex \notin alive'[stops[s].of],
           missed' \subseteq Jobs,
           UNCHANGED <<born, turn, raising, cancel, reports, proc, interrupted, stopped, gaveUp>>
    PROVE  IInv'
<1> USE DEF IInv
<1>1. /\ stops' \in [Stoppers -> Stop] /\ lock' \in Stoppers \cup {"free"}
      /\ stops' = [stops EXCEPT ![s] = NoStop]
      /\ pc' = IF s = "turn" /\ ~ stops["turn"].orphan THEN "draining" ELSE pc
      /\ closing' = IF s = "close" THEN "closed" ELSE closing
  BY StopReturnsTyped
<1>2. /\ stops'[s].at = "no"
      /\ \A q \in Stoppers \ {s} : stops'[q] = stops[q]
  BY <1>1 DEF TypeOK, NoStop
<1>3. \/ pc' = pc
      \/ s = "turn" /\ pc = "stopping" /\ pc' = "draining"
  BY <1>1 DEF Rest, StopOfTurn
<1>4. /\ pc' \in Running <=> pc \in Running
      /\ pc' \in {"idle", "cancelled", "creating"} \/ pc \in {"idle", "cancelled", "creating"} => pc' = pc
  BY <1>3 DEF Running
<1>5. s = "close" => /\ closing = "closing" /\ pc \in {"idle", "cancelled"}
                     /\ stops[s].of = proc
  BY DEF Rest, StopOfClose, CancelIsClose
<1>6. TypeOK'
  <2>1. pc' \in Running \cup {"idle", "creating", "cancelled"}
    BY <1>3 DEF TypeOK, Running
  <2>2. closing' \in {"no", "awaiting", "closing", "closed"}
    BY <1>1 DEF TypeOK
  <2>3. \A t \in Turns : alive'[t] \subseteq born'[t]
    BY DEF TypeOK
  <2> QED BY <1>1, <2>1, <2>2, <2>3 DEF TypeOK
<1>7. RunningHasProc' /\ OneReported'
  BY <1>4 DEF Rest, RunningHasProc, OneReported, Reported
<1>8. CancelIsClose'
  BY <1>1, <1>4, <1>5 DEF Rest, CancelIsClose
<1>9. StopOfTurn'
  <2>1. CASE s = "turn"
    BY <1>2, <2>1 DEF StopOfTurn
  <2>2. CASE s # "turn"
    BY <1>2, <1>3, <2>2 DEF Rest, StopOfTurn, Stoppers
  <2> QED BY <2>1, <2>2
<1>10. StopOfClose'
  <2>1. CASE s = "close"
    BY <1>1, <1>2, <2>1 DEF StopOfClose
  <2>2. CASE s # "close"
    BY <1>1, <1>2, <2>2 DEF Rest, StopOfClose, Stoppers
  <2> QED BY <2>1, <2>2
<1>11. CodexIsKnown'
  <2> SUFFICES ASSUME NEW t \in Turns, Codex \in alive'[t]
               PROVE  /\ t = turn
                      /\ \/ pc' \in Running
                         \/ t = proc /\ closing' \in {"awaiting", "closing"}
    BY DEF CodexIsKnown
  <2>1. t = turn /\ (pc \in Running \/ (t = proc /\ closing \in {"awaiting", "closing"}))
    BY DEF Rest, CodexIsKnown
  <2>2. CASE pc \in Running
    BY <1>4, <2>1, <2>2
  <2>3. CASE t = proc /\ closing \in {"awaiting", "closing"}
    <3>1. t # 0
      BY DEF Turns
    <3>2. s # "close"
      BY <1>5, <2>3, <3>1
    <3> QED BY <1>1, <2>1, <2>3, <3>2
  <2> QED BY <2>1, <2>2, <2>3
<1> QED BY <1>6, <1>7, <1>8, <1>9, <1>10, <1>11 DEF Rest

LEMMA SnapshotKeeps == ASSUME IInv, NEW s \in Stoppers, Snapshot(s) PROVE IInv'
<1> USE DEF IInv
<1>1. stops[s] \in Stop /\ stops[s].at = "begun" /\ stops[s].of \in 0 .. MaxTurns
  BY DEF Snapshot, TypeOK, Stop
<1>2. UNCHANGED <<alive, born, turn, raising, cancel, reports, proc, interrupted, stopped, gaveUp>>
  BY DEF Snapshot, treeVars
<1>3. CASE CodexLives(stops[s].of)
  <2>1. /\ stops' = [stops EXCEPT ![s].at = "snapped", ![s].targets = alive[stops[s].of]]
        /\ UNCHANGED <<lock, pc, closing, missed>>
    BY <1>3 DEF Snapshot
  <2>2. alive[stops[s].of] \subseteq Members
    <3>1. stops[s].of \in Turns
      BY <1>1, <1>3 DEF CodexLives, Turns
    <3> QED BY <3>1 DEF TypeOK
  <2>3. /\ stops' \in [Stoppers -> Stop]
        /\ \A q \in Stoppers : /\ stops'[q].of = stops[q].of /\ stops'[q].orphan = stops[q].orphan
                               /\ stops'[q].at = "no" <=> stops[q].at = "no"
    BY <1>1, <2>1, <2>2 DEF TypeOK, Stop
  <2>4. TypeOK'
    BY <1>2, <2>1, <2>3 DEF TypeOK
  <2>5. StopOfTurn' /\ StopOfClose'
    BY <1>2, <2>1, <2>3 DEF Rest, StopOfTurn, StopOfClose, Stoppers
  <2>6. Rest'
    BY <1>2, <2>1, <2>5 DEF Rest, RunningHasProc, CancelIsClose, OneReported, Reported, CodexIsKnown
  <2> QED BY <2>4, <2>6
<1>4. CASE ~ CodexLives(stops[s].of)
  <2>1. StopReturns(s) /\ missed' \subseteq Jobs
    BY <1>4 DEF Snapshot, TypeOK
  <2>2. /\ alive' \in [Turns -> SUBSET Members] /\ \A t \in Turns : alive'[t] \subseteq alive[t]
        /\ stops[s].of = 0 \/ Codex \notin alive'[stops[s].of]
    BY <1>2, <1>4 DEF CodexLives, TypeOK
  <2> QED BY <1>1, <1>2, <2>1, <2>2, ReturnKeeps
<1> QED BY <1>3, <1>4

LEMMA KillKeeps == ASSUME IInv, NEW s \in Stoppers, Kill(s) PROVE IInv'
<1> USE DEF IInv
<1>1. stops[s] \in Stop /\ stops[s].at = "snapped" /\ stops[s].of \in 0 .. MaxTurns /\ StopReturns(s)
  BY DEF Kill, TypeOK, Stop
<1>2. UNCHANGED <<born, turn, raising, cancel, reports, proc, interrupted, stopped, missed, gaveUp>>
  BY DEF Kill
<1>3. alive' = [alive EXCEPT ![stops[s].of] = @ \ Killed(s)]
  BY DEF Kill
<1>4. Codex \in Killed(s)
  BY DEF Killed, Members
<1>5. /\ alive' \in [Turns -> SUBSET Members]
      /\ \A t \in Turns : alive'[t] \subseteq alive[t]
  BY <1>3 DEF TypeOK
<1>6. stops[s].of = 0 \/ Codex \notin alive'[stops[s].of]
  BY <1>1, <1>3, <1>4 DEF TypeOK, Turns
<1>7. missed' \subseteq Jobs
  BY <1>2 DEF TypeOK
<1> QED BY <1>1, <1>2, <1>5, <1>6, <1>7, ReturnKeeps

-----------------------------------------------------------------------------
(* The processes. *)

LEMMA StartsKeeps == ASSUME IInv, NEW t \in Turns, NEW j \in Jobs, Starts(t, j) PROVE IInv'
<1> USE DEF IInv
<1>1. UNCHANGED <<turn, pc, raising, cancel, reports, proc, interrupted, stops, lock, stopped, gaveUp, closing>>
  BY DEF Starts, turnVars
<1>2. /\ alive' = [alive EXCEPT ![t] = @ \cup {j}]
      /\ born' = [born EXCEPT ![t] = @ \cup {j}]
      /\ missed' \subseteq Jobs
  BY DEF Starts, TypeOK
<1>3. j \in Members /\ j # Codex
  BY DEF Members
<1>4. /\ alive' \in [Turns -> SUBSET Members] /\ born' \in [Turns -> SUBSET Members]
      /\ \A u \in Turns : alive'[u] \subseteq born'[u]
      /\ \A u \in Turns : Codex \in alive'[u] <=> Codex \in alive[u]
  BY <1>2, <1>3 DEF TypeOK
<1>5. TypeOK'
  BY <1>1, <1>2, <1>4 DEF TypeOK
<1>6. Rest'
  BY <1>1, <1>4 DEF Rest, RunningHasProc, CancelIsClose, StopOfTurn, StopOfClose, OneReported, Reported,
                    CodexIsKnown
<1> QED BY <1>5, <1>6

LEMMA ExitsKeeps == ASSUME IInv, NEW t \in Turns, NEW m \in Members, Exits(t, m) PROVE IInv'
<1> USE DEF IInv
<1>1. UNCHANGED <<born, turn, pc, raising, cancel, reports, proc, interrupted, stops, lock, stopped, missed, gaveUp, closing>>
  BY DEF Exits, turnVars, stopVars
<1>2. /\ alive' \in [Turns -> SUBSET Members]
      /\ \A u \in Turns : alive'[u] \subseteq alive[u]
  BY DEF Exits, TypeOK
<1>3. TypeOK'
  BY <1>1, <1>2 DEF TypeOK
<1>4. Rest'
  BY <1>1, <1>2 DEF Rest, RunningHasProc, CancelIsClose, StopOfTurn, StopOfClose, OneReported, Reported,
                    CodexIsKnown
<1> QED BY <1>3, <1>4

LEMMA StutterKeeps == ASSUME IInv, UNCHANGED vars PROVE IInv'
<1>1. UNCHANGED <<alive, born, turn, pc, raising, cancel, reports, proc, interrupted, stops, lock, stopped,
                  missed, gaveUp, closing>>
  BY DEF vars, treeVars, turnVars, stopVars
<1>2. TypeOK'
  BY <1>1 DEF IInv, TypeOK
<1>3. Rest'
  BY <1>1 DEF IInv, Rest, RunningHasProc, CancelIsClose, StopOfTurn, StopOfClose, OneReported, Reported,
              CodexIsKnown
<1> QED BY <1>2, <1>3 DEF IInv

LEMMA IInvKept == IInv /\ [Next]_vars => IInv'
<1> SUFFICES ASSUME IInv, [Next]_vars PROVE IInv'
  OBVIOUS
<1>1. CASE Turn
  BY <1>1, TurnKeeps
<1>2. CASE Terminal
  BY <1>2, TerminalKeeps
<1>3. CASE Created
  BY <1>3, CreatedKeeps
<1>4. CASE CreateFails \/ EndOfOutput \/ WaitCancelled
  BY <1>4, PlainStepKeeps
<1>5. CASE Exited
  BY <1>5, ExitedKeeps
<1>6. CASE ReadFails
  BY <1>6, ReadFailsKeeps
<1>7. CASE CleanupCancelled
  BY <1>7, CleanupCancelledKeeps
<1>8. CASE Interrupt
  BY <1>8, InterruptKeeps
<1>9. CASE Close
  BY <1>9, CloseKeeps
<1>10. CASE AClose
  BY <1>10, ACloseKeeps
<1>11. ASSUME NEW s \in Stoppers, TakesLock(s) \/ Snapshot(s) \/ Kill(s) PROVE IInv'
  BY <1>11, TakesLockKeeps, SnapshotKeeps, KillKeeps
<1>12. ASSUME NEW t \in Turns, NEW j \in Jobs, Starts(t, j) PROVE IInv'
  BY <1>12, StartsKeeps
<1>13. ASSUME NEW t \in Turns, NEW m \in Members, Exits(t, m) PROVE IInv'
  BY <1>13, ExitsKeeps
<1>14. CASE UNCHANGED vars
  BY <1>14, StutterKeeps
<1> QED BY <1>1, <1>2, <1>3, <1>4, <1>5, <1>6, <1>7, <1>8, <1>9, <1>10, <1>11, <1>12, <1>13, <1>14 DEF Next

-----------------------------------------------------------------------------
LEMMA Invariance == Spec => []IInv
<1>1. Init => IInv
  BY IInvInit
<1>2. IInv /\ [Next]_vars => IInv'
  BY IInvKept
<1> QED BY <1>1, <1>2, PTL DEF Spec

(* Every variable keeps its type. *)
THEOREM TypeCorrect == Spec => []TypeOK
<1>1. IInv => TypeOK
  BY DEF IInv
<1> QED BY <1>1, Invariance, PTL

(* No turn that has ended leaves its codex process behind: but for one     *)
(* whose wait a close has cancelled, which _proc keeps for that close       *)
(* (_run_turn, aclose).                                                     *)
THEOREM NoCodexLeft == Spec => []NoOrphanCodex
<1>1. IInv => NoOrphanCodex
  BY DEF IInv, Rest, CodexIsKnown, NoOrphanCodex
<1> QED BY <1>1, Invariance, PTL

(* A turn that returns has reported exactly one outcome, and one that a    *)
(* stop has found does not end as if codex had failed (_run_turn).          *)
THEOREM ReportsOne == Spec => OneOutcome
<1> DEFINE Ends == pc = "waiting" /\ pc' = "idle" /\ raising = "no"
           One == /\ \E o \in Outcomes : reports' = [p \in Outcomes |-> IF p = o THEN 1 ELSE 0]
                  /\ stopped => reports'["exit"] = 0
<1>1. ASSUME IInv, [Next]_vars, Ends PROVE One
  <2>1. CASE Exited
    BY <1>1, <2>1, ExitedKeeps DEF OnlyOne
  <2>2. CASE \E s \in Stoppers : TakesLock(s) \/ Snapshot(s) \/ Kill(s)
    <3>1. PICK s \in Stoppers : TakesLock(s) \/ Snapshot(s) \/ Kill(s)
      BY <2>2
    <3>2. pc' = pc \/ pc' = "draining"
      BY <3>1 DEF TakesLock, Snapshot, Kill, StopReturns, turnVars
    <3> QED BY <1>1, <3>2
  <2>3. ~ (Turn \/ Terminal \/ Created \/ CreateFails \/ EndOfOutput \/ ReadFails \/ CleanupCancelled
           \/ WaitCancelled)
    BY <1>1 DEF Turn, Terminal, Created, CreateFails, EndOfOutput, ReadFails, CleanupCancelled, WaitCancelled
  <2>4. ~ (Interrupt \/ Close \/ AClose \/ UNCHANGED vars)
    BY <1>1 DEF Interrupt, Close, AClose, vars, turnVars
  <2>5. /\ ~ \E t \in Turns, j \in Jobs : Starts(t, j)
        /\ ~ \E t \in Turns, m \in Members : Exits(t, m)
    BY <1>1 DEF Starts, Exits, turnVars
  <2> QED BY <1>1, <2>1, <2>2, <2>3, <2>4, <2>5 DEF Next
<1>2. IInv /\ [Next]_vars => [Ends => One]_vars
  BY <1>1
<1> QED BY <1>2, Invariance, PTL DEF Spec, OneOutcome
=============================================================================
