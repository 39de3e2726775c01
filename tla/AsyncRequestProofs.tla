------------------------ MODULE AsyncRequestProofs ------------------------
(***************************************************************************)
(* Safety of AsyncRequest for any set of agents, any number of deliveries  *)
(* of the request and any times, and that it implements RequestPromise.    *)
(***************************************************************************)
EXTENDS AsyncRequest, TLAPS

Active == {"recorded", "poll", "sleep", "report", "finish"}

\* The row guards the cast: it exists, and does not deny the cast, from the
\* moment a handler has inserted it.
RowGuardsCast ==
    /\ executed # {} => agentMsg
    /\ agentMsg => row.status # "none" /\ row.code \notin NotSentCodes
    /\ \A h \in Handlers :
          /\ pc[h] \in Active => row.status # "none" /\ row.code \notin NotSentCodes
          /\ pc[h] = "recorded" => ~agentMsg

\* The unique key of the row lets one delivery through.
OneActiveHandler ==
    \A h, g \in Handlers : pc[h] \in Active /\ pc[g] \in Active => h = g

\* Without the reserved interface only the active handler closes the row.
RowOpenWhileActive ==
    \A h \in Handlers : pc[h] \in Active => row.status = "UNFINISH" /\
                                            row.code = "RESULT_UNKNOWN"

Answered(a) == /\ \E k \in AnswerKind : <<a, k>> \in posted
               /\ Storage = "db" => Genuine(rec[a])

ClosedHasVerdict == row.status = "FINISH" => row.code # "RESULT_UNKNOWN"

AnsweredBy(agents) ==
    \A a \in agents : /\ \E k \in AnswerKind : <<a, k>> \in posted
                      /\ Storage = "db" => Genuine(rec[a])

\* Stored answers were posted by their agent; nothing but the checker's bulk
\* insertion writes an overtime record.
AnswersAreGenuine ==
    /\ overwriting \subseteq posted
    /\ \A a \in Agents : Genuine(rec[a]) => <<a, rec[a]>> \in posted
    /\ row.status = "none" => \A a \in Agents : rec[a] # "overtime"
    /\ \A h \in Handlers : pc[h] \in Active \ {"finish"} =>
          \A a \in Agents : rec[a] # "overtime"

\* Agents the checker does not count as silent have answered.
CheckerIsRight ==
    /\ \A h \in Handlers :
          /\ pc[h] \in Active \ {"finish"} => AnsweredBy(wait \ silent)
          /\ pc[h] = "finish" /\ silent = {} => AnsweredBy(wait)
    /\ row.code = "RESULT_SUCCESS" => AnsweredBy(wait)

\* The countdown is positive while the checker still counts.
CountdownPositive ==
    /\ row.status = "none" => left = 2
    /\ \A h \in Handlers : pc[h] \in {"recorded", "poll", "sleep"} => left > 0

\* What time says: a late report is made after finishtime, and the checker gives
\* up, and the verdict is NOT_ALL_SUCCESS, only after the deadline.
TimeIsUp == now > Deadline + 1

VerdictTimes ==
    /\ \A a \in Agents : /\ <<a, "answer">> \in posted => a \in executed
                         /\ <<a, "late">> \in posted => now >= Finishtime
    /\ \A h \in Handlers : pc[h] \in {"report", "finish"} => silent = {} \/ TimeIsUp
    /\ row.code = "RESULT_NOT_ALL_SUCCESS" => TimeIsUp

CastInv == TypeOK /\ RowGuardsCast /\ OneActiveHandler /\ CountdownPositive
VerdictInv ==
    /\ CastInv /\ RowOpenWhileActive /\ ClosedHasVerdict
    /\ AnswersAreGenuine /\ CheckerIsRight /\ VerdictTimes
    /\ api = "idle"

-----------------------------------------------------------------------------
LEMMA InitType == Init => TypeOK
  <1> SUFFICES ASSUME Init PROVE TypeOK
    OBVIOUS
  <1>1. row \in Row
    BY DEF Init, Row, NewRow
  <1>2. rec \in [Agents -> RecordKind]
    BY DEF Init, RecordKind
  <1>3. pc \in [Handlers -> {"idle", "recorded", "poll", "sleep", "report",
                             "finish", "done", "dead", "failed"}]
    BY DEF Init
  <1>4. /\ now \in Nat /\ left \in 0..2
        /\ sender = "idle" /\ api = "idle"
        /\ serverMsg = FALSE /\ agentMsg = FALSE
        /\ wait = {} /\ addressed = {} /\ executed = {} /\ silent = {}
        /\ posted = {} /\ overwriting = {}
    BY DEF Init
  <1> QED BY <1>1, <1>2, <1>3, <1>4 DEF TypeOK

\* Each disjunct of Next keeps the types; BulkInsert and InsertRow are expanded
\* once, here.
LEMMA InsertRowType ==
    ASSUME TypeOK, NEW r \in Row, InsertRow(r)
    PROVE  row' \in Row
  BY DEF TypeOK, InsertRow

LEMMA BulkInsertType ==
    ASSUME TypeOK, NEW agents \in SUBSET Agents, NEW first \in agents,
           BulkInsert(agents, first)
    PROVE  /\ rec' \in [Agents -> RecordKind]
           /\ BulkRest(agents, first) \in SUBSET Agents
  BY DEF TypeOK, BulkInsert, BulkRest, RecordKind

LEMMA NextType == CastInv /\ [Next]_vars => TypeOK'
  <1> SUFFICES ASSUME TypeOK, CountdownPositive, [Next]_vars PROVE TypeOK'
    BY DEF CastInv
  <1> USE DEF senderVars, serverVars, agentVars, answerVars
  <1>1. CASE Tick
    BY <1>1 DEF Tick, TypeOK
  <1>2. CASE SendCast
    BY <1>2 DEF SendCast, TypeOK
  <1>3. CASE SendRecordFailure
    <2>1. NewRow("FINISH", sender) \in Row
      BY <1>3 DEF SendRecordFailure, NewRow, Row, NotSentCodes
    <2>2. row' \in Row
      BY <1>3, <2>1, InsertRowType DEF SendRecordFailure
    <2> QED BY <1>3, <2>2 DEF SendRecordFailure, TypeOK
  <1>4. ASSUME NEW h \in Handlers, HandlerStep(h) PROVE TypeOK'
    <2>1. CASE Refuse(h)
      <3>1. \A code \in NotSentCodes : NewRow("FINISH", code) \in Row
        BY DEF NewRow, Row
      <3>2. row' \in Row
        BY <2>1, <3>1, InsertRowType DEF Refuse, NotSentCodes
      <3> QED BY <2>1, <3>2 DEF Refuse, TypeOK
    <2>2. CASE Record(h)
      <3>1. NewRow("UNFINISH", "RESULT_UNKNOWN") \in Row
        BY DEF NewRow, Row
      <3>2. row' \in Row
        BY <2>2, <3>1, InsertRowType DEF Record
      <3> QED BY <2>2, <3>2 DEF Record, TypeOK
    <2>3. CASE Cast(h)
      <3>1. row' \in Row
        BY <2>3 DEF Cast, TypeOK, Row, NotSentCodes
      <3> QED BY <2>3, <3>1 DEF Cast, TypeOK
    <2>4. CASE Poll(h)
      BY <2>4 DEF Poll, TypeOK, Silent
    <2>5. CASE Sleep(h)
      BY <2>5 DEF Sleep, TypeOK, CountdownPositive
    <2>6. CASE InsertOvertime(h)
      <3>1. /\ rec' \in [Agents -> RecordKind]
            /\ silent' \in SUBSET Agents
        <4>1. CASE silent = {}
          BY <2>6, <4>1 DEF InsertOvertime, TypeOK
        <4>2. CASE silent # {}
          <5>1. PICK first \in silent :
                   /\ BulkInsert(silent, first)
                   /\ silent' \in {BulkRest(silent, first), silent \ {first}}
            BY <2>6, <4>2 DEF InsertOvertime
          <5> QED BY <5>1, BulkInsertType DEF TypeOK
        <4> QED BY <4>1, <4>2
      <3>2. pc' \in [Handlers -> {"idle", "recorded", "poll", "sleep", "report",
                                  "finish", "done", "dead", "failed"}]
        <4>1. pc' = [pc EXCEPT ![h] = "finish"] \/ pc' = [pc EXCEPT ![h] = "failed"]
          BY <2>6 DEF InsertOvertime
        <4> QED BY <4>1 DEF TypeOK
      <3>3. UNCHANGED <<now, senderVars, row, wait, left, agentVars, overwriting, api>>
        BY <2>6 DEF InsertOvertime
      <3> QED BY <3>1, <3>2, <3>3 DEF TypeOK
    <2>7. CASE FinishCheck(h)
      <3>1. row' \in Row
        BY <2>7 DEF FinishCheck, TypeOK, Row, CheckedCodes
      <3> QED BY <2>7, <3>1 DEF FinishCheck, TypeOK
    <2>8. CASE Crash(h)
      BY <2>8 DEF Crash, TypeOK
    <2> QED BY <1>4, <2>1, <2>2, <2>3, <2>4, <2>5, <2>6, <2>7, <2>8 DEF HandlerStep
  <1>5. ASSUME NEW a \in Agents, AgentReceive(a) PROVE TypeOK'
    BY <1>5 DEF AgentReceive, TypeOK, AnswerKind
  <1>6. ASSUME NEW a \in Agents, RedisExpire(a) PROVE TypeOK'
    BY <1>6 DEF RedisExpire, TypeOK, RecordKind
  <1>7. ASSUME NEW a \in Agents, NEW k \in AnswerKind, AnswerStep(a, k) PROVE TypeOK'
    BY <1>7 DEF AnswerStep, StoreAnswer, ReadOvertime, OverwriteAnswer, TypeOK,
                RecordKind
  <1>8. CASE ApiCheck
    BY <1>8 DEF ApiCheck, TypeOK
  <1>9. CASE ApiBulk
    <2>1. PICK agents \in SUBSET Agents, first \in Agents :
             /\ first \in agents
             /\ BulkInsert(agents, first)
             /\ row' = IF BulkOk(agents, first) /\ BulkRest(agents, first) # {}
                       THEN [status |-> "FINISH", code |-> "RESULT_NOT_ALL_SUCCESS",
                             reported |-> BulkRest(agents, first)]
                       ELSE row
      BY <1>9 DEF ApiBulk
    <2>2. /\ rec' \in [Agents -> RecordKind]
          /\ BulkRest(agents, first) \in SUBSET Agents
      BY <2>1, BulkInsertType
    <2>3. row' \in Row
      BY <2>1, <2>2 DEF TypeOK, Row, CheckedCodes
    <2> QED BY <1>9, <2>2, <2>3 DEF ApiBulk, TypeOK
  <1>10. CASE UNCHANGED vars
    BY <1>10 DEF vars, TypeOK
  <1> QED BY <1>1, <1>2, <1>3, <1>4, <1>5, <1>6, <1>7, <1>8, <1>9, <1>10 DEF Next

-----------------------------------------------------------------------------
LEMMA InitCast == Init => CastInv
  <1> SUFFICES ASSUME Init PROVE CastInv
    OBVIOUS
  <1>1. \A h \in Handlers : pc[h] = "idle"
    BY DEF Init
  <1> QED BY <1>1, InitType
          DEF CastInv, RowGuardsCast, OneActiveHandler, CountdownPositive, Active,
              Init, NewRow

\* A refused or failed request writes a NotSentCode only where no row was, and
\* a recorded one opens a row only there.
LEMMA InsertRowEffect ==
    ASSUME NEW r, InsertRow(r), r.status # "none"
    PROVE  /\ row'.status # "none"
           /\ row.status # "none" => row' = row
           /\ row.status = "none" => row' = r
  BY DEF InsertRow

LEMMA NextCast == CastInv /\ [Next]_vars => CastInv'
  <1> SUFFICES ASSUME CastInv, [Next]_vars PROVE CastInv'
    OBVIOUS
  <1>0. TypeOK'
    BY NextType
  <1> DEFINE Rest == RowGuardsCast /\ OneActiveHandler /\ CountdownPositive
  <1> SUFFICES Rest'
    BY <1>0 DEF CastInv
  <1> USE DEF senderVars, serverVars, agentVars, answerVars
  <1>1. CASE UNCHANGED <<row, pc, left, agentMsg, executed>>
    BY <1>1 DEF CastInv, RowGuardsCast, OneActiveHandler, CountdownPositive
  <1>2. CASE SendRecordFailure
    <2>1. /\ row.status # "none" => row' = row
          /\ row'.status # "none"
      BY <1>2, InsertRowEffect DEF SendRecordFailure, NewRow
    <2> QED BY <1>2, <2>1 DEF SendRecordFailure, CastInv, RowGuardsCast,
               OneActiveHandler, CountdownPositive
  <1>3. ASSUME NEW h \in Handlers, HandlerStep(h) PROVE Rest'
    <2>1. CASE Refuse(h)
      <3>1. /\ row.status # "none" => row' = row
            /\ row'.status # "none"
        BY <2>1, InsertRowEffect DEF Refuse, NewRow
      <3>2. pc' = [pc EXCEPT ![h] = "done"] /\ UNCHANGED <<left, agentMsg, executed>>
        BY <2>1 DEF Refuse
      <3> QED BY <3>1, <3>2 DEF CastInv, TypeOK, RowGuardsCast, OneActiveHandler,
                 CountdownPositive, Active
    <2>2. CASE Record(h)
      <3>1. /\ row.status # "none" => row' = row
            /\ row.status = "none" => row' = NewRow("UNFINISH", "RESULT_UNKNOWN")
        BY <2>2 DEF Record, InsertRow
      <3>2. /\ row'.status # "none"
            /\ row.status = "none" => row'.code \notin NotSentCodes
        BY <3>1 DEF NewRow, NotSentCodes
      <3>3. /\ pc' = [pc EXCEPT ![h] = IF row.status = "none" THEN "recorded" ELSE "done"]
            /\ UNCHANGED <<left, agentMsg, executed>>
        BY <2>2 DEF Record
      <3> QED BY <3>1, <3>2, <3>3 DEF CastInv, TypeOK, RowGuardsCast,
                 OneActiveHandler, CountdownPositive, Active
    <2>3. CASE Cast(h)
      <3>1. \A g \in Handlers \ {h} : pc[g] \notin Active
        BY <2>3 DEF Cast, CastInv, OneActiveHandler, Active
      <3>2. ~agentMsg /\ executed = {} /\ row.status # "none" /\ left > 0
        BY <2>3 DEF Cast, CastInv, RowGuardsCast, CountdownPositive, Active
      <3>3. row.code \notin NotSentCodes
        BY <2>3 DEF Cast, CastInv, RowGuardsCast, Active
      <3>4. CASE pc' = [pc EXCEPT ![h] = "done"]
        <4>1. row'.status = "FINISH" /\ UNCHANGED <<left, agentMsg, executed>>
          BY <2>3, <3>4 DEF Cast, CastInv, TypeOK, Row
        <4> QED BY <3>1, <3>2, <3>4, <4>1 DEF CastInv, TypeOK, RowGuardsCast,
                   OneActiveHandler, CountdownPositive, Active
      <3>5. CASE pc' # [pc EXCEPT ![h] = "done"]
        <4>1. /\ row' = row /\ UNCHANGED <<left, executed>>
              /\ pc' \in {[pc EXCEPT ![h] = "poll"], [pc EXCEPT ![h] = "dead"]}
          BY <2>3, <3>5 DEF Cast
        <4> QED BY <3>1, <3>2, <3>3, <4>1 DEF CastInv, TypeOK, RowGuardsCast,
                   OneActiveHandler, CountdownPositive, Active
      <3> QED BY <3>4, <3>5
    <2>4. CASE Poll(h) \/ InsertOvertime(h) \/ Crash(h)
      <3>1. /\ pc[h] \in Active
            /\ \E p \in {"report", "sleep", "finish", "dead", "failed"} :
                  /\ pc' = [pc EXCEPT ![h] = p]
                  /\ p = "sleep" => pc[h] = "poll"
            /\ UNCHANGED <<row, left, agentMsg, executed>>
        BY <2>4 DEF Poll, InsertOvertime, Crash, Active, CastInv, TypeOK
      <3> QED BY <3>1 DEF CastInv, TypeOK, RowGuardsCast, OneActiveHandler,
                 CountdownPositive, Active
    <2>5. CASE Sleep(h)
      <3>1. \A g \in Handlers \ {h} : pc[g] \notin Active
        BY <2>5 DEF Sleep, CastInv, OneActiveHandler, Active
      <3>2. row.status # "none"
        BY <2>5 DEF Sleep, CastInv, RowGuardsCast, Active
      <3>3. /\ pc' = [pc EXCEPT ![h] = IF left' = 0 THEN "report" ELSE "poll"]
            /\ UNCHANGED <<row, agentMsg, executed>>
        BY <2>5 DEF Sleep
      <3>4. left' \in 0..2
        BY <1>0 DEF TypeOK
      <3> QED BY <2>5, <3>1, <3>2, <3>3, <3>4 DEF CastInv, TypeOK, RowGuardsCast,
                 OneActiveHandler, CountdownPositive, Active, Sleep
    <2>6. CASE FinishCheck(h)
      <3>1. /\ pc' = [pc EXCEPT ![h] = "done"]
            /\ row'.status = "FINISH" /\ row'.code \notin NotSentCodes
            /\ UNCHANGED <<left, agentMsg, executed>>
        BY <2>6 DEF FinishCheck, NotSentCodes
      <3> QED BY <3>1 DEF CastInv, TypeOK, RowGuardsCast, OneActiveHandler,
                 CountdownPositive, Active
    <2> QED BY <1>3, <2>1, <2>2, <2>3, <2>4, <2>5, <2>6 DEF HandlerStep
  <1>4. ASSUME NEW a \in Agents, AgentReceive(a) PROVE Rest'
    BY <1>4 DEF AgentReceive, CastInv, RowGuardsCast, OneActiveHandler,
            CountdownPositive
  <1>5. CASE ApiBulk
    <2>1. /\ row' = row \/ (row'.status = "FINISH" /\ row'.code = "RESULT_NOT_ALL_SUCCESS")
          /\ UNCHANGED <<pc, left, agentMsg, executed>>
      BY <1>5 DEF ApiBulk
    <2> QED BY <2>1 DEF CastInv, RowGuardsCast, OneActiveHandler,
               CountdownPositive, NotSentCodes
  <1> QED
    BY <1>1, <1>2, <1>3, <1>4, <1>5
       DEF Next, vars, Tick, SendCast, RedisExpire, AnswerStep, StoreAnswer,
           ReadOvertime, OverwriteAnswer, ApiCheck

LEMMA CastInvariant == Spec => []CastInv
  BY InitCast, NextCast, PTL DEF Spec

\* Every variable of the request keeps its type; in particular the checker's
\* countdown never runs below zero.
THEOREM TypeCorrect == Spec => []TypeOK
  <1>1. CastInv => TypeOK
    BY DEF CastInv
  <1> QED BY <1>1, CastInvariant, PTL

\* Whoever wins the race to write the row, one that denies the cast is true: no
\* agent has run the method.
THEOREM NeverSentNeverExecutedHolds == Spec => []NeverSentNeverExecuted
  <1>1. CastInv => NeverSentNeverExecuted
    BY DEF CastInv, RowGuardsCast, NeverSentNeverExecuted
  <1> QED BY <1>1, CastInvariant, PTL
-----------------------------------------------------------------------------
(***************************************************************************)
(* The verdict, when nobody calls the reserved interface.                  *)
(***************************************************************************)
LEMMA InitVerdict == Init => VerdictInv
  <1> SUFFICES ASSUME Init PROVE VerdictInv
    OBVIOUS
  <1>1. CastInv
    BY InitCast
  <1>2. /\ \A h \in Handlers : pc[h] = "idle"
        /\ \A a \in Agents : rec[a] = "none"
        /\ overwriting = {} /\ posted = {} /\ api = "idle"
        /\ row.code = "RESULT_UNKNOWN" /\ row.status = "none"
    BY DEF Init, NewRow
  <1> QED BY <1>1, <1>2 DEF VerdictInv, RowOpenWhileActive, ClosedHasVerdict,
             AnswersAreGenuine, CheckerIsRight, VerdictTimes, Active, Genuine, AnswerKind

\* A row that is written once is not written by the sender, by a refusal or by a
\* second delivery; what they write where there is none is no verdict.
LEMMA FirstWriterWins ==
    ASSUME NEW h \in Handlers, SendRecordFailure \/ Refuse(h) \/ Record(h)
    PROVE  /\ row.status # "none" => row' = row
           /\ row'.status # "none"
           /\ row.status = "none" => row'.code \notin CheckedCodes
  <1>1. CASE SendRecordFailure
    BY <1>1 DEF SendRecordFailure, InsertRow, NewRow, CheckedCodes
  <1>2. CASE Refuse(h)
    BY <1>2 DEF Refuse, InsertRow, NewRow, CheckedCodes
  <1>3. CASE Record(h)
    BY <1>3 DEF Record, InsertRow, NewRow, CheckedCodes
  <1> QED BY <1>1, <1>2, <1>3

LEMMA NextOpen ==
    ASSUME VerdictInv, api' = "idle", [Next]_vars
    PROVE  RowOpenWhileActive'
  <1> USE DEF senderVars, serverVars, agentVars, answerVars
  <1>0. TypeOK /\ RowGuardsCast /\ OneActiveHandler /\ RowOpenWhileActive
    BY DEF VerdictInv, CastInv
  <1>1. CASE UNCHANGED <<row, pc>>
    BY <1>0, <1>1 DEF RowOpenWhileActive
  <1>2. CASE SendRecordFailure
    <2>1. pc' = pc /\ (row.status # "none" => row' = row)
      BY <1>2 DEF SendRecordFailure, InsertRow
    <2> QED BY <1>0, <2>1 DEF RowOpenWhileActive, RowGuardsCast
  <1>3. ASSUME NEW h \in Handlers, HandlerStep(h) PROVE RowOpenWhileActive'
    <2>1. CASE Refuse(h)
      <3>1. pc' = [pc EXCEPT ![h] = "done"] /\ (row.status # "none" => row' = row)
        BY <2>1, FirstWriterWins DEF Refuse
      <3> QED BY <1>0, <3>1 DEF RowOpenWhileActive, RowGuardsCast, TypeOK, Active
    <2>2. CASE Record(h)
      <3>1. CASE row.status = "none"
        <4>1. /\ pc' = [pc EXCEPT ![h] = "recorded"]
              /\ row'.status = "UNFINISH" /\ row'.code = "RESULT_UNKNOWN"
          BY <2>2, <3>1 DEF Record, InsertRow, NewRow
        <4> QED BY <4>1 DEF RowOpenWhileActive
      <3>2. CASE row.status # "none"
        <4>1. pc' = [pc EXCEPT ![h] = "done"] /\ row' = row
          BY <2>2, <3>2, FirstWriterWins DEF Record
        <4> QED BY <1>0, <4>1 DEF RowOpenWhileActive, TypeOK, Active
      <3> QED BY <3>1, <3>2
    <2>3. CASE Cast(h) \/ FinishCheck(h)
      <3>1. /\ pc[h] \in Active
            /\ \A g \in Handlers \ {h} : pc[g] \notin Active
        BY <2>3, <1>0 DEF Cast, FinishCheck, OneActiveHandler, Active
      <3>2. \/ pc' = [pc EXCEPT ![h] = "done"]
            \/ row' = row /\ pc' \in {[pc EXCEPT ![h] = "poll"], [pc EXCEPT ![h] = "dead"]}
        BY <2>3 DEF Cast, FinishCheck
      <3> QED BY <1>0, <3>1, <3>2 DEF RowOpenWhileActive, TypeOK, Active
    <2>4. CASE Poll(h) \/ Sleep(h) \/ InsertOvertime(h) \/ Crash(h)
      <3>1. /\ pc[h] \in Active /\ row' = row
            /\ \A g \in Handlers \ {h} : pc'[g] = pc[g]
        BY <2>4, <1>0 DEF Poll, Sleep, InsertOvertime, Crash, Active, TypeOK
      <3> QED BY <1>0, <3>1 DEF RowOpenWhileActive
    <2> QED BY <1>3, <2>1, <2>2, <2>3, <2>4 DEF HandlerStep
  <1>4. ~ApiBulk
    BY DEF ApiBulk, VerdictInv
  <1> QED
    BY <1>1, <1>2, <1>3, <1>4
       DEF Next, vars, Tick, SendCast, AgentReceive, RedisExpire, AnswerStep,
           StoreAnswer, ReadOvertime, OverwriteAnswer, ApiCheck

LEMMA NextClosed ==
    ASSUME VerdictInv, api' = "idle", [Next]_vars
    PROVE  ClosedHasVerdict'
  <1> USE DEF senderVars, serverVars, agentVars, answerVars
  <1>0. TypeOK /\ ClosedHasVerdict
    BY DEF VerdictInv, CastInv
  <1>1. CASE row' = row
    BY <1>0, <1>1 DEF ClosedHasVerdict
  <1>2. CASE SendRecordFailure
    BY <1>0, <1>2 DEF SendRecordFailure, InsertRow, NewRow, ClosedHasVerdict
  <1>3. ASSUME NEW h \in Handlers, HandlerStep(h) PROVE ClosedHasVerdict'
    <2>1. CASE Refuse(h) \/ Record(h)
      BY <1>0, <2>1 DEF Refuse, Record, InsertRow, NewRow, ClosedHasVerdict
    <2>2. CASE Cast(h)
      <3>1. [row EXCEPT !.status = "FINISH", !.code = "SEND_FAIL"].code = "SEND_FAIL"
        BY <1>0 DEF TypeOK, Row
      <3> QED BY <1>0, <2>2, <3>1 DEF Cast, ClosedHasVerdict
    <2>3. CASE FinishCheck(h)
      BY <2>3 DEF FinishCheck, ClosedHasVerdict
    <2>4. CASE Poll(h) \/ Sleep(h) \/ InsertOvertime(h) \/ Crash(h)
      BY <1>1, <2>4 DEF Poll, Sleep, InsertOvertime, Crash
    <2> QED BY <1>3, <2>1, <2>2, <2>3, <2>4 DEF HandlerStep
  <1>4. ~ApiBulk
    BY DEF ApiBulk, VerdictInv
  <1> QED
    BY <1>1, <1>2, <1>3, <1>4
       DEF Next, vars, Tick, SendCast, AgentReceive, RedisExpire, AnswerStep,
           StoreAnswer, ReadOvertime, OverwriteAnswer, ApiCheck

\* The bulk insertion touches only agents without a record.
LEMMA BulkSparesAnswers ==
    ASSUME TypeOK, NEW agents \in SUBSET Agents, NEW first \in agents,
           BulkInsert(agents, first), NEW a \in Agents
    PROVE  rec'[a] = rec[a] \/ (rec[a] = "none" /\ rec'[a] = "overtime")
  BY DEF BulkInsert, BulkWritten, Silent, TypeOK

LEMMA InsertSparesAnswers ==
    ASSUME TypeOK, NEW h \in Handlers, InsertOvertime(h), NEW a \in Agents
    PROVE  rec'[a] = rec[a] \/ (rec[a] = "none" /\ rec'[a] = "overtime")
  <1>1. CASE silent = {}
    BY <1>1 DEF InsertOvertime
  <1>2. CASE silent # {}
    <2>1. PICK first \in silent : BulkInsert(silent, first)
      BY <1>2 DEF InsertOvertime
    <2>2. silent \in SUBSET Agents
      BY DEF TypeOK
    <2> QED BY <2>1, <2>2, BulkSparesAnswers
  <1> QED BY <1>1, <1>2

LEMMA NextAnswers ==
    ASSUME VerdictInv, api' = "idle", [Next]_vars
    PROVE  AnswersAreGenuine'
  <1> USE DEF senderVars, serverVars, agentVars, answerVars
  <1>0. TypeOK /\ RowGuardsCast /\ OneActiveHandler /\ AnswersAreGenuine
    BY DEF VerdictInv, CastInv
  <1>1. CASE UNCHANGED <<posted, overwriting, rec, row, pc>>
    BY <1>0, <1>1 DEF AnswersAreGenuine
  <1>2. CASE SendRecordFailure
    <2>1. /\ row'.status # "none"
          /\ UNCHANGED <<posted, overwriting, rec, pc>>
      BY <1>2 DEF SendRecordFailure, InsertRow, NewRow
    <2> QED BY <1>0, <2>1 DEF AnswersAreGenuine
  <1>3. ASSUME NEW h \in Handlers, HandlerStep(h) PROVE AnswersAreGenuine'
    <2>1. CASE Refuse(h) \/ Record(h)
      <3>1. /\ row'.status # "none"
            /\ UNCHANGED <<posted, overwriting, rec>>
            /\ \/ pc' = [pc EXCEPT ![h] = "done"]
               \/ row.status = "none" /\ pc' = [pc EXCEPT ![h] = "recorded"]
        BY <2>1 DEF Refuse, Record, InsertRow, NewRow
      <3> QED BY <1>0, <3>1 DEF AnswersAreGenuine, TypeOK, Active
    <2>2. CASE Cast(h) \/ Poll(h) \/ Sleep(h) \/ FinishCheck(h) \/ Crash(h)
      <3>1. /\ UNCHANGED <<posted, overwriting, rec>>
            /\ row' = row \/ row'.status = "FINISH"
            /\ \A g \in Handlers \ {h} : pc'[g] = pc[g]
            /\ pc[h] \in Active
        <4>1. /\ UNCHANGED <<posted, overwriting, rec>>
              /\ \A g \in Handlers \ {h} : pc'[g] = pc[g]
              /\ pc[h] \in Active
          BY <2>2, <1>0 DEF Cast, Poll, Sleep, FinishCheck, Crash, Active, TypeOK
        <4>2. row' = row \/ row'.status = "FINISH"
          <5>1. CASE Cast(h)
            <6>1. [row EXCEPT !.status = "FINISH", !.code = "SEND_FAIL"].status = "FINISH"
              BY <1>0 DEF TypeOK, Row
            <6> QED BY <5>1, <6>1 DEF Cast
          <5>2. CASE Poll(h) \/ Sleep(h) \/ FinishCheck(h) \/ Crash(h)
            BY <5>2 DEF Poll, Sleep, FinishCheck, Crash
          <5> QED BY <2>2, <5>1, <5>2
        <4> QED BY <4>1, <4>2
      <3>2. pc[h] = "finish" => pc'[h] \in {"done", "dead"}
        BY <2>2, <1>0 DEF Cast, Poll, Sleep, FinishCheck, Crash, TypeOK
      <3> QED BY <1>0, <3>1, <3>2 DEF AnswersAreGenuine, Active
    <2>3. CASE InsertOvertime(h)
      <3>1. /\ row' = row /\ UNCHANGED <<posted, overwriting>>
            /\ pc[h] = "report"
            /\ \A g \in Handlers \ {h} : pc'[g] = pc[g]
        BY <2>3, <1>0 DEF InsertOvertime, TypeOK
      <3>2. \A g \in Handlers \ {h} : pc[g] \notin Active
        BY <1>0, <3>1 DEF OneActiveHandler, Active
      <3>3. row.status # "none"
        BY <1>0, <3>1 DEF RowGuardsCast, Active
      <3>4. pc'[h] \in {"finish", "failed"}
        BY <2>3, <1>0 DEF InsertOvertime, TypeOK
      <3>5. \A a \in Agents : Genuine(rec'[a]) => rec'[a] = rec[a]
        BY <2>3, <1>0, InsertSparesAnswers DEF Genuine, AnswerKind
      <3> QED BY <1>0, <3>1, <3>2, <3>3, <3>4, <3>5 DEF AnswersAreGenuine, Active
    <2> QED BY <1>3, <2>1, <2>2, <2>3 DEF HandlerStep
  <1>4. ASSUME NEW a \in Agents, AgentReceive(a) PROVE AnswersAreGenuine'
    <2>1. posted \subseteq posted' /\ UNCHANGED <<overwriting, rec, row, pc>>
      BY <1>4 DEF AgentReceive
    <2> QED BY <1>0, <2>1 DEF AnswersAreGenuine
  <1>5. ASSUME NEW a \in Agents, RedisExpire(a) PROVE AnswersAreGenuine'
    BY <1>0, <1>5 DEF RedisExpire, AnswersAreGenuine, TypeOK, Genuine, AnswerKind
  <1>6. ASSUME NEW a \in Agents, NEW k \in AnswerKind, AnswerStep(a, k)
        PROVE AnswersAreGenuine'
    <2>1. /\ UNCHANGED <<posted, row, pc>>
          /\ overwriting' \subseteq posted
          /\ \/ rec' = rec
             \/ rec' = [rec EXCEPT ![a] = k] /\ <<a, k>> \in posted
      BY <1>0, <1>6 DEF AnswerStep, StoreAnswer, ReadOvertime, OverwriteAnswer,
                        AnswersAreGenuine
    <2> QED BY <1>0, <2>1 DEF AnswersAreGenuine, TypeOK, Genuine, AnswerKind
  <1>7. ~ApiBulk
    BY DEF ApiBulk, VerdictInv
  <1> QED
    BY <1>1, <1>2, <1>3, <1>4, <1>5, <1>6, <1>7 DEF Next, vars, Tick, SendCast, ApiCheck

\* An answer given stays given: posts are never withdrawn, and with the database
\* a stored answer is only replaced by another.
LEMMA AnswersPersist ==
    ASSUME VerdictInv, api' = "idle", [Next]_vars, NEW S \in SUBSET Agents,
           AnsweredBy(S)
    PROVE  AnsweredBy(S)'
  <1> USE DEF senderVars, serverVars, agentVars, answerVars
  <1>0. TypeOK /\ AnswersAreGenuine
    BY DEF VerdictInv, CastInv
  <1>1. posted \subseteq posted'
    BY DEF Next, vars, Tick, SendCast, SendRecordFailure, HandlerStep, Refuse, Record,
           Cast, Poll, Sleep, InsertOvertime, FinishCheck, Crash, AgentReceive,
           RedisExpire, AnswerStep, StoreAnswer, ReadOvertime, OverwriteAnswer,
           ApiCheck, ApiBulk
  <1>2. ASSUME Storage = "db", NEW a \in Agents, Genuine(rec[a])
        PROVE  Genuine(rec'[a])
    <2>1. CASE rec' = rec
      BY <1>2, <2>1
    <2>2. ASSUME NEW h \in Handlers, InsertOvertime(h) PROVE Genuine(rec'[a])
      BY <1>0, <1>2, <2>2, InsertSparesAnswers DEF Genuine, AnswerKind
    <2>3. ASSUME NEW b \in Agents, NEW k \in AnswerKind, AnswerStep(b, k)
          PROVE  Genuine(rec'[a])
      <3>1. rec' = rec \/ rec' = [rec EXCEPT ![b] = k]
        BY <2>3 DEF AnswerStep, StoreAnswer, ReadOvertime, OverwriteAnswer
      <3> QED BY <1>0, <1>2, <3>1 DEF Genuine, TypeOK
    <2>4. ~ApiBulk
      BY DEF ApiBulk, VerdictInv
    <2>5. \A b \in Agents : ~RedisExpire(b)
      BY <1>2 DEF RedisExpire
    <2> QED
      BY <2>1, <2>2, <2>3, <2>4, <2>5
         DEF Next, vars, Tick, SendCast, SendRecordFailure, HandlerStep, Refuse,
             Record, Cast, Poll, Sleep, FinishCheck, Crash, AgentReceive, ApiCheck
  <1> QED BY <1>1, <1>2 DEF AnsweredBy

\* The poll takes an agent off the silent set for an answer, and so does the
\* duplicate that empties the set: then it held the first agent alone.
LEMMA PollFindsAnswers ==
    ASSUME VerdictInv, NEW h \in Handlers, pc[h] \in Active \ {"finish"},
           NEW a \in Agents, rec[a] # "none"
    PROVE  AnsweredBy({a})
  <1>1. rec[a] # "overtime" /\ rec[a] \in RecordKind
    BY DEF VerdictInv, AnswersAreGenuine, CastInv, TypeOK
  <1>2. Genuine(rec[a]) /\ rec[a] \in AnswerKind
    BY <1>1 DEF RecordKind, Genuine
  <1>3. <<a, rec[a]>> \in posted
    BY <1>2 DEF VerdictInv, AnswersAreGenuine
  <1> QED BY <1>2, <1>3 DEF AnsweredBy

LEMMA EmptiedByAnswer ==
    ASSUME VerdictInv, NEW first \in silent, BulkRest(silent, first) = {}
    PROVE  silent = {first} /\ rec[first] # "none"
  <1>1. BulkDuplicates(silent, first) # {} /\ silent = {first}
    BY DEF BulkRest
  <1>2. CASE Storage = "db"
    BY <1>1, <1>2 DEF BulkDuplicates
  <1>3. CASE Storage # "db"
    BY <1>1, <1>3 DEF BulkDuplicates
  <1> QED BY <1>1, <1>2, <1>3

LEMMA NextChecker ==
    ASSUME VerdictInv, api' = "idle", [Next]_vars
    PROVE  CheckerIsRight'
  <1> USE DEF senderVars, serverVars, agentVars, answerVars
  <1>0. TypeOK /\ RowGuardsCast /\ OneActiveHandler /\ CheckerIsRight
    BY DEF VerdictInv, CastInv
  <1>a. \A S \in SUBSET Agents : AnsweredBy(S) => AnsweredBy(S)'
    BY AnswersPersist
  <1>b. wait \in SUBSET Agents /\ wait \ silent \in SUBSET Agents
    BY <1>0 DEF TypeOK
  <1>1. CASE UNCHANGED <<row, pc, wait, silent>>
    BY <1>0, <1>1, <1>a, <1>b DEF CheckerIsRight
  <1>2. CASE SendRecordFailure
    <2>1. /\ UNCHANGED <<pc, wait, silent>>
          /\ row' = row \/ row'.code # "RESULT_SUCCESS"
      BY <1>2 DEF SendRecordFailure, InsertRow, NewRow
    <2> QED BY <1>0, <2>1, <1>a, <1>b DEF CheckerIsRight
  <1>3. ASSUME NEW h \in Handlers, HandlerStep(h) PROVE CheckerIsRight'
    <2>0. pc[h] \in Active => \A g \in Handlers \ {h} : pc[g] \notin Active
      BY <1>0 DEF OneActiveHandler
    <2>1. CASE Refuse(h)
      <3>1. /\ UNCHANGED <<wait, silent>>
            /\ pc' = [pc EXCEPT ![h] = "done"]
            /\ row' = row \/ row'.code # "RESULT_SUCCESS"
        BY <2>1 DEF Refuse, InsertRow, NewRow
      <3> QED BY <1>0, <3>1, <1>a, <1>b DEF CheckerIsRight, TypeOK, Active
    <2>2. CASE Record(h)
      <3>1. CASE row.status = "none"
        <4>1. /\ row'.code # "RESULT_SUCCESS" /\ wait' \ silent' = {}
              /\ pc' = [pc EXCEPT ![h] = "recorded"]
          BY <2>2, <3>1 DEF Record, InsertRow, NewRow
        <4>2. \A g \in Handlers : pc[g] \notin Active
          BY <1>0, <3>1 DEF RowGuardsCast
        <4> QED BY <1>0, <4>1, <4>2 DEF CheckerIsRight, AnsweredBy, TypeOK, Active
      <3>2. CASE row.status # "none"
        <4>1. /\ UNCHANGED <<row, wait, silent>>
              /\ pc' = [pc EXCEPT ![h] = "done"]
          BY <2>2, <3>2 DEF Record, InsertRow
        <4> QED BY <1>0, <4>1, <1>a, <1>b DEF CheckerIsRight, TypeOK, Active
      <3> QED BY <3>1, <3>2
    <2>3. CASE Cast(h) \/ Sleep(h) \/ Crash(h)
      <3>1. pc[h] \in Active /\ UNCHANGED <<wait, silent>>
        BY <2>3, <1>0 DEF Cast, Sleep, Crash, Active, TypeOK
      <3>2. /\ pc'[h] # "finish"
            /\ pc'[h] \in Active => pc[h] # "finish"
            /\ \A g \in Handlers \ {h} : pc'[g] = pc[g]
        BY <2>3, <1>0 DEF Cast, Sleep, Crash, Active, TypeOK
      <3>3. row' = row \/ row'.code # "RESULT_SUCCESS"
        <4>1. CASE Cast(h)
          <5>1. [row EXCEPT !.status = "FINISH", !.code = "SEND_FAIL"].code = "SEND_FAIL"
            BY <1>0 DEF TypeOK, Row
          <5> QED BY <4>1, <5>1 DEF Cast
        <4>2. CASE Sleep(h) \/ Crash(h)
          BY <4>2 DEF Sleep, Crash
        <4> QED BY <2>3, <4>1, <4>2
      <3> QED BY <1>0, <2>0, <3>1, <3>2, <3>3, <1>a, <1>b DEF CheckerIsRight, Active
    <2>4. CASE Poll(h)
      <3>1. /\ pc[h] = "poll" /\ UNCHANGED <<row, wait>>
            /\ \A g \in Handlers \ {h} : pc'[g] = pc[g]
            /\ pc'[h] \in {"report", "sleep"}
            /\ silent' = Silent(silent)
        BY <2>4, <1>0 DEF Poll, TypeOK
      <3>2. ASSUME NEW a \in wait \ silent' PROVE AnsweredBy({a})
        <4>1. CASE a \notin silent
          <5>1. AnsweredBy(wait \ silent)
            BY <1>0, <3>1 DEF CheckerIsRight, Active
          <5> QED BY <4>1, <5>1 DEF AnsweredBy
        <4>2. CASE a \in silent
          BY <3>1, <4>2, <1>b, PollFindsAnswers DEF Silent, Active
        <4> QED BY <4>1, <4>2
      <3>3. AnsweredBy(wait \ silent')
        BY <3>2 DEF AnsweredBy
      <3>4. UNCHANGED <<posted, rec>>
        BY <2>4 DEF Poll
      <3>5. AnsweredBy(wait \ silent)'
        BY <3>1, <3>3, <3>4 DEF AnsweredBy
      <3> QED BY <1>0, <2>0, <3>1, <3>5, <1>a, <1>b DEF CheckerIsRight, Active
    <2>5. CASE InsertOvertime(h)
      <3>1. /\ pc[h] = "report" /\ UNCHANGED <<row, wait>>
            /\ \A g \in Handlers \ {h} : pc'[g] = pc[g]
            /\ pc'[h] \in {"finish", "failed"}
        BY <2>5, <1>0 DEF InsertOvertime, TypeOK
      <3>2. AnsweredBy(wait \ silent)
        BY <1>0, <3>1 DEF CheckerIsRight, Active
      <3>3. ASSUME pc'[h] = "finish", silent' = {} PROVE AnsweredBy(wait)
        <4>1. CASE silent = {}
          BY <3>2, <4>1 DEF AnsweredBy
        <4>2. CASE silent # {}
          <5>1. PICK first \in silent :
                   \/ silent' = BulkRest(silent, first)
                   \/ pc' = [pc EXCEPT ![h] = "failed"]
            BY <2>5, <4>2 DEF InsertOvertime
          <5>2. BulkRest(silent, first) = {}
            BY <3>3, <5>1, <1>0 DEF TypeOK
          <5>3. silent = {first} /\ rec[first] # "none"
            BY <5>2, EmptiedByAnswer
          <5>4. AnsweredBy({first})
            BY <3>1, <5>3, <1>0, PollFindsAnswers DEF Active, TypeOK
          <5> QED BY <3>2, <5>3, <5>4 DEF AnsweredBy
        <4> QED BY <4>1, <4>2
      <3> QED BY <1>0, <2>0, <3>1, <3>3, <1>a, <1>b DEF CheckerIsRight, Active
    <2>6. CASE FinishCheck(h)
      <3>1. /\ pc[h] = "finish" /\ UNCHANGED <<wait, silent>>
            /\ pc' = [pc EXCEPT ![h] = "done"]
            /\ row'.code = "RESULT_SUCCESS" => silent = {}
        BY <2>6 DEF FinishCheck
      <3> QED BY <1>0, <2>0, <3>1, <1>a, <1>b DEF CheckerIsRight, TypeOK, Active
    <2> QED BY <1>3, <2>1, <2>2, <2>3, <2>4, <2>5, <2>6 DEF HandlerStep
  <1>4. ~ApiBulk
    BY DEF ApiBulk, VerdictInv
  <1> QED
    BY <1>1, <1>2, <1>3, <1>4
       DEF Next, vars, Tick, SendCast, AgentReceive, RedisExpire, AnswerStep,
           StoreAnswer, ReadOvertime, OverwriteAnswer, ApiCheck

LEMMA NextTimes ==
    ASSUME VerdictInv, api' = "idle", [Next]_vars
    PROVE  VerdictTimes'
  <1> USE DEF senderVars, serverVars, agentVars, answerVars
  <1>0. TypeOK /\ VerdictTimes
    BY DEF VerdictInv, CastInv
  <1>a. now' = now \/ now' = now + 1
    BY DEF Next, vars, Tick, SendCast, SendRecordFailure, HandlerStep, Refuse, Record,
           Cast, Poll, Sleep, InsertOvertime, FinishCheck, Crash, AgentReceive,
           RedisExpire, AnswerStep, StoreAnswer, ReadOvertime, OverwriteAnswer,
           ApiCheck, ApiBulk
  <1>b. /\ TimeIsUp => TimeIsUp'
        /\ now >= Finishtime => now' >= Finishtime
    BY <1>0, <1>a, TimesAssumption DEF TimeIsUp, TypeOK
  <1>1. CASE UNCHANGED <<row, pc, silent, posted, executed>>
    BY <1>0, <1>1, <1>b DEF VerdictTimes
  <1>2. CASE SendRecordFailure
    <2>1. /\ UNCHANGED <<now, pc, silent, posted, executed>>
          /\ row' = row \/ row'.code # "RESULT_NOT_ALL_SUCCESS"
      BY <1>2 DEF SendRecordFailure, InsertRow, NewRow
    <2> QED BY <1>0, <2>1 DEF VerdictTimes, TimeIsUp
  <1>3. ASSUME NEW h \in Handlers, HandlerStep(h) PROVE VerdictTimes'
    <2>0. UNCHANGED <<now, posted, executed>>
      BY <1>3 DEF HandlerStep, Refuse, Record, Cast, Poll, Sleep, InsertOvertime,
                  FinishCheck, Crash
    <2>1. CASE Refuse(h) \/ Record(h)
      <3>1. row' = row \/ row'.code # "RESULT_NOT_ALL_SUCCESS"
        BY <2>1 DEF Refuse, Record, InsertRow, NewRow
      <3>2. \/ pc' = [pc EXCEPT ![h] = "done"] /\ silent' = silent
            \/ pc' = [pc EXCEPT ![h] = "recorded"] /\ row.status = "none"
        BY <2>1 DEF Refuse, Record
      <3>3. row.status = "none" => \A g \in Handlers : pc[g] \notin Active
        BY DEF VerdictInv, CastInv, RowGuardsCast
      <3> QED BY <1>0, <2>0, <3>1, <3>2, <3>3 DEF VerdictTimes, TimeIsUp, TypeOK, Active
    <2>2. CASE Cast(h) \/ Crash(h)
      <3>1. /\ silent' = silent
            /\ \E p \in {"poll", "done", "dead"} : pc' = [pc EXCEPT ![h] = p]
        BY <2>2 DEF Cast, Crash
      <3>2. row' = row \/ row'.code = "SEND_FAIL"
        <4>1. [row EXCEPT !.status = "FINISH", !.code = "SEND_FAIL"].code = "SEND_FAIL"
          BY <1>0 DEF TypeOK, Row
        <4> QED BY <2>2, <4>1 DEF Cast, Crash
      <3> QED BY <1>0, <2>0, <3>1, <3>2 DEF VerdictTimes, TimeIsUp, TypeOK
    <2>3. CASE Poll(h) \/ Sleep(h) \/ InsertOvertime(h)
      <3>1. /\ pc[h] \in Active /\ row' = row
            /\ \A g \in Handlers \ {h} : pc'[g] = pc[g]
        BY <2>3, <1>0 DEF Poll, Sleep, InsertOvertime, Active, TypeOK
      <3>2. \A g \in Handlers \ {h} : pc[g] \notin Active
        BY <3>1 DEF VerdictInv, CastInv, OneActiveHandler
      <3>3. pc'[h] \in {"report", "finish"} => silent' = {} \/ TimeIsUp
        <4>1. CASE Poll(h)
          BY <4>1, <1>0 DEF Poll, TypeOK
        <4>2. CASE Sleep(h)
          <5>1. left > 0 /\ pc[h] = "sleep"
            BY <4>2 DEF Sleep, VerdictInv, CastInv, CountdownPositive
          <5>2. pc'[h] \in {"report", "finish"} => left' = 0
            BY <4>2, <1>0 DEF Sleep, TypeOK
          <5> QED BY <4>2, <5>1, <5>2, <1>0 DEF Sleep, TimeIsUp, TypeOK
        <4>3. CASE InsertOvertime(h)
          <5>1. pc[h] = "report" /\ (silent = {} => silent' = silent)
            BY <4>3 DEF InsertOvertime
          <5> QED BY <5>1, <1>0 DEF VerdictTimes
        <4> QED BY <2>3, <4>1, <4>2, <4>3
      <3> QED BY <1>0, <2>0, <3>1, <3>2, <3>3 DEF VerdictTimes, TimeIsUp, Active
    <2>4. CASE FinishCheck(h)
      <3>1. /\ pc[h] = "finish" /\ silent' = silent
            /\ pc' = [pc EXCEPT ![h] = "done"]
            /\ row'.code = "RESULT_NOT_ALL_SUCCESS" => silent # {}
        BY <2>4 DEF FinishCheck
      <3> QED BY <1>0, <2>0, <3>1 DEF VerdictTimes, TimeIsUp, TypeOK
    <2> QED BY <1>3, <2>1, <2>2, <2>3, <2>4 DEF HandlerStep
  <1>4. ASSUME NEW a \in Agents, AgentReceive(a) PROVE VerdictTimes'
    <2>1. UNCHANGED <<now, row, pc, silent>>
      BY <1>4 DEF AgentReceive
    <2>2. \/ /\ now >= Finishtime /\ executed' = executed
             /\ posted' = posted \cup {<<a, "late">>}
          \/ /\ executed' = executed \cup {a}
             /\ posted' = posted \cup {<<a, "answer">>}
      BY <1>4 DEF AgentReceive
    <2> QED BY <1>0, <2>1, <2>2 DEF VerdictTimes, TimeIsUp
  <1>5. ~ApiBulk
    BY DEF ApiBulk, VerdictInv
  <1> QED
    BY <1>1, <1>2, <1>3, <1>4, <1>5
       DEF Next, vars, Tick, SendCast, RedisExpire, AnswerStep, StoreAnswer,
           ReadOvertime, OverwriteAnswer, ApiCheck

LEMMA ApiStaysIdle ==
    ASSUME ~ReservedApi, api = "idle", [Next]_vars
    PROVE  api' = "idle"
  BY DEF Next, vars, Tick, SendCast, SendRecordFailure, HandlerStep, Refuse, Record,
         Cast, Poll, Sleep, InsertOvertime, FinishCheck, Crash, AgentReceive,
         RedisExpire, AnswerStep, StoreAnswer, ReadOvertime, OverwriteAnswer,
         ApiCheck, ApiBulk

LEMMA VerdictStep ==
    ASSUME ~ReservedApi, VerdictInv, [Next]_vars
    PROVE  VerdictInv'
  <1>1. api' = "idle"
    BY ApiStaysIdle DEF VerdictInv
  <1>2. CastInv'
    BY NextCast DEF VerdictInv
  <1> QED BY <1>1, <1>2, NextOpen, NextClosed, NextAnswers, NextChecker, NextTimes DEF VerdictInv

LEMMA VerdictInvariant ==
    ASSUME ~ReservedApi
    PROVE  Spec => []VerdictInv
  <1>1. VerdictInv /\ [Next]_vars => VerdictInv'
    BY VerdictStep
  <1> QED BY <1>1, InitVerdict, PTL DEF Spec

\* When nobody calls the reserved interface, SUCCESS is said only of a request
\* that every awaited agent answered, and with the database the answers are there.
THEOREM SuccessMeansAllAnsweredHolds ==
    ASSUME ~ReservedApi
    PROVE  Spec => []SuccessMeansAllAnswered
  <1>1. VerdictInv => SuccessMeansAllAnswered
    BY DEF VerdictInv, CheckerIsRight, AnsweredBy, SuccessMeansAllAnswered
  <1> QED BY <1>1, VerdictInvariant, PTL

\* Nothing rewrites the row of a finished request.
THEOREM FinishIsFinalHolds ==
    ASSUME ~ReservedApi
    PROVE  Spec => FinishIsFinal
  <1>1. VerdictInv /\ [Next]_vars => [row.status = "FINISH" => row' = row]_vars
    <2> SUFFICES ASSUME VerdictInv, Next, row.status = "FINISH" PROVE row' = row
      BY DEF vars
    <2>1. \A h \in Handlers : pc[h] \notin Active
      BY DEF VerdictInv, RowOpenWhileActive
    <2>2. ASSUME NEW h \in Handlers, HandlerStep(h) PROVE row' = row
      BY <2>1, <2>2 DEF HandlerStep, Refuse, Record, InsertRow, Cast, Poll, Sleep,
                        InsertOvertime, FinishCheck, Crash, Active
    <2>3. ~ApiBulk
      BY DEF ApiBulk, VerdictInv
    <2> QED
      BY <2>2, <2>3
         DEF Next, Tick, SendCast, SendRecordFailure, InsertRow, AgentReceive,
             RedisExpire, AnswerStep, StoreAnswer, ReadOvertime, OverwriteAnswer,
             ApiCheck, serverVars, senderVars, agentVars, answerVars
  <1> QED BY <1>1, VerdictInvariant, PTL DEF Spec, FinishIsFinal

\* The checker's overtime record never replaces an agent's own answer, also when
\* the reserved interface is called.
THEOREM OvertimeNeverReplacesAnswerHolds == Spec => OvertimeNeverReplacesAnswer
  <1>1. TypeOK /\ [Next]_vars =>
          [\A a \in Agents : Genuine(rec[a]) => rec'[a] # "overtime"]_vars
    <2> SUFFICES ASSUME TypeOK, Next, NEW a \in Agents, Genuine(rec[a])
                 PROVE  rec'[a] # "overtime"
      BY DEF vars
    <2>0. rec[a] # "overtime" /\ rec[a] # "none"
      BY DEF Genuine, AnswerKind
    <2>1. ASSUME NEW h \in Handlers, HandlerStep(h) PROVE rec'[a] # "overtime"
      <3>1. CASE InsertOvertime(h)
        BY <2>0, <3>1, InsertSparesAnswers
      <3>2. CASE ~InsertOvertime(h)
        BY <2>0, <2>1, <3>2 DEF HandlerStep, Refuse, Record, Cast, Poll, Sleep,
                            FinishCheck, Crash, answerVars
      <3> QED BY <3>1, <3>2
    <2>2. ASSUME NEW b \in Agents, NEW k \in AnswerKind, AnswerStep(b, k)
          PROVE  rec'[a] # "overtime"
      BY <2>0, <2>2 DEF AnswerStep, StoreAnswer, ReadOvertime, OverwriteAnswer,
                        TypeOK, AnswerKind
    <2>3. ASSUME NEW b \in Agents, RedisExpire(b) PROVE rec'[a] # "overtime"
      BY <2>0, <2>3 DEF RedisExpire, TypeOK
    <2>4. CASE ApiBulk
      <3>1. PICK agents \in SUBSET Agents, first \in Agents :
               first \in agents /\ BulkInsert(agents, first)
        BY <2>4 DEF ApiBulk
      <3> QED BY <2>0, <3>1, BulkSparesAnswers
    <2> QED
      BY <2>0, <2>1, <2>2, <2>3, <2>4
         DEF Next, Tick, SendCast, SendRecordFailure, AgentReceive, ApiCheck, answerVars
  <1> QED BY <1>1, TypeCorrect, PTL DEF Spec, OvertimeNeverReplacesAnswer

\* Once the request is closed, an awaited agent that has not done the work is too late.
LEMMA NoLateWork ==
    ASSUME VerdictInv, row.status = "FINISH", NEW a \in wait, AgentReceive(a),
           a \in executed', a \notin executed
    PROVE  FALSE
  <1>1. now < Finishtime /\ agentMsg /\ now \in Nat /\ a \in Agents
    BY TimesAssumption DEF AgentReceive, VerdictInv, CastInv, TypeOK
  <1>2. row.code \in CheckedCodes
    BY <1>1 DEF VerdictInv, CastInv, RowGuardsCast, ClosedHasVerdict,
            TypeOK, Row
  <1>3. CASE row.code = "RESULT_SUCCESS"
    <2>1. PICK k \in AnswerKind : <<a, k>> \in posted
      BY <1>3 DEF VerdictInv, CheckerIsRight, AnsweredBy
    <2>2. <<a, "late">> \in posted => now >= Finishtime
      BY <1>1 DEF VerdictInv, VerdictTimes
    <2>3. <<a, "answer">> \notin posted
      BY <1>1 DEF VerdictInv, VerdictTimes
    <2> QED BY <1>1, <2>1, <2>2, <2>3, TimesAssumption DEF AnswerKind
  <1>4. CASE row.code = "RESULT_NOT_ALL_SUCCESS"
    BY <1>1, <1>4, TimesAssumption DEF VerdictInv, VerdictTimes, TimeIsUp
  <1> QED BY <1>2, <1>3, <1>4 DEF CheckedCodes

\* No awaited agent starts the work once the request is closed.
THEOREM NoFirstExecutionAfterFinishHolds ==
    ASSUME ~ReservedApi
    PROVE  Spec => NoFirstExecutionAfterFinish
  <1>1. VerdictInv /\ [Next]_vars =>
          [row.status = "FINISH" => (executed' \ executed) \cap wait = {}]_vars
    <2> SUFFICES ASSUME VerdictInv, Next, row.status = "FINISH",
                        NEW a \in wait, a \in executed', a \notin executed
                 PROVE  FALSE
      BY DEF vars
    <2>1. AgentReceive(a)
      BY DEF Next, Tick, SendCast, SendRecordFailure, HandlerStep, Refuse, Record,
             Cast, Poll, Sleep, InsertOvertime, FinishCheck, Crash, AgentReceive,
             RedisExpire, AnswerStep, StoreAnswer, ReadOvertime, OverwriteAnswer,
             ApiCheck, ApiBulk, agentVars
    <2> QED BY <2>1, NoLateWork DEF VerdictInv, CastInv, TypeOK
  <1> QED BY <1>1, VerdictInvariant, PTL DEF Spec, NoFirstExecutionAfterFinish

-----------------------------------------------------------------------------
(***************************************************************************)
(* The records behind NOT_ALL_SUCCESS, with the database.                  *)
(***************************************************************************)
AllRecorded(agents) == \A a \in agents : rec[a] # "none"

\* Between the bulk insertion and the verdict every awaited agent has a record,
\* and afterwards still.
RecordsComplete ==
    /\ \A h \in Handlers : pc[h] = "finish" => AllRecorded(wait)
    /\ row.code = "RESULT_NOT_ALL_SUCCESS" => AllRecorded(wait)

\* In the database a record may change and does not go.
LEMMA RecordsPersist ==
    ASSUME Storage = "db", TypeOK, [Next]_vars, NEW a \in Agents, rec[a] # "none"
    PROVE  rec'[a] # "none"
  <1>1. CASE rec' = rec
    BY <1>1
  <1>2. ASSUME NEW h \in Handlers, InsertOvertime(h) PROVE rec'[a] # "none"
    BY <1>2, InsertSparesAnswers
  <1>3. ASSUME NEW b \in Agents, NEW k \in AnswerKind, AnswerStep(b, k)
        PROVE  rec'[a] # "none"
    <2>1. rec' = rec \/ rec' = [rec EXCEPT ![b] = k]
      BY <1>3 DEF AnswerStep, StoreAnswer, ReadOvertime, OverwriteAnswer, answerVars
    <2> QED BY <2>1 DEF TypeOK, AnswerKind
  <1>4. CASE ApiBulk
    <2>1. PICK agents \in SUBSET Agents, first \in Agents :
             first \in agents /\ BulkInsert(agents, first)
      BY <1>4 DEF ApiBulk
    <2> QED BY <2>1, BulkSparesAnswers
  <1>5. \A b \in Agents : ~ RedisExpire(b)
    BY DEF RedisExpire
  <1> QED
    BY <1>1, <1>2, <1>3, <1>4, <1>5
       DEF Next, vars, answerVars, Tick, SendCast, SendRecordFailure, HandlerStep, Refuse,
           Record, Cast, Poll, Sleep, FinishCheck, Crash, AgentReceive, ApiCheck

\* A bulk insertion that does not fail leaves none of its agents without a record.
LEMMA BulkRecordsAll ==
    ASSUME Storage = "db", TypeOK, NEW agents \in SUBSET Agents, NEW first \in agents,
           BulkOk(agents, first), BulkInsert(agents, first), NEW a \in agents
    PROVE  rec'[a] # "none"
  BY DEF BulkInsert, BulkWritten, Silent, TypeOK

LEMMA NextRecords ==
    ASSUME Storage = "db", VerdictInv, RecordsComplete, api' = "idle", [Next]_vars
    PROVE  RecordsComplete'
  <1> USE DEF senderVars, serverVars, agentVars, answerVars
  <1>0. TypeOK /\ RowGuardsCast /\ OneActiveHandler /\ CheckerIsRight
    BY DEF VerdictInv, CastInv
  <1>a. \A S \in SUBSET Agents : AllRecorded(S) => AllRecorded(S)'
    BY <1>0, RecordsPersist DEF AllRecorded
  <1>b. wait \in SUBSET Agents
    BY <1>0 DEF TypeOK
  <1>1. CASE UNCHANGED <<row, pc, wait>>
    BY <1>1, <1>a, <1>b DEF RecordsComplete
  <1>2. CASE SendRecordFailure
    <2>1. /\ UNCHANGED <<pc, wait>>
          /\ row' = row \/ row'.code # "RESULT_NOT_ALL_SUCCESS"
      BY <1>2 DEF SendRecordFailure, InsertRow, NewRow
    <2> QED BY <2>1, <1>a, <1>b DEF RecordsComplete
  <1>3. ASSUME NEW h \in Handlers, HandlerStep(h) PROVE RecordsComplete'
    <2>1. CASE Refuse(h)
      <3>1. /\ wait' = wait /\ pc' = [pc EXCEPT ![h] = "done"]
            /\ row' = row \/ row'.code # "RESULT_NOT_ALL_SUCCESS"
        BY <2>1 DEF Refuse, InsertRow, NewRow
      <3> QED BY <1>0, <3>1, <1>a, <1>b DEF RecordsComplete, TypeOK
    <2>2. CASE Record(h)
      <3>1. CASE row.status = "none"
        <4>1. /\ row'.code # "RESULT_NOT_ALL_SUCCESS"
              /\ pc' = [pc EXCEPT ![h] = "recorded"]
          BY <2>2, <3>1 DEF Record, InsertRow, NewRow
        <4>2. \A g \in Handlers : pc[g] # "finish"
          BY <1>0, <3>1 DEF RowGuardsCast, Active
        <4> QED BY <1>0, <4>1, <4>2 DEF RecordsComplete, TypeOK
      <3>2. CASE row.status # "none"
        <4>1. UNCHANGED <<row, wait>> /\ pc' = [pc EXCEPT ![h] = "done"]
          BY <2>2, <3>2 DEF Record, InsertRow
        <4> QED BY <1>0, <4>1, <1>a, <1>b DEF RecordsComplete, TypeOK
      <3> QED BY <3>1, <3>2
    <2>3. CASE Cast(h) \/ Poll(h) \/ Sleep(h) \/ Crash(h)
      <3>1. /\ wait' = wait /\ pc'[h] # "finish"
            /\ \A g \in Handlers \ {h} : pc'[g] = pc[g]
        BY <2>3, <1>0 DEF Cast, Poll, Sleep, Crash, TypeOK
      <3>2. row' = row \/ row'.code = "SEND_FAIL"
        <4>1. [row EXCEPT !.status = "FINISH", !.code = "SEND_FAIL"].code = "SEND_FAIL"
          BY <1>0 DEF TypeOK, Row
        <4> QED BY <2>3, <4>1 DEF Cast, Poll, Sleep, Crash
      <3> QED BY <3>1, <3>2, <1>a, <1>b DEF RecordsComplete
    <2>4. CASE InsertOvertime(h)
      <3>1. /\ UNCHANGED <<row, wait>> /\ pc[h] = "report"
            /\ \A g \in Handlers \ {h} : pc'[g] = pc[g]
        BY <2>4, <1>0 DEF InsertOvertime, TypeOK
      <3>2. ASSUME pc'[h] = "finish", NEW a \in wait PROVE rec'[a] # "none"
        <4>1. CASE a \notin silent
          <5>1. Genuine(rec[a])
            BY <1>0, <3>1, <4>1 DEF CheckerIsRight, AnsweredBy, Active
          <5> QED BY <1>0, <1>b, <5>1, RecordsPersist DEF Genuine, AnswerKind
        <4>2. CASE a \in silent
          <5>1. PICK first \in silent : BulkInsert(silent, first) /\ BulkOk(silent, first)
            BY <2>4, <3>2, <4>2, <1>0 DEF InsertOvertime, TypeOK
          <5> QED BY <1>0, <4>2, <5>1, BulkRecordsAll DEF TypeOK
        <4> QED BY <4>1, <4>2
      <3> QED BY <3>1, <3>2, <1>a, <1>b DEF RecordsComplete, AllRecorded
    <2>5. CASE FinishCheck(h)
      <3>1. /\ wait' = wait /\ pc' = [pc EXCEPT ![h] = "done"] /\ pc[h] = "finish"
        BY <2>5 DEF FinishCheck
      <3> QED BY <1>0, <3>1, <1>a, <1>b DEF RecordsComplete, TypeOK
    <2> QED BY <1>3, <2>1, <2>2, <2>3, <2>4, <2>5 DEF HandlerStep
  <1>4. ~ ApiBulk
    BY DEF ApiBulk, VerdictInv
  <1> QED
    BY <1>1, <1>2, <1>3, <1>4
       DEF Next, vars, Tick, SendCast, AgentReceive, RedisExpire, AnswerStep,
           StoreAnswer, ReadOvertime, OverwriteAnswer, ApiCheck

LEMMA RecordsInvariant ==
    ASSUME Storage = "db", ~ReservedApi
    PROVE  Spec => []RecordsComplete
  <1>1. Init => RecordsComplete
    BY DEF Init, NewRow, RecordsComplete
  <1>2. VerdictInv /\ VerdictInv' /\ RecordsComplete /\ [Next]_vars => RecordsComplete'
    BY NextRecords DEF VerdictInv
  <1> QED BY <1>1, <1>2, VerdictInvariant, PTL DEF Spec

\* With the database, and when nobody calls the reserved interface, the verdict
\* NOT_ALL_SUCCESS is given only when every awaited agent has a record, and none
\* of the records goes afterwards.
THEOREM EverySilentAgentRecordedHolds ==
    ASSUME Storage = "db", ~ReservedApi
    PROVE  Spec => []EverySilentAgentRecorded
  <1>1. RecordsComplete => EverySilentAgentRecorded
    BY DEF RecordsComplete, AllRecorded, EverySilentAgentRecorded
  <1> QED BY <1>1, RecordsInvariant, PTL

-----------------------------------------------------------------------------
(***************************************************************************)
(* The promise.  Every step of the request is a step of RequestPromise or  *)
(* none at all.                                                            *)
(***************************************************************************)
PostedInv == posted # {} => agentMsg

PromiseInv == VerdictInv /\ PostedInv /\ (Storage = "db" => RecordsComplete)

LEMMA PostedStep ==
    ASSUME CastInv, PostedInv, [Next]_vars
    PROVE  PostedInv'
  <1> USE DEF PostedInv, senderVars, serverVars, agentVars, answerVars
  <1>1. CASE UNCHANGED <<posted, agentMsg>>
    BY <1>1
  <1>2. ASSUME NEW h \in Handlers, Cast(h) PROVE PostedInv'
    <2>1. ~agentMsg /\ posted' = posted
      BY <1>2 DEF Cast, CastInv, RowGuardsCast
    <2> QED BY <2>1
  <1>3. ASSUME NEW a \in Agents, AgentReceive(a) PROVE PostedInv'
    BY <1>3 DEF AgentReceive
  <1> QED
    BY <1>1, <1>2, <1>3
       DEF Next, vars, Tick, SendCast, SendRecordFailure, HandlerStep, Refuse, Record, Poll,
           Sleep, InsertOvertime, FinishCheck, Crash, RedisExpire, AnswerStep, StoreAnswer,
           ReadOvertime, OverwriteAnswer, ApiCheck, ApiBulk

LEMMA PromiseInvStep ==
    ASSUME ~ReservedApi, PromiseInv, [Next]_vars
    PROVE  PromiseInv'
  <1>1. VerdictInv'
    BY VerdictStep DEF PromiseInv
  <1>2. PostedInv'
    BY PostedStep DEF PromiseInv, VerdictInv
  <1>3. ASSUME Storage = "db" PROVE RecordsComplete'
    BY <1>1, <1>3, NextRecords DEF PromiseInv, VerdictInv
  <1> QED BY <1>1, <1>2, <1>3 DEF PromiseInv

\* While no agent has the message, nothing was done and nothing heard.
LEMMA NothingHeard ==
    ASSUME PromiseInv, ~agentMsg
    PROVE  executed = {} /\ Heard = {}
  BY DEF PromiseInv, PostedInv, VerdictInv, CastInv, RowGuardsCast, Heard

LEMMA PromiseStutters ==
    ASSUME UNCHANGED <<row, wait, executed, posted, rec>>
    PROVE  UNCHANGED Promise!vars
  BY DEF Promise!vars, Verdict, Heard

\* The sender, a refusal: either the row is theirs and nothing was asked, or it is not.
LEMMA RefusalPromised ==
    ASSUME PromiseInv, NEW code \in NotSentCodes, InsertRow(NewRow("FINISH", code)),
           UNCHANGED <<wait, executed, posted, rec>>
    PROVE  Promise!Decline \/ UNCHANGED Promise!vars
  <1>1. CASE row.status = "none"
    <2>1. ~agentMsg
      BY <1>1 DEF PromiseInv, VerdictInv, CastInv, RowGuardsCast
    <2>2. row' = NewRow("FINISH", code)
      BY <1>1 DEF InsertRow
    <2>3. row'.status = "FINISH" /\ row'.code = code
      BY <2>2 DEF NewRow
    <2>4. Verdict = "unknown" /\ Verdict' = "not_sent"
      BY <1>1, <2>3 DEF Verdict, NotSentCodes
    <2>5. executed = {} /\ Heard = {} /\ Heard' = Heard
      BY <2>1, NothingHeard DEF Heard
    <2> QED BY <2>4, <2>5 DEF Promise!Decline
  <1>2. CASE row.status # "none"
    BY <1>2, PromiseStutters DEF InsertRow
  <1> QED BY <1>1, <1>2

LEMMA RecordPromised ==
    ASSUME PromiseInv, NEW h \in Handlers, Record(h)
    PROVE  Promise!Accept \/ UNCHANGED Promise!vars
  <1>1. UNCHANGED <<executed, posted, rec>>
    BY DEF Record, answerVars
  <1>2. CASE row.status = "none"
    <2>1. row'.status = "UNFINISH" /\ wait' \in SUBSET Agents
      BY <1>2 DEF Record, InsertRow, NewRow
    <2>2. Verdict = "unknown" /\ Verdict' = "open" /\ Heard' = Heard
      BY <1>1, <1>2, <2>1 DEF Verdict, Heard
    <2> QED BY <1>1, <2>1, <2>2 DEF Promise!Accept
  <1>3. CASE row.status # "none"
    BY <1>1, <1>3, PromiseStutters DEF Record, InsertRow
  <1> QED BY <1>2, <1>3

LEMMA CastPromised ==
    ASSUME PromiseInv, NEW h \in Handlers, Cast(h)
    PROVE  Promise!Decline \/ UNCHANGED Promise!vars
  <1>1. UNCHANGED <<wait, executed, posted, rec>>
    BY DEF Cast, answerVars
  <1>2. CASE row' = row
    BY <1>1, <1>2, PromiseStutters
  <1>3. CASE row' = [row EXCEPT !.status = "FINISH", !.code = "SEND_FAIL"]
    <2>1. row'.status = "FINISH" /\ row'.code = "SEND_FAIL"
      BY <1>3 DEF PromiseInv, VerdictInv, CastInv, TypeOK, Row
    <2>2. row.status = "UNFINISH" /\ ~agentMsg
      BY DEF Cast, PromiseInv, VerdictInv, CastInv, RowGuardsCast, RowOpenWhileActive, Active
    <2>3. Verdict = "open" /\ Verdict' = "not_sent"
      BY <2>1, <2>2 DEF Verdict
    <2>4. executed = {} /\ Heard = {} /\ Heard' = Heard
      BY <1>1, <2>2, NothingHeard DEF Heard
    <2> QED BY <1>1, <2>3, <2>4 DEF Promise!Decline
  <1> QED BY <1>2, <1>3 DEF Cast

LEMMA InsertPromised ==
    ASSUME PromiseInv, NEW h \in Handlers, InsertOvertime(h)
    PROVE  \/ \E agents \in SUBSET Agents : Promise!GiveUp(agents)
           \/ UNCHANGED Promise!vars
  <1>1. UNCHANGED <<row, wait, executed, posted>>
    BY DEF InsertOvertime, agentVars
  <1>2. CASE rec' = rec
    BY <1>1, <1>2, PromiseStutters
  <1>3. CASE rec' # rec
    <2>1. PICK first \in silent : BulkInsert(silent, first)
      BY <1>3 DEF InsertOvertime
    <2> DEFINE W == BulkWritten(silent, first)
    <2>2. rec' = [a \in Agents |-> IF a \in W THEN "overtime" ELSE rec[a]]
      BY <1>3, <2>1 DEF BulkInsert
    <2>3. W \in SUBSET Agents /\ \A a \in W : rec[a] = "none"
      BY DEF BulkWritten, Silent, PromiseInv, VerdictInv, CastInv, TypeOK
    <2> HIDE DEF W
    <2>4. rec' = [a \in Agents |-> IF a \in W /\ rec[a] = "none" THEN "overtime" ELSE rec[a]]
      BY <2>2, <2>3
    <2>5. row.status = "UNFINISH"
      BY DEF InsertOvertime, PromiseInv, VerdictInv, RowOpenWhileActive, Active
    <2>6. Verdict = "open" /\ Verdict' = Verdict /\ Heard' = Heard
      BY <1>1, <2>5 DEF Verdict, Heard
    <2>7. Promise!GiveUp(W)
      BY <1>1, <2>4, <2>6 DEF Promise!GiveUp
    <2> QED BY <2>3, <2>7
  <1> QED BY <1>2, <1>3

LEMMA FinishPromised ==
    ASSUME PromiseInv, NEW h \in Handlers, FinishCheck(h)
    PROVE  Promise!Conclude
  <1>1. pc[h] = "finish" /\ UNCHANGED <<wait, executed, posted, rec>>
    BY DEF FinishCheck, agentVars, answerVars
  <1>2. Verdict = "open"
    BY <1>1 DEF Verdict, PromiseInv, VerdictInv, RowOpenWhileActive, Active
  <1>3. Heard' = Heard
    BY <1>1 DEF Heard
  <1>4. CASE silent = {}
    <2>1. Verdict' = "all_answered"
      BY <1>4 DEF FinishCheck, Verdict
    <2>2. AnsweredBy(wait) /\ wait \in SUBSET Agents
      BY <1>1, <1>4 DEF PromiseInv, VerdictInv, CastInv, TypeOK, CheckerIsRight
    <2>3. wait \subseteq Heard
      BY <2>2 DEF AnsweredBy, Heard
    <2>4. Storage = "db" => \A a \in wait : rec[a] \in Promise!Answers
      BY <2>2 DEF AnsweredBy, Genuine, AnswerKind, Promise!Answers
    <2> QED BY <1>1, <1>2, <1>3, <2>1, <2>3, <2>4 DEF Promise!Conclude
  <1>5. CASE silent # {}
    <2>1. Verdict' = "not_all_answered"
      BY <1>5 DEF FinishCheck, Verdict
    <2>2. Storage = "db" => \A a \in wait : rec[a] # "none"
      BY <1>1 DEF PromiseInv, RecordsComplete, AllRecorded
    <2> QED BY <1>1, <1>2, <1>3, <2>1, <2>2 DEF Promise!Conclude
  <1> QED BY <1>4, <1>5

LEMMA ReceivePromised ==
    ASSUME PromiseInv, NEW a \in Agents, AgentReceive(a)
    PROVE  Promise!Answer(a)
  <1>1. UNCHANGED <<row, wait, rec>>
    BY DEF AgentReceive, serverVars, answerVars
  <1>2. /\ row \in Row /\ row.status # "none" /\ row.code \notin NotSentCodes
        /\ row.status = "FINISH" => row.code # "RESULT_UNKNOWN"
    BY DEF AgentReceive, PromiseInv, VerdictInv, CastInv, TypeOK, RowGuardsCast, ClosedHasVerdict
  <1>3. /\ Verdict \in {"open", "all_answered", "not_all_answered"} /\ Verdict' = Verdict
        /\ Verdict # "open" => row.status = "FINISH"
    BY <1>1, <1>2 DEF Row, Verdict, CheckedCodes
  <1>4. PICK k \in AnswerKind : posted' = posted \cup {<<a, k>>}
    BY DEF AgentReceive, AnswerKind
  <1>5. Heard' = Heard \cup {a}
    BY <1>4 DEF Heard
  <1>6. executed' \in {executed, executed \cup {a}}
    BY DEF AgentReceive
  <1>7. a \in wait /\ executed' # executed => Verdict = "open"
    BY <1>3, <1>6, NoLateWork DEF PromiseInv
  <1> QED BY <1>1, <1>3, <1>5, <1>6, <1>7 DEF Promise!Answer, Promise!Sent

LEMMA AnswerPromised ==
    ASSUME PromiseInv, NEW a \in Agents, NEW k \in AnswerKind, AnswerStep(a, k)
    PROVE  Promise!Keep(a, k) \/ UNCHANGED Promise!vars
  <1>1. UNCHANGED <<row, wait, executed, posted>>
    BY DEF AnswerStep, StoreAnswer, ReadOvertime, OverwriteAnswer, serverVars, agentVars
  <1>2. CASE ReadOvertime(a, k)
    BY <1>1, <1>2, PromiseStutters DEF ReadOvertime
  <1>3. CASE StoreAnswer(a, k) \/ OverwriteAnswer(a, k)
    <2>1. rec' = [rec EXCEPT ![a] = k] /\ <<a, k>> \in posted
      BY <1>3 DEF StoreAnswer, OverwriteAnswer, PromiseInv, VerdictInv, AnswersAreGenuine
    <2>2. a \in Heard /\ (k = "answer" => a \in executed)
      BY <2>1 DEF Heard, PromiseInv, VerdictInv, VerdictTimes
    <2>3. Verdict' = Verdict /\ Heard' = Heard
      BY <1>1 DEF Verdict, Heard
    <2> QED BY <1>1, <2>1, <2>2, <2>3 DEF Promise!Keep
  <1> QED BY <1>2, <1>3 DEF AnswerStep

LEMMA ExpiryPromised ==
    ASSUME NEW a \in Agents, RedisExpire(a)
    PROVE  Promise!Forget(a)
  BY DEF RedisExpire, Promise!Forget, Verdict, Heard, serverVars, agentVars

LEMMA PromiseStep ==
    ASSUME ~ReservedApi, PromiseInv, [Next]_vars
    PROVE  [Promise!Next]_(Promise!vars)
  <1> DEFINE Goal == [Promise!Next]_(Promise!vars)
  <1>1. CASE Tick \/ SendCast \/ UNCHANGED vars
    <2>1. UNCHANGED <<row, wait, executed, posted, rec>>
      BY <1>1 DEF Tick, SendCast, vars, serverVars, agentVars, answerVars
    <2> QED BY <2>1, PromiseStutters
  <1>2. CASE SendRecordFailure
    <2>1. /\ sender \in NotSentCodes /\ InsertRow(NewRow("FINISH", sender))
          /\ UNCHANGED <<wait, executed, posted, rec>>
      BY <1>2 DEF SendRecordFailure, NotSentCodes, agentVars, answerVars
    <2> QED BY <2>1, RefusalPromised DEF Promise!Next
  <1>3. ASSUME NEW h \in Handlers, HandlerStep(h) PROVE Goal
    <2>1. CASE Refuse(h)
      <3>1. PICK code \in NotSentCodes : InsertRow(NewRow("FINISH", code))
        BY <2>1 DEF Refuse, NotSentCodes
      <3>2. UNCHANGED <<wait, executed, posted, rec>>
        BY <2>1 DEF Refuse, agentVars, answerVars
      <3> QED BY <3>1, <3>2, RefusalPromised DEF Promise!Next
    <2>2. CASE Record(h)
      BY <2>2, RecordPromised DEF Promise!Next
    <2>3. CASE Cast(h)
      BY <2>3, CastPromised DEF Promise!Next
    <2>4. CASE Poll(h) \/ Sleep(h) \/ Crash(h)
      <3>1. UNCHANGED <<row, wait, executed, posted, rec>>
        BY <2>4 DEF Poll, Sleep, Crash, agentVars, answerVars
      <3> QED BY <3>1, PromiseStutters
    <2>5. CASE InsertOvertime(h)
      BY <2>5, InsertPromised DEF Promise!Next
    <2>6. CASE FinishCheck(h)
      BY <2>6, FinishPromised DEF Promise!Next
    <2> QED BY <1>3, <2>1, <2>2, <2>3, <2>4, <2>5, <2>6 DEF HandlerStep
  <1>4. ASSUME NEW a \in Agents, AgentReceive(a) \/ RedisExpire(a) PROVE Goal
    BY <1>4, ReceivePromised, ExpiryPromised DEF Promise!Next
  <1>5. ASSUME NEW a \in Agents, NEW k \in AnswerKind, AnswerStep(a, k) PROVE Goal
    <2>1. k \in Promise!Answers
      BY DEF Promise!Answers, AnswerKind
    <2> QED BY <1>5, <2>1, AnswerPromised DEF Promise!Next
  <1>6. ~ ApiCheck /\ ~ ApiBulk
    BY DEF ApiCheck, ApiBulk, PromiseInv, VerdictInv
  <1> QED BY <1>1, <1>2, <1>3, <1>4, <1>5, <1>6 DEF Next

\* When nobody calls the reserved interface, the request keeps the promise: for any agents,
\* deliveries, times and storage, and whatever fails, its steps are steps of RequestPromise.
THEOREM KeepsPromiseHolds ==
    ASSUME ~ReservedApi
    PROVE  Spec => KeepsPromise
  <1>1. Init => PromiseInv
    <2> SUFFICES ASSUME Init PROVE PromiseInv
      OBVIOUS
    <2>1. PostedInv /\ RecordsComplete
      BY DEF Init, NewRow, PostedInv, RecordsComplete
    <2> QED BY <2>1, InitVerdict DEF PromiseInv
  <1>2. PromiseInv /\ [Next]_vars => PromiseInv'
    BY PromiseInvStep
  <1>3. Init => Promise!Init
    BY DEF Init, NewRow, Verdict, Heard, Promise!Init
  <1>4. PromiseInv /\ [Next]_vars => [Promise!Next]_(Promise!vars)
    BY PromiseStep
  <1> QED BY <1>1, <1>2, <1>3, <1>4, PTL DEF Spec, KeepsPromise, Promise!Spec
=============================================================================
