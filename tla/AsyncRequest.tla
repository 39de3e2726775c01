---------------------------- MODULE AsyncRequest ----------------------------
(***************************************************************************)
(* One asynchronous request of gcenter, from the HTTP worker that casts it *)
(* to the rpc server, through the rpc server that records it and casts it  *)
(* to the agents, to the agents' answers and the response checker that     *)
(* closes the request.                                                     *)
(*                                                                         *)
(* Processes: the sender (a wsgi thread), the handlers (deliveries of the  *)
(* message to a gcenter-rpc worker: the broker may deliver it twice), the  *)
(* agents, the wsgi threads that store answers, and the checker thread a   *)
(* handler spawns.  The request row lives in the database; the answers     *)
(* live in the database or, when the request has `expire', in redis.       *)
(***************************************************************************)
EXTENDS Naturals, FiniteSets

CONSTANTS
    Agents,          \* agents that may be addressed
    Handlers,        \* deliveries of the request to gcenter-rpc workers
    Storage,         \* "db" when the request's expire is 0, else "redis"
    Finishtime,      \* no agent starts the work at or after this time
    Deadline,        \* the checker waits one second more than this
    MaxTime,         \* bound of the clock
    CtxtFinishtime,  \* does the sender put finishtime in the cast's ctxt
    Failures,        \* may a gcenter-rpc worker die or lose the broker
    Expiry,          \* may an answer in redis expire during the request
    ReservedApi      \* is the reserved `overtime' interface called

ASSUME TimesAssumption ==
    /\ Finishtime \in Nat /\ Deadline \in Nat /\ MaxTime \in Nat
    /\ Finishtime < Deadline

ASSUME ModeAssumption ==
    /\ Storage \in {"db", "redis"}
    /\ {CtxtFinishtime, Failures, Expiry, ReservedApi} \subseteq BOOLEAN

VARIABLES
    now,         \* the clock all hosts share, in seconds
    sender,      \* the wsgi thread in send_asyncrequest
    serverMsg,   \* the cast to the rpc server reached the broker
    row,         \* the asyncrequests row
    pc,          \* where each handler is
    wait,        \* wait_agents: the agents whose answers are awaited
    addressed,   \* agents whose rpc filter accepts the message
    agentMsg,    \* the cast to the agents reached the broker
    executed,    \* agents that ran the rpc method
    posted,      \* answers agents have posted, <<agent, kind>>
    overwriting, \* answers whose thread has read an overtime record
    rec,         \* the answer stored for each agent
    silent,      \* no_response_agents of the checker
    left,        \* not_overtime of the checker
    api          \* a thread of the reserved `overtime' interface

vars == <<now, sender, serverMsg, row, pc, wait, addressed, agentMsg, executed,
          posted, overwriting, rec, silent, left, api>>
serverVars == <<row, pc, wait, silent, left>>
agentVars == <<addressed, agentMsg, executed, posted>>
answerVars == <<rec, overwriting>>
senderVars == <<sender, serverMsg>>

-----------------------------------------------------------------------------
\* Result codes of a row that say the agents were never asked.
NotSentCodes == {"RESULT_OVER_FINISHTIME", "SCHEDULER_STATUS_ERROR",
                 "SCHEDULER_EXECUTER_ERROR", "SCHEDULER_PREPARE_ERROR",
                 "SEND_FAIL", "SCHEDULER_NOTIFY_ERROR", "RESULT_ERROR"}
CheckedCodes == {"RESULT_SUCCESS", "RESULT_NOT_ALL_SUCCESS"}

Row == [status : {"none", "UNFINISH", "FINISH"},
        code : NotSentCodes \cup CheckedCodes \cup {"RESULT_UNKNOWN"},
        reported : SUBSET Agents]

\* "late" is an agent's own report that the message came after finishtime; it
\* carries the result code of the checker's "overtime" record.
AnswerKind == {"late", "answer"}
RecordKind == AnswerKind \cup {"none", "overtime"}
Genuine(k) == k \in AnswerKind
HasOvertimeCode(k) == k \in {"late", "overtime"}

Silent(agents) == {a \in agents : rec[a] = "none"}

NewRow(status, code) == [status |-> status, code |-> code, reported |-> {}]

\* Mutant: the row is written without regard to the one that is there.
InsertRow_Upsert(r) == row' = r

\* session.add + flush of a row whose primary key may already be there: the
\* second writer's row is refused.
InsertRow(r) == row' = IF row.status = "none" THEN r ELSE row

-----------------------------------------------------------------------------
Init ==
    /\ now = 0
    /\ sender = "idle"
    /\ serverMsg = FALSE
    /\ row = NewRow("none", "RESULT_UNKNOWN")
    /\ pc = [h \in Handlers |-> "idle"]
    /\ wait = {} /\ addressed = {}
    /\ agentMsg = FALSE
    /\ executed = {} /\ posted = {} /\ overwriting = {}
    /\ rec = [a \in Agents |-> "none"]
    /\ silent = {} /\ left = 2
    /\ api = "idle"

Tick ==
    /\ now < MaxTime
    /\ now' = now + 1
    /\ UNCHANGED <<senderVars, serverVars, agentVars, answerVars, api>>

(***************************************************************************)
(* The sender.  A cast either succeeds, finds no destination, or fails     *)
(* with an exception that leaves open whether the broker took the message. *)
(***************************************************************************)
SendCast ==
    /\ sender = "idle"
    /\ \/ sender' = "done" /\ serverMsg' = TRUE
       \/ sender' = "SCHEDULER_NOTIFY_ERROR" /\ serverMsg' = FALSE
       \/ sender' = "RESULT_ERROR" /\ serverMsg' \in BOOLEAN
    /\ UNCHANGED <<now, serverVars, agentVars, answerVars, api>>

\* The failed sender writes the finished row, unless the server was faster.
SendRecordFailure ==
    /\ sender \in {"SCHEDULER_NOTIFY_ERROR", "RESULT_ERROR"}
    /\ InsertRow(NewRow("FINISH", sender))
    /\ sender' = "done"
    /\ UNCHANGED <<now, serverMsg, pc, wait, silent, left, agentVars, answerVars, api>>

(***************************************************************************)
(* The rpc server: rpc_asyncrequest.                                       *)
(***************************************************************************)
\* Over finishtime, server not active, executer error, no rpc client, pre_run
\* failed: the request is recorded as finished and nothing is cast.
Refuse(h) ==
    /\ pc[h] = "idle" /\ serverMsg
    /\ \E code \in {"RESULT_OVER_FINISHTIME", "SCHEDULER_STATUS_ERROR",
                    "SCHEDULER_EXECUTER_ERROR", "SCHEDULER_PREPARE_ERROR"} :
          /\ code = "RESULT_OVER_FINISHTIME" => CtxtFinishtime /\ now >= Finishtime
          /\ InsertRow(NewRow("FINISH", code))
    /\ pc' = [pc EXCEPT ![h] = "done"]
    /\ UNCHANGED <<now, senderVars, wait, silent, left, agentVars, answerVars, api>>

\* The row is inserted before the cast; a duplicate key ends the handler.
Record(h) ==
    /\ pc[h] = "idle" /\ serverMsg
    /\ CtxtFinishtime => now < Finishtime
    /\ InsertRow(NewRow("UNFINISH", "RESULT_UNKNOWN"))
    /\ IF row.status = "none"
       THEN /\ pc' = [pc EXCEPT ![h] = "recorded"]
            /\ wait' \in SUBSET Agents
            /\ addressed' \in {wait', Agents}
            /\ silent' = wait'
       ELSE /\ pc' = [pc EXCEPT ![h] = "done"]
            /\ UNCHANGED <<wait, addressed, silent>>
    /\ UNCHANGED <<now, senderVars, left, agentMsg, executed, posted, answerVars, api>>

Cast(h) ==
    /\ pc[h] = "recorded"
    /\ \/ \* cast done, after_run run, checker spawned
          /\ agentMsg' = TRUE
          /\ pc' = [pc EXCEPT ![h] = "poll"]
          /\ row' = row
       \/ \* AMQPDestinationNotFound
          /\ agentMsg' = agentMsg
          /\ pc' = [pc EXCEPT ![h] = "done"]
          /\ row' = [row EXCEPT !.status = "FINISH", !.code = "SEND_FAIL"]
       \/ \* any other exception leaves the handler; the row stays UNFINISH
          /\ Failures
          /\ agentMsg' \in BOOLEAN
          /\ pc' = [pc EXCEPT ![h] = "dead"]
          /\ row' = row
    /\ UNCHANGED <<now, senderVars, wait, silent, left, addressed, executed, posted,
                   answerVars, api>>

(***************************************************************************)
(* The checker thread: check_respone.                                      *)
(***************************************************************************)
Poll(h) ==
    /\ pc[h] = "poll"
    /\ silent' = Silent(silent)
    /\ pc' = [pc EXCEPT ![h] = IF silent' = {} THEN "report" ELSE "sleep"]
    /\ UNCHANGED <<now, senderVars, row, wait, left, agentVars, answerVars, api>>

\* Mutant: not_overtime is not counted down.
Sleep_NoCountdown(h) ==
    /\ pc[h] = "sleep"
    /\ pc' = [pc EXCEPT ![h] = "poll"]
    /\ UNCHANGED <<now, senderVars, row, wait, silent, left, agentVars, answerVars, api>>

\* Mutant: not_overtime is counted down and never looked at.
Sleep_NoBreak(h) ==
    /\ pc[h] = "sleep"
    /\ left' = IF now > Deadline + 1 THEN left - 1 ELSE left
    /\ pc' = [pc EXCEPT ![h] = "poll"]
    /\ UNCHANGED <<now, senderVars, row, wait, silent, agentVars, answerVars, api>>

\* Gives up the second time the clock is found past the deadline plus one.
Sleep(h) ==
    /\ pc[h] = "sleep"
    /\ left' = IF now > Deadline + 1 THEN left - 1 ELSE left
    /\ pc' = [pc EXCEPT ![h] = IF left' = 0 THEN "report" ELSE "poll"]
    /\ UNCHANGED <<now, senderVars, row, wait, silent, agentVars, answerVars, api>>

(***************************************************************************)
(* bluk_insert: one overtime row per silent agent.  Every duplicate found  *)
(* removes the first row's agent from the silent set, whichever agent the  *)
(* duplicate belongs to; the second removal raises KeyError.  In redis     *)
(* every row is written under the first row's key.  (The session is taken  *)
(* to survive the refused row, as the code's `continue' expects.)          *)
(***************************************************************************)
BulkDuplicates(agents, first) ==
    IF Storage = "db"
    THEN {a \in agents : rec[a] # "none"}
    ELSE IF rec[first] # "none" THEN agents ELSE agents \ {first}

\* Mutants: rows overwrite what is there; only the first row is written.
BulkWritten_Overwrite(agents, first) ==
    IF Storage = "db" THEN agents ELSE {first}
BulkWritten_First(agents, first) == Silent({first})

BulkWritten(agents, first) ==
    IF Storage = "db" THEN Silent(agents) ELSE Silent({first})

AtMostOne(S) == \A x, y \in S : x = y

\* BulkOk: no KeyError.  A failed db insertion rolls the transaction back.
BulkOk(agents, first) == AtMostOne(BulkDuplicates(agents, first))

BulkInsert(agents, first) ==
    rec' = IF ~BulkOk(agents, first) /\ Storage = "db"
           THEN rec
           ELSE [a \in Agents |-> IF a \in BulkWritten(agents, first)
                                  THEN "overtime" ELSE rec[a]]

\* Mutant: an agent is removed without a duplicate.
BulkRest_Always(agents, first) == agents \ {first}

BulkRest(agents, first) ==
    IF BulkDuplicates(agents, first) = {} THEN agents ELSE agents \ {first}

InsertOvertime(h) ==
    /\ pc[h] = "report"
    /\ IF silent = {}
       THEN /\ pc' = [pc EXCEPT ![h] = "finish"]
            /\ UNCHANGED <<rec, silent>>
       ELSE \E first \in silent :
               /\ BulkInsert(silent, first)
               /\ IF BulkOk(silent, first)
                  THEN /\ pc' = [pc EXCEPT ![h] = "finish"]
                       /\ silent' = BulkRest(silent, first)
                  ELSE /\ pc' = [pc EXCEPT ![h] = "failed"]
                       /\ silent' = silent \ {first}
    /\ UNCHANGED <<now, senderVars, row, wait, left, agentVars, overwriting, api>>

FinishCheck(h) ==
    /\ pc[h] = "finish"
    /\ row' = [status |-> "FINISH",
               code |-> IF silent = {} THEN "RESULT_SUCCESS"
                                       ELSE "RESULT_NOT_ALL_SUCCESS",
               reported |-> silent]
    /\ pc' = [pc EXCEPT ![h] = "done"]
    /\ UNCHANGED <<now, senderVars, wait, silent, left, agentVars, answerVars, api>>

\* The worker dies; nothing restarts its checker.
Crash(h) ==
    /\ Failures
    /\ pc[h] \notin {"idle", "done", "dead", "failed"}
    /\ pc' = [pc EXCEPT ![h] = "dead"]
    /\ UNCHANGED <<now, senderVars, row, wait, silent, left, agentVars, answerVars, api>>

(***************************************************************************)
(* The agents: CheckManagerRpcCtxt and async_response.  The message may    *)
(* reach an agent late, more than once, or never.                          *)
(***************************************************************************)
\* Mutant: the agent does not look at finishtime.
AgentReceive_AnyTime(a) ==
    /\ agentMsg /\ a \in addressed
    /\ executed' = executed \cup {a}
    /\ posted' = posted \cup {<<a, "answer">>}
    /\ UNCHANGED <<now, senderVars, serverVars, addressed, agentMsg, answerVars, api>>

AgentReceive(a) ==
    /\ agentMsg /\ a \in addressed
    /\ IF now >= Finishtime
       THEN /\ posted' = posted \cup {<<a, "late">>}
            /\ UNCHANGED executed
       ELSE /\ executed' = executed \cup {a}
            /\ posted' = posted \cup {<<a, "answer">>}
    /\ UNCHANGED <<now, senderVars, serverVars, addressed, agentMsg, answerVars, api>>

(***************************************************************************)
(* The response interface: agentrespone.  The client retries its post, so  *)
(* an answer may be handled late, twice, or never.                         *)
(***************************************************************************)
StoreAnswer(a, k) ==
    /\ <<a, k>> \in posted
    /\ rec[a] = "none"
    /\ rec' = [rec EXCEPT ![a] = k]
    /\ UNCHANGED <<now, senderVars, serverVars, agentVars, overwriting, api>>

\* A duplicate key whose record has the overtime code will be overwritten; any
\* other duplicate is answered with an error and changes nothing.
ReadOvertime(a, k) ==
    /\ <<a, k>> \in posted
    /\ HasOvertimeCode(rec[a])
    /\ overwriting' = overwriting \cup {<<a, k>>}
    /\ UNCHANGED <<now, senderVars, serverVars, agentVars, rec, api>>

OverwriteAnswer(a, k) ==
    /\ <<a, k>> \in overwriting
    /\ overwriting' = overwriting \ {<<a, k>>}
    /\ rec' = [rec EXCEPT ![a] = k]
    /\ UNCHANGED <<now, senderVars, serverVars, agentVars, api>>

RedisExpire(a) ==
    /\ Expiry /\ Storage = "redis"
    /\ rec[a] # "none"
    /\ rec' = [rec EXCEPT ![a] = "none"]
    /\ UNCHANGED <<now, senderVars, serverVars, agentVars, overwriting, api>>

(***************************************************************************)
(* The reserved overtime interface.  Its SUCCESS branch raises before it   *)
(* writes ('...' % len without a conversion), so it never succeeds.        *)
(***************************************************************************)
ApiCheck ==
    /\ ReservedApi
    /\ api = "idle" /\ row.status = "UNFINISH"
    /\ api' = "checked"
    /\ UNCHANGED <<now, senderVars, serverVars, agentVars, answerVars>>

ApiBulk ==
    /\ api = "checked"
    /\ \E agents \in SUBSET Agents : \E first \in agents :
          /\ BulkInsert(agents, first)
          /\ row' = IF BulkOk(agents, first) /\ BulkRest(agents, first) # {}
                    THEN [status |-> "FINISH", code |-> "RESULT_NOT_ALL_SUCCESS",
                          reported |-> BulkRest(agents, first)]
                    ELSE row
    /\ api' = "done"
    /\ UNCHANGED <<now, senderVars, pc, wait, silent, left, agentVars, overwriting>>

-----------------------------------------------------------------------------
HandlerStep(h) ==
    \/ Refuse(h) \/ Record(h) \/ Cast(h)
    \/ Poll(h) \/ Sleep(h) \/ InsertOvertime(h) \/ FinishCheck(h)
    \/ Crash(h)

AnswerStep(a, k) ==
    \/ StoreAnswer(a, k) \/ ReadOvertime(a, k) \/ OverwriteAnswer(a, k)

Next ==
    \/ Tick
    \/ SendCast \/ SendRecordFailure
    \/ \E h \in Handlers : HandlerStep(h)
    \/ \E a \in Agents : AgentReceive(a) \/ RedisExpire(a)
    \/ \E a \in Agents, k \in AnswerKind : AnswerStep(a, k)
    \/ ApiCheck \/ ApiBulk

Spec == Init /\ [][Next]_vars

\* Time passes and a spawned checker keeps being scheduled: eventlet resumes a
\* green thread whose sleep is over or whose storage call returned.  Nothing is
\* assumed of agents, the broker or the sender.
CheckerFairness ==
    /\ WF_vars(Tick)
    /\ \A h \in Handlers :
          /\ WF_vars(Poll(h)) /\ WF_vars(Sleep(h))
          /\ WF_vars(InsertOvertime(h)) /\ WF_vars(FinishCheck(h))

FairSpec == Spec /\ CheckerFairness

-----------------------------------------------------------------------------
TypeOK ==
    /\ now \in Nat
    /\ sender \in {"idle", "done", "SCHEDULER_NOTIFY_ERROR", "RESULT_ERROR"}
    /\ serverMsg \in BOOLEAN /\ agentMsg \in BOOLEAN
    /\ row \in Row
    /\ pc \in [Handlers -> {"idle", "recorded", "poll", "sleep", "report",
                            "finish", "done", "dead", "failed"}]
    /\ wait \in SUBSET Agents /\ addressed \in SUBSET Agents
    /\ executed \in SUBSET Agents /\ silent \in SUBSET Agents
    /\ posted \in SUBSET (Agents \X AnswerKind)
    /\ overwriting \in SUBSET (Agents \X AnswerKind)
    /\ rec \in [Agents -> RecordKind]
    /\ left \in 0..2
    /\ api \in {"idle", "checked", "done"}

\* A row that says the agents were never asked tells the truth: no agent ever
\* runs the method, whatever the sender, a redelivery and the server race to
\* write.  (The row is inserted before the cast, and its key is unique.)
NeverSentNeverExecuted ==
    row.status = "FINISH" /\ row.code \in NotSentCodes => executed = {}

\* SUCCESS means that every awaited agent sent an answer of its own; with the
\* database, that the answer is still what is stored.
SuccessMeansAllAnswered ==
    row.code = "RESULT_SUCCESS" =>
        \A a \in wait : /\ \E k \in AnswerKind : <<a, k>> \in posted
                        /\ Storage = "db" => Genuine(rec[a])

\* The checker's overtime record never replaces an answer an agent sent: the
\* answer may land between the last poll and the bulk insertion.
OvertimeNeverReplacesAnswer ==
    [][\A a \in Agents : Genuine(rec[a]) => rec'[a] # "overtime"]_vars

\* Once finished, a request's verdict does not change, whoever else wanted to
\* write it: the sender, a second delivery, or the checker.
FinishIsFinal == [][row.status = "FINISH" => row' = row]_vars

\* An awaited agent never starts the work after the request was closed: either
\* it had answered, or finishtime was over before the checker gave up.
NoFirstExecutionAfterFinish ==
    [][row.status = "FINISH" => (executed' \ executed) \cap wait = {}]_vars

\* When the verdict is NOT_ALL_SUCCESS, every awaited agent has a record, its
\* own or the checker's overtime record (models.py: the request's timer inserts
\* a record with status time out).
EverySilentAgentRecorded ==
    row.code = "RESULT_NOT_ALL_SUCCESS" => \A a \in wait : rec[a] # "none"

\* A request whose checker polls is closed, unless the checker's worker dies or the
\* insertion of overtime records raises (two duplicates): the countdown ends the polling
\* of agents that stay silent.
CheckedRequestFinishes ==
    \A h \in Handlers :
        pc[h] = "poll" ~> row.status = "FINISH" \/ pc[h] \in {"dead", "failed"}

(***************************************************************************)
(* What a client sees of the request is RequestPromise.                    *)
(***************************************************************************)
Verdict ==
    CASE row.status = "none" -> "unknown"
      [] row.status = "UNFINISH" -> "open"
      [] row.status = "FINISH" /\ row.code = "RESULT_SUCCESS" -> "all_answered"
      [] row.status = "FINISH" /\ row.code = "RESULT_NOT_ALL_SUCCESS" -> "not_all_answered"
      [] OTHER -> "not_sent"

Heard == {a \in Agents : \E k \in AnswerKind : <<a, k>> \in posted}

Promise == INSTANCE RequestPromise WITH
    Durable <- Storage = "db", verdict <- Verdict, asked <- wait, worked <- executed,
    answered <- Heard, record <- rec

\* Whatever is lost, repeated, late or dies, and whoever races whom to the row and the
\* records: the verdict is given once, on what is kept then, and overtime records, late
\* work and refusals never contradict what an agent did.
KeepsPromise == Promise!Spec
=============================================================================
