------------------------ MODULE AgentLifecycleProofs ------------------------
(***************************************************************************)
(* What an agent's deletion and its entities keep until the first fault:   *)
(* proved for any number of requests and entities.                         *)
(***************************************************************************)
EXTENDS AgentLifecycle, TLAPS

\* What a request carries is what its kind, and its place, say.
Served ==
    \A r \in Requests :
        /\ req[r].kind = "active" => req[r].arg \in Statuses
        /\ req[r].kind \in {"create", "drop"} => req[r].arg \in Entitys
        /\ pc[r] \in {"insert", "create", "added"} => req[r].kind = "create"
        /\ pc[r] \in {"drop", "removed"} => req[r].kind = "drop"
        /\ pc[r] = "active" => req[r].kind = "active"
        /\ pc[r] \in {"delete", "precommit", "commit"} => req[r].kind = "delete"

TypeInv == TypeOK /\ Served

LEMMA TypeInitially == Init => TypeInv
  <1> SUFFICES ASSUME Init PROVE TypeInv
    OBVIOUS
  <1>1. NoRequest \in RequestRecords /\ NothingShown \in [status : AgentRow, entitys : EntityRows]
    BY DEF NoRequest, RequestRecords, NothingShown, AgentRow, EntityRows, Statuses
  <1>2. Served
    BY DEF Init, Served, NoRequest, None
  <1>3. 0 \in 0..MaxFaults
    BY LifecycleAssumption
  <1> QED BY <1>1, <1>2, <1>3 DEF Init, TypeInv, TypeOK, AgentRow, EntityRows

\* The parts of an action that several share.
LEMMA ArriveType ==
  ASSUME TypeInv, NEW r \in Requests,
         NEW k \in {"delete", "active", "create", "drop"},
         NEW arg, NEW seen \in Statuses \cup {None}, Arrive(r, k, arg, seen),
         NEW place \in {"delete", "active", "insert", "drop", "removed"}, Goto(r, place),
         \/ k = "delete" /\ arg = None /\ place = "delete"
         \/ k = "active" /\ arg \in Statuses /\ place = "active"
         \/ k = "create" /\ arg \in Entitys /\ place = "insert"
         \/ k = "drop" /\ arg \in Entitys /\ place \in {"drop", "removed"}
  PROVE  /\ req' \in [Requests -> RequestRecords]
         /\ pc' \in [Requests -> {"idle", "delete", "precommit", "commit", "active", "insert",
                                  "create", "drop", "added", "removed", "gone"}]
         /\ Served'
  <1>1. [kind |-> k, arg |-> arg, seen |-> seen] \in RequestRecords
    BY DEF RequestRecords
  <1>2. req' \in [Requests -> RequestRecords]
    BY <1>1 DEF TypeInv, TypeOK, Arrive
  <1>3. /\ req'[r].kind = k /\ req'[r].arg = arg /\ pc'[r] = place
        /\ \A q \in Requests \ {r} : req'[q] = req[q] /\ pc'[q] = pc[q]
    BY DEF TypeInv, TypeOK, Arrive, Goto
  <1>4. Served'
    BY <1>3 DEF TypeInv, Served, None, Statuses
  <1> QED BY <1>2, <1>4 DEF TypeInv, TypeOK, Goto

LEMMA EndType ==
  ASSUME TypeInv, NEW r \in Requests, End(r)
  PROVE  /\ req' \in [Requests -> RequestRecords]
         /\ pc' \in [Requests -> {"idle", "delete", "precommit", "commit", "active", "insert",
                                  "create", "drop", "added", "removed", "gone"}]
         /\ call' \in [Requests -> {None, "sent", "checked", "working", "placed", "ok", "refused"}]
         /\ xlock' \in Requests \cup {None} /\ slock' \subseteq Requests
         /\ Served'
  <1>1. NoRequest \in RequestRecords
    BY DEF NoRequest, RequestRecords
  <1>2. Served'
    BY DEF TypeInv, TypeOK, Served, End, Goto, NoRequest, None
  <1> QED BY <1>1, <1>2 DEF TypeInv, TypeOK, End, Goto, Call

LEMMA LeaveType ==
  ASSUME TypeInv, NEW r \in Requests, Leave(r), faults' \in 0..MaxFaults
  PROVE  TypeInv'
  <1>1. NoRequest \in RequestRecords
    BY DEF NoRequest, RequestRecords
  <1>2. CASE call[r] \in {"checked", "working", "placed"}
    <2>1. Goto(r, "gone") /\ UNCHANGED <<req, call>>
      BY <1>2 DEF Leave
    <2>2. Served'
      BY <2>1 DEF TypeInv, TypeOK, Served, Goto
    <2> QED BY <2>1, <2>2 DEF TypeInv, TypeOK, Leave, Goto, processVars
  <1>3. CASE call[r] \notin {"checked", "working", "placed"}
    <2>1. Goto(r, "idle") /\ Call(r, None) /\ req' = [req EXCEPT ![r] = NoRequest]
      BY <1>3 DEF Leave
    <2>2. Served'
      BY <2>1 DEF TypeInv, TypeOK, Served, Goto, NoRequest, None
    <2> QED BY <1>1, <2>1, <2>2 DEF TypeInv, TypeOK, Leave, Goto, Call, processVars
  <1> QED BY <1>2, <1>3

LEMMA ReplyType ==
  ASSUME TypeInv, NEW r \in Requests, NEW answer \in {"ok", "refused"}, Reply(r, answer)
  PROVE  /\ req' \in [Requests -> RequestRecords]
         /\ pc' \in [Requests -> {"idle", "delete", "precommit", "commit", "active", "insert",
                                  "create", "drop", "added", "removed", "gone"}]
         /\ call' \in [Requests -> {None, "sent", "checked", "working", "placed", "ok", "refused"}]
         /\ Served'
  <1>1. NoRequest \in RequestRecords
    BY DEF NoRequest, RequestRecords
  <1>2. call' \in [Requests -> {None, "sent", "checked", "working", "placed", "ok", "refused"}]
    BY DEF TypeInv, TypeOK, Reply, Call
  <1>3. CASE pc[r] = "gone"
    <2>1. Goto(r, "idle") /\ req' = [req EXCEPT ![r] = NoRequest]
      BY <1>3 DEF Reply
    <2>2. Served'
      BY <2>1 DEF TypeInv, TypeOK, Served, Goto, NoRequest, None
    <2> QED BY <1>1, <1>2, <2>1, <2>2 DEF TypeInv, TypeOK, Goto
  <1>4. CASE pc[r] # "gone"
    <2>1. UNCHANGED requestVars
      BY <1>4 DEF Reply
    <2> QED BY <1>2, <2>1 DEF TypeInv, TypeOK, Served, requestVars
  <1> QED BY <1>3, <1>4

LEMMA StopType ==
  ASSUME TypeInv, Stop, faults' \in 0..MaxFaults
  PROVE  TypeInv'
  <1>1. NoRequest \in RequestRecords
    BY DEF NoRequest, RequestRecords
  <1>2. \A r \in Requests : /\ pc'[r] = IF pc[r] = "gone" THEN "idle" ELSE pc[r]
                            /\ req'[r] = IF pc[r] = "gone" THEN NoRequest ELSE req[r]
    BY DEF Stop
  <1>3. Served'
    BY <1>2 DEF TypeInv, Served, NoRequest, None
  <1>4. /\ req' \in [Requests -> RequestRecords]
        /\ pc' \in [Requests -> {"idle", "delete", "precommit", "commit", "active", "insert",
                                  "create", "drop", "added", "removed", "gone"}]
        /\ call' \in [Requests -> {None, "sent", "checked", "working", "placed", "ok", "refused"}]
    BY <1>1 DEF TypeInv, TypeOK, Stop
  <1> QED BY <1>3, <1>4 DEF TypeInv, TypeOK, Stop, dbVars

LEMMA RequestTypeStep ==
  ASSUME TypeInv, NEW r \in Requests,
         \/ DeleteCheck(r) \/ ActiveRead(r) \/ CreateRead(r) \/ DropDelete(r)
         \/ Gcenter(r) \/ Abort(r) \/ LoseCast(r)
  PROVE  TypeInv'
  <1> USE DEF dbVars, requestVars, agentVars, processVars
  <1>1. CASE DeleteCheck(r)
    BY <1>1, ArriveType DEF DeleteCheck, TypeInv, TypeOK
  <1>2. CASE ActiveRead(r)
    <2> PICK s \in Statuses : Arrive(r, "active", s, row)
      BY <1>2 DEF ActiveRead
    <2>1. row \in Statuses \cup {None}
      BY <1>2 DEF ActiveRead, TypeInv, TypeOK, AgentRow
    <2> QED BY <1>2, <2>1, ArriveType DEF ActiveRead, Call, TypeInv, TypeOK
  <1>3. CASE CreateRead(r)
    <2> PICK e \in Entitys : Arrive(r, "create", e, None)
      BY <1>3 DEF CreateRead
    <2> QED BY <1>3, ArriveType DEF CreateRead, TypeInv, TypeOK
  <1>4. CASE DropDelete(r)
    <2> PICK e \in Entitys : Arrive(r, "drop", e, None)
      BY <1>4 DEF DropDelete, TypeInv, TypeOK, EntityRows
    <2>1. PICK place \in {"drop", "removed"} : Goto(r, place)
      BY <1>4 DEF DropDelete
    <2>2. call' \in [Requests -> {None, "sent", "checked", "working", "placed", "ok", "refused"}]
      BY <1>4 DEF DropDelete, Call, TypeInv, TypeOK
    <2> QED BY <1>4, <2>1, <2>2, ArriveType DEF DropDelete, TypeInv, TypeOK
  <1>5. CASE DeleteUpdate(r)
    BY <1>5 DEF DeleteUpdate, Goto, Call, TypeInv, TypeOK, Served
  <1>6. CASE DeleteRefused(r) \/ DeleteCommit(r)
    BY <1>6, EndType DEF DeleteRefused, DeleteCommit, TypeInv, TypeOK, AgentRow
  <1>7. CASE DeleteAccepted(r)
    BY <1>7 DEF DeleteAccepted, Goto, Call, TypeInv, TypeOK, Served
  <1>8. CASE ActiveCommit(r)
    <2>1. row' \in AgentRow
      BY <1>8 DEF ActiveCommit, TypeInv, TypeOK, Served, AgentRow
    <2> QED BY <1>8, <2>1, EndType DEF ActiveCommit, TypeInv, TypeOK
  <1>9. CASE CreateInsert(r)
    <2>1. CASE Goto(r, "create") /\ Call(r, "sent")
      BY <1>9, <2>1 DEF CreateInsert, Goto, Call, TypeInv, TypeOK, Served
    <2>2. CASE Goto(r, "added") /\ UNCHANGED call
      BY <1>9, <2>2 DEF CreateInsert, Goto, TypeInv, TypeOK, Served
    <2> QED BY <1>9, <2>1, <2>2 DEF CreateInsert
  <1>10. CASE EntityCommit(r) \/ SilentCommit(r)
    <2>1. req[r].arg \in Entitys
      BY <1>10 DEF EntityCommit, SilentCommit, TypeInv, Served
    <2>2. rows' \in EntityRows /\ untold' \subseteq Entitys
      BY <1>10, <2>1 DEF EntityCommit, SilentCommit, RowsAfter, TypeInv, TypeOK, EntityRows
    <2> QED BY <1>10, <2>2, EndType DEF EntityCommit, SilentCommit, TypeInv, TypeOK
  <1>11. CASE Refused(r)
    BY <1>11, EndType DEF Refused, TypeInv, TypeOK
  <1>12. CASE GiveUp(r) \/ Abort(r)
    BY <1>12, LeaveType, LifecycleAssumption DEF GiveUp, Abort, Fault, TypeInv, TypeOK
  <1>13. CASE LoseCast(r)
    BY <1>13, LifecycleAssumption DEF LoseCast, Fault, TypeInv, TypeOK, Served
  <1> QED BY <1>1, <1>2, <1>3, <1>4, <1>5, <1>6, <1>7, <1>8, <1>9, <1>10, <1>11, <1>12, <1>13
          DEF Gcenter

LEMMA AgentTypeStep ==
  ASSUME TypeInv, NEW r \in Requests, Serve(r) \/ Place(r) \/ Postcommit(r)
  PROVE  TypeInv'
  <1> USE DEF dbVars, requestVars, agentVars, processVars
  <1>1. CASE Precommit(r)
    BY <1>1 DEF Precommit, Call, TypeInv, TypeOK, Served
  <1>2. CASE Activate(r)
    <2>1. req[r].arg \in Statuses
      BY <1>2 DEF Activate, Handles, TypeInv, Served
    <2> QED BY <1>2, <2>1 DEF Activate, Call, TypeInv, TypeOK, Served
  <1>3. CASE CheckEndpoint(r)
    BY <1>3 DEF CheckEndpoint, Call, TypeInv, TypeOK, Served
  <1>4. CASE TakeLock(r)
    <2>1. CASE Call(r, "working") /\ UNCHANGED requestVars
      BY <1>4, <2>1 DEF TakeLock, Call, TypeInv, TypeOK, Served
    <2>2. CASE Reply(r, "refused")
      BY <1>4, <2>2, ReplyType DEF TakeLock, TypeInv, TypeOK
    <2> QED BY <1>4, <2>1, <2>2 DEF TakeLock
  <1>5. CASE WorkDone(r)
    <2>1. PICK answer \in {"ok", "refused"} : Reply(r, answer)
      BY <1>5 DEF WorkDone, Failed, Succeeded
    <2>2. entitys' \subseteq Entitys
      BY <1>5 DEF WorkDone, Failed, Succeeded, TypeInv, TypeOK
    <2> QED BY <1>5, <2>1, <2>2, ReplyType DEF WorkDone, TypeInv, TypeOK
  <1>6. CASE Place(r)
    <2>1. req[r].arg \in Entitys
      BY <1>6 DEF Place, TypeInv, Served
    <2> QED BY <1>6, <2>1 DEF Place, Call, TypeInv, TypeOK, Served
  <1>7. CASE Postcommit(r)
    BY <1>7 DEF Postcommit, TypeInv, TypeOK, Served
  <1> QED BY <1>1, <1>2, <1>3, <1>4, <1>5, <1>6, <1>7 DEF Serve

LEMMA LifeTypeStep ==
  ASSUME TypeInv, Life \/ Die \/ LocksBegin \/ LocksEnd \/ UpgradeBegin
  PROVE  TypeInv'
  <1> USE DEF dbVars, requestVars, agentVars, processVars
  <1>1. CASE Die \/ Suicide \/ UpgradeRestart
    BY <1>1, StopType, LifecycleAssumption DEF Die, Suicide, UpgradeRestart, Fault, TypeInv, TypeOK
  <1>2. CASE StartAgent
    <2>1. faults' \in 0..MaxFaults
      BY <1>2, LifecycleAssumption DEF StartAgent, Fault, TypeInv, TypeOK
    <2>2. Served' /\ {frozen, locking}' \subseteq BOOLEAN
      BY <1>2 DEF StartAgent, TypeInv, Served
    <2> QED BY <1>2, <2>1, <2>2 DEF StartAgent, TypeInv, TypeOK
  <1>3. CASE ShowAgent
    <2>1. [status |-> row, entitys |-> rows] \in [status : AgentRow, entitys : EntityRows]
      BY DEF TypeInv, TypeOK
    <2>2. shown' \in [status : AgentRow, entitys : EntityRows] /\ life' \in {"down", "shown"}
      BY <1>3, <2>1 DEF ShowAgent, TypeInv, TypeOK
    <2> QED BY <1>3, <2>2 DEF ShowAgent, TypeInv, TypeOK, Served
  <1>4. CASE PostStart
    <2>1. shown.status \in AgentRow /\ shown.entitys \subseteq Entitys
      BY DEF TypeInv, TypeOK, EntityRows
    <2>2. NothingShown \in [status : AgentRow, entitys : EntityRows]
      BY DEF NothingShown, AgentRow, EntityRows, Statuses
    <2> QED BY <1>4, <2>1, <2>2 DEF PostStart, TypeInv, TypeOK, Served, AgentRow
  <1>5. CASE UpgradeEnd \/ LocksBegin \/ LocksEnd \/ UpgradeBegin
    BY <1>5 DEF UpgradeEnd, LocksBegin, LocksEnd, UpgradeBegin, TypeInv, TypeOK, Served
  <1> QED BY <1>1, <1>2, <1>3, <1>4, <1>5 DEF Life

LEMMA TypeStep == TypeInv /\ [Next]_vars => TypeInv'
  <1> SUFFICES ASSUME TypeInv, [Next]_vars PROVE TypeInv'
    OBVIOUS
  <1>1. CASE Next
    BY <1>1, RequestTypeStep, AgentTypeStep, LifeTypeStep DEF Next
  <1>2. CASE UNCHANGED vars
    BY <1>2 DEF TypeInv, TypeOK, Served, vars, dbVars, requestVars, agentVars, processVars
  <1> QED BY <1>1, <1>2

\* The variables keep their types, whatever requests, faults and restarts there are.
THEOREM TypeCorrect == Spec => []TypeOK
  <1>1. TypeInv => TypeOK
    BY DEF TypeInv
  <1> QED BY <1>1, TypeInitially, TypeStep, PTL DEF Spec

(***************************************************************************)
(* Until the first fault.                                                  *)
(***************************************************************************)
\* Who has the row, and how far a call can be where its request is.
Locked ==
    /\ slock # {} => xlock = None
    /\ \A r \in Requests :
          /\ pc[r] # "gone"
          /\ pc[r] \in {"precommit", "commit"} => xlock = r
          /\ r \in slock <=> pc[r] \in {"create", "added"}
          /\ call[r] # None => pc[r] \in {"precommit", "active", "create", "drop"}
          /\ call[r] \in {"checked", "working", "placed"} => pc[r] \in {"create", "drop"}
          /\ call[r] = "placed" => pc[r] = "create"

\* No two requests are about one entity; one that is created has no row yet.
Claims ==
    /\ \A r \in Requests :
          /\ pc[r] \in {"insert", "create", "added"} => req[r].arg \notin rows
          /\ pc[r] \in {"drop", "removed"} => req[r].arg \in rows
    /\ \A q, r \in Requests :
          q # r /\ \/ {pc[q], pc[r]} \subseteq {"insert", "create", "added"}
                   \/ {pc[q], pc[r]} \subseteq {"drop", "removed"}
          => req[q].arg # req[r].arg

\* An agent that starts has nothing to do with entities yet, but those it was not told of.
Booting ==
    life \in {"starting", "shown"} =>
        /\ rows \subseteq untold /\ entitys = {}
        /\ \A r \in Requests : call[r] \in {None, "sent"}
        /\ shown.entitys \subseteq untold /\ shown.status \in Statuses

\* The agent's entities and the rows differ by what the handlers have done and the
\* transactions have not.
EntitysFollow ==
    life = "up" =>
        /\ \A e \in (rows \ entitys) \ untold : \E r \in Requests :
              pc[r] = "drop" /\ req[r].arg = e /\ call[r] = "ok"
        /\ \A e \in (entitys \ rows) \ untold : \E r \in Requests :
              pc[r] = "create" /\ req[r].arg = e /\ call[r] \in {"placed", "ok"}
        /\ \A r \in Requests :
              /\ pc[r] = "drop" /\ call[r] = "ok" => req[r].arg \notin entitys
              /\ pc[r] = "create" /\ call[r] \in {"placed", "ok"} => req[r].arg \in entitys

\* No creation that the agent's check has let in is left when the agent agrees.
Emptied ==
    life = "up" /\ status \in {"PERDELETE", "DELETED"} =>
        /\ entitys = {}
        /\ \A r \in Requests : pc[r] = "create" => call[r] \in {None, "sent", "refused"}

Safe == Locked /\ Claims /\ Booting /\ EntitysFollow /\ Emptied

LEMMA SafeInitially == Init => Safe
  BY DEF Init, Safe, Locked, Claims, Booting, EntitysFollow, Emptied, NothingShown, Statuses, None

\* A request ends that has brought nothing about at the agent.
LEMMA EndSafe ==
  ASSUME TypeInv, Safe, NEW r \in Requests,
         pc' = [pc EXCEPT ![r] = "idle"], call' = [call EXCEPT ![r] = None],
         req' = [req EXCEPT ![r] = NoRequest],
         xlock' = IF xlock = r THEN None ELSE xlock, slock' = slock \ {r},
         UNCHANGED <<rows, untold, processVars>>,
         pc[r] \in {"create", "drop"} => call[r] \notin {"placed", "ok"}
  PROVE  Safe'
  <1>1. /\ pc'[r] = "idle" /\ call'[r] = None
        /\ \A q \in Requests \ {r} : pc'[q] = pc[q] /\ call'[q] = call[q] /\ req'[q] = req[q]
    BY DEF TypeInv, TypeOK
  <1>2. Locked'
    BY <1>1, LifecycleAssumption DEF Safe, Locked, None
  <1>3. Claims' /\ Booting' /\ Emptied'
    BY <1>1 DEF Safe, Claims, Booting, Emptied, processVars, None
  <1>4. EntitysFollow'
    BY <1>1 DEF Safe, EntitysFollow, processVars, None
  <1> QED BY <1>2, <1>3, <1>4 DEF Safe

LEMMA RequestSafe ==
  ASSUME TypeInv, Safe, NEW r \in Requests,
         \/ DeleteCheck(r) \/ ActiveRead(r) \/ CreateRead(r) \/ DropDelete(r) \/ Gcenter(r)
  PROVE  Safe'
  <1> USE DEF dbVars, requestVars, agentVars, processVars
  <1>1. CASE DeleteCheck(r)
    BY <1>1 DEF DeleteCheck, Arrive, Goto, TypeInv, TypeOK, Safe, Locked, Claims, Booting,
                EntitysFollow, Emptied, None
  <1>2. CASE ActiveRead(r)
    BY <1>2 DEF ActiveRead, Arrive, Goto, Call, TypeInv, TypeOK, Safe, Locked, Claims, Booting,
                EntitysFollow, Emptied, None
  <1>3. CASE CreateRead(r)
    BY <1>3 DEF CreateRead, Arrive, Goto, TypeInv, TypeOK, Safe, Locked, Claims, Booting,
                EntitysFollow, Emptied, None
  <1>4. CASE DropDelete(r)
    <2> PICK e \in rows : /\ \A q \in Requests : pc[q] \in {"drop", "removed"} => req[q].arg # e
                          /\ Arrive(r, "drop", e, None)
      BY <1>4 DEF DropDelete
    <2>1. /\ pc[r] = "idle" /\ req'[r].arg = e
          /\ \/ pc'[r] = "drop" /\ call'[r] = "sent"
             \/ pc'[r] = "removed" /\ call'[r] = call[r]
          /\ \A q \in Requests \ {r} : pc'[q] = pc[q] /\ call'[q] = call[q] /\ req'[q] = req[q]
          /\ UNCHANGED <<rows, untold, xlock, slock, life, shown, entitys, status>>
      <3>1. CASE Goto(r, "drop") /\ Call(r, "sent")
        BY <1>4, <3>1 DEF DropDelete, Arrive, Goto, Call, TypeInv, TypeOK
      <3>2. CASE Goto(r, "removed") /\ UNCHANGED call
        BY <1>4, <3>2 DEF DropDelete, Arrive, Goto, TypeInv, TypeOK
      <3> QED BY <1>4, <3>1, <3>2 DEF DropDelete
    <2>2. Locked' /\ Booting' /\ Emptied'
      BY <2>1 DEF Safe, Locked, Booting, Emptied, None
    <2>3. Claims'
      BY <2>1 DEF Safe, Claims
    <2>4. EntitysFollow'
      BY <2>1 DEF Safe, EntitysFollow
    <2> QED BY <2>2, <2>3, <2>4 DEF Safe
  <1>5. CASE DeleteUpdate(r)
    <2>1. /\ pc[r] = "delete" /\ pc'[r] \in {"precommit", "commit"} /\ xlock \in {None, r}
          /\ slock \subseteq {r} /\ xlock' = r
          /\ call'[r] \in {call[r], "sent"} /\ (pc'[r] = "commit" => call'[r] = call[r])
          /\ \A q \in Requests \ {r} : pc'[q] = pc[q] /\ call'[q] = call[q]
          /\ UNCHANGED <<rows, untold, req, slock, life, shown, entitys, status>>
      BY <1>5 DEF DeleteUpdate, RowFree, Goto, Call, TypeInv, TypeOK
    <2>2. Locked'
      <3>1. r \notin slock /\ slock = {}
        BY <2>1 DEF Safe, Locked
      <3>2. \A q \in Requests \ {r} : pc[q] \notin {"precommit", "commit"}
        BY <2>1, LifecycleAssumption DEF Safe, Locked
      <3> QED BY <2>1, <3>1, <3>2 DEF Safe, Locked, None
    <2>3. Claims' /\ Booting' /\ Emptied'
      BY <2>1 DEF Safe, Claims, Booting, Emptied
    <2>4. EntitysFollow'
      BY <2>1 DEF Safe, EntitysFollow
    <2> QED BY <2>2, <2>3, <2>4 DEF Safe
  <1>6. CASE DeleteRefused(r) \/ DeleteCommit(r)
    BY <1>6, EndSafe DEF DeleteRefused, DeleteCommit, End, Goto, Call
  <1>7. CASE DeleteAccepted(r)
    BY <1>7 DEF DeleteAccepted, Goto, Call, TypeInv, TypeOK, Safe, Locked, Claims, Booting,
                EntitysFollow, Emptied, None
  <1>8. CASE ActiveCommit(r)
    BY <1>8, EndSafe DEF ActiveCommit, End, Goto, Call
  <1>9. CASE CreateInsert(r)
    <2>1. /\ pc[r] = "insert" /\ xlock = None /\ xlock' = None /\ slock' = slock \cup {r}
          /\ \/ pc'[r] = "create" /\ call'[r] = "sent"
             \/ pc'[r] = "added" /\ call'[r] = call[r]
          /\ \A q \in Requests \ {r} : pc'[q] = pc[q] /\ call'[q] = call[q]
          /\ UNCHANGED <<rows, untold, req, life, shown, entitys, status>>
      <3>1. CASE Goto(r, "create") /\ Call(r, "sent")
        BY <1>9, <3>1 DEF CreateInsert, Goto, Call, TypeInv, TypeOK
      <3>2. CASE Goto(r, "added") /\ UNCHANGED call
        BY <1>9, <3>2 DEF CreateInsert, Goto, TypeInv, TypeOK
      <3> QED BY <1>9, <3>1, <3>2 DEF CreateInsert
    <2>2. Locked'
      BY <2>1, LifecycleAssumption DEF Safe, Locked, None
    <2>3. Claims' /\ Booting' /\ Emptied'
      BY <2>1 DEF Safe, Locked, Claims, Booting, Emptied, None
    <2>4. EntitysFollow'
      BY <2>1 DEF Safe, EntitysFollow
    <2> QED BY <2>2, <2>3, <2>4 DEF Safe
  <1>10. CASE EntityCommit(r) \/ SilentCommit(r)
    <2>1. /\ \/ pc[r] \in {"create", "drop"} /\ call[r] = "ok" /\ untold' = untold \ {req[r].arg}
             \/ pc[r] \in {"added", "removed"} /\ untold' = untold \cup {req[r].arg}
          /\ pc'[r] = "idle" /\ call'[r] = None
          /\ \A q \in Requests \ {r} : pc'[q] = pc[q] /\ call'[q] = call[q] /\ req'[q] = req[q]
          /\ slock' = slock \ {r} /\ xlock' = IF xlock = r THEN None ELSE xlock
          /\ rows' = IF pc[r] \in {"create", "added"} THEN rows \cup {req[r].arg}
                     ELSE rows \ {req[r].arg}
          /\ UNCHANGED <<life, shown, entitys, status>>
      <3>1. rows' = IF pc[r] \in {"create", "added"} THEN rows \cup {req[r].arg}
                    ELSE rows \ {req[r].arg}
        BY <1>10 DEF EntityCommit, SilentCommit, RowsAfter, TypeInv, Served
      <3>2. End(r) /\ UNCHANGED <<life, shown, entitys, status>>
        BY <1>10 DEF EntityCommit, SilentCommit
      <3>3. /\ pc'[r] = "idle" /\ call'[r] = None
            /\ \A q \in Requests \ {r} : pc'[q] = pc[q] /\ call'[q] = call[q] /\ req'[q] = req[q]
            /\ slock' = slock \ {r} /\ xlock' = IF xlock = r THEN None ELSE xlock
        BY <3>2 DEF End, Goto, Call, TypeInv, TypeOK
      <3>4. \/ pc[r] \in {"create", "drop"} /\ call[r] = "ok" /\ untold' = untold \ {req[r].arg}
            \/ pc[r] \in {"added", "removed"} /\ untold' = untold \cup {req[r].arg}
        BY <1>10 DEF EntityCommit, SilentCommit
      <3> QED BY <3>1, <3>2, <3>3, <3>4
    <2>2. Locked'
      BY <2>1, LifecycleAssumption DEF Safe, Locked, None
    <2>3. Claims'
      BY <2>1 DEF Safe, Claims
    <2>4. Booting' /\ Emptied'
      BY <2>1 DEF Safe, Booting, Emptied, None
    <2>5. EntitysFollow'
      <3>1. CASE pc[r] = "create"
        BY <2>1, <3>1 DEF Safe, EntitysFollow, Claims
      <3>2. CASE pc[r] = "drop"
        BY <2>1, <3>2 DEF Safe, EntitysFollow, Claims
      <3>3. CASE pc[r] \in {"added", "removed"}
        BY <2>1, <3>3 DEF Safe, EntitysFollow
      <3> QED BY <2>1, <3>1, <3>2, <3>3
    <2> QED BY <2>2, <2>3, <2>4, <2>5 DEF Safe
  <1>11. CASE Refused(r)
    BY <1>11, EndSafe DEF Refused, End, Goto, Call
  <1>12. CASE GiveUp(r)
    BY <1>12, EndSafe DEF GiveUp, Leave, Goto, Call, None
  <1> QED BY <1>1, <1>2, <1>3, <1>4, <1>5, <1>6, <1>7, <1>8, <1>9, <1>10, <1>11, <1>12
          DEF Gcenter

\* A step of the agent that only answers, or only moves the call of r at the agent.
LEMMA ServeSafe ==
  ASSUME TypeInv, Safe, NEW r \in Requests, Serve(r) \/ Place(r) \/ Postcommit(r)
  PROVE  Safe'
  <1> USE DEF dbVars, requestVars, agentVars, processVars
  <1>a. pc[r] # "gone"
    BY DEF Safe, Locked
  <1>1. CASE Precommit(r)
    <2>1. /\ pc[r] = "precommit" /\ xlock = r /\ call[r] = "sent" /\ life = "up"
          /\ UNCHANGED <<rows, untold, xlock, slock, req, pc, life, shown, entitys>>
          /\ \A q \in Requests \ {r} : call'[q] = call[q]
          /\ call'[r] \in {"refused", "ok"} /\ (call'[r] = "ok" => entitys = {})
          /\ (call'[r] = "refused" => status' = status)
      BY <1>1 DEF Precommit, Handles, Receives, Call, TypeInv, TypeOK, Served, Safe, Locked, None
    <2>2. \A q \in Requests : pc[q] # "create"
      BY <2>1, LifecycleAssumption DEF Safe, Locked
    <2>3. Locked' /\ Claims' /\ Booting'
      BY <2>1 DEF Safe, Locked, Claims, Booting, None
    <2>4. EntitysFollow'
      BY <2>1 DEF Safe, EntitysFollow
    <2>5. Emptied'
      BY <2>1, <2>2 DEF Safe, Emptied
    <2> QED BY <2>3, <2>4, <2>5 DEF Safe
  <1>2. CASE Activate(r)
    <2>1. /\ pc[r] = "active" /\ life = "up"
          /\ UNCHANGED <<rows, untold, xlock, slock, req, pc, life, shown, entitys>>
          /\ \A q \in Requests \ {r} : call'[q] = call[q]
          /\ call'[r] \in {"refused", "ok"} /\ status' \in {status} \cup Statuses
      BY <1>2 DEF Activate, Handles, Receives, Call, TypeInv, TypeOK, Served, Safe, Locked, None
    <2>2. Locked' /\ Claims' /\ Booting'
      BY <2>1 DEF Safe, Locked, Claims, Booting, None
    <2>3. EntitysFollow' /\ Emptied'
      BY <2>1 DEF Safe, EntitysFollow, Emptied, Statuses
    <2> QED BY <2>2, <2>3 DEF Safe
  <1>3. CASE CheckEndpoint(r)
    <2>1. /\ pc[r] \in {"create", "drop"} /\ life = "up" /\ call[r] = "sent"
          /\ UNCHANGED <<rows, untold, xlock, slock, req, pc, life, shown, entitys, status>>
          /\ \A q \in Requests \ {r} : call'[q] = call[q]
          /\ call'[r] = IF status = "ACTIVE" THEN "checked" ELSE "refused"
      BY <1>3 DEF CheckEndpoint, Handles, Receives, Call, TypeInv, TypeOK, Served, Safe, Locked, None
    <2>2. Locked' /\ Claims' /\ Booting'
      BY <2>1 DEF Safe, Locked, Claims, Booting, None
    <2>3. EntitysFollow' /\ Emptied'
      BY <2>1 DEF Safe, EntitysFollow, Emptied
    <2> QED BY <2>2, <2>3 DEF Safe
  <1>4. CASE TakeLock(r)
    <2>1. /\ pc[r] \in {"create", "drop"} /\ life = "up" /\ call[r] = "checked"
          /\ UNCHANGED <<rows, untold, xlock, slock, req, pc, life, shown, entitys, status>>
          /\ \A q \in Requests \ {r} : call'[q] = call[q]
          /\ call'[r] \in {"working", "refused"}
      BY <1>4, <1>a DEF TakeLock, Reply, Call, TypeInv, TypeOK, Safe, Locked, None
    <2>2. Locked' /\ Claims' /\ Booting'
      BY <2>1 DEF Safe, Locked, Claims, Booting, None
    <2>3. EntitysFollow' /\ Emptied'
      BY <2>1 DEF Safe, EntitysFollow, Emptied, None
    <2> QED BY <2>2, <2>3 DEF Safe
  <1>5. CASE Place(r)
    <2>1. /\ pc[r] = "create" /\ life = "up" /\ call[r] = "working"
          /\ UNCHANGED <<rows, untold, xlock, slock, req, pc, life, shown, status>>
          /\ \A q \in Requests \ {r} : call'[q] = call[q]
          /\ call'[r] = "placed" /\ entitys' = entitys \cup {req[r].arg}
      BY <1>5, <1>a DEF Place, Call, TypeInv, TypeOK, Served, Safe, Locked, None
    <2>2. Locked' /\ Claims' /\ Booting'
      BY <2>1 DEF Safe, Locked, Claims, Booting, None
    <2>3. EntitysFollow'
      BY <2>1 DEF Safe, EntitysFollow, Claims
    <2>4. Emptied'
      BY <2>1 DEF Safe, Emptied, None
    <2> QED BY <2>2, <2>3, <2>4 DEF Safe
  <1>6. CASE WorkDone(r)
    <2>1. /\ life = "up" /\ call[r] \in {"working", "placed"} /\ pc[r] \in {"create", "drop"}
          /\ (call[r] = "placed" => pc[r] = "create")
          /\ UNCHANGED <<rows, untold, xlock, slock, req, pc, life, shown, status>>
          /\ \A q \in Requests \ {r} : call'[q] = call[q]
          /\ call'[r] \in {"ok", "refused"}
      BY <1>6, <1>a DEF WorkDone, Failed, Succeeded, Reply, Call, TypeInv, TypeOK, Safe, Locked, None
    <2>2. Locked' /\ Claims' /\ Booting'
      BY <2>1 DEF Safe, Locked, Claims, Booting, None
    <2>3. CASE Failed(r)
      <3>1. /\ call'[r] = "refused"
            /\ entitys' = IF call[r] = "placed" THEN entitys \ {req[r].arg} ELSE entitys
        BY <2>3, <1>a DEF Failed, Reply, Call, TypeInv, TypeOK
      <3>2. EntitysFollow'
        BY <2>1, <3>1 DEF Safe, EntitysFollow, Claims
      <3>3. Emptied'
        BY <2>1, <3>1 DEF Safe, Emptied, None
      <3> QED BY <2>2, <3>2, <3>3 DEF Safe
    <2>4. CASE Succeeded(r)
      <3>1. /\ call'[r] = "ok"
            /\ \/ call[r] = "placed" /\ entitys' = entitys
               \/ call[r] = "working" /\ pc[r] = "drop" /\ entitys' = entitys \ {req[r].arg}
        BY <2>1, <2>4, <1>a DEF Succeeded, Reply, Call, TypeInv, TypeOK, Served
      <3>2. EntitysFollow'
        BY <2>1, <3>1 DEF Safe, EntitysFollow, Claims
      <3>3. Emptied'
        BY <2>1, <3>1 DEF Safe, Emptied, None
      <3> QED BY <2>2, <3>2, <3>3 DEF Safe
    <2> QED BY <1>6, <2>3, <2>4 DEF WorkDone
  <1>7. CASE Postcommit(r)
    <2>1. /\ life = "up" /\ UNCHANGED <<rows, untold, xlock, slock, req, pc, call, life, shown, entitys>>
          /\ (status' \in {"PERDELETE", "DELETED"} => status \in {"PERDELETE", "DELETED"})
      BY <1>7 DEF Postcommit, Receives
    <2> QED BY <2>1 DEF Safe, Locked, Claims, Booting, EntitysFollow, Emptied
  <1> QED BY <1>1, <1>2, <1>3, <1>4, <1>5, <1>6, <1>7 DEF Serve

LEMMA LifeSafe ==
  ASSUME TypeInv, Safe, Life \/ LocksBegin \/ LocksEnd \/ UpgradeBegin, faults' = faults
  PROVE  Safe'
  <1> USE DEF dbVars, requestVars, agentVars, processVars
  <1>1. ~ StartAgent
    BY LifecycleAssumption DEF StartAgent, Fault, TypeInv, TypeOK
  <1>2. CASE ShowAgent
    <2>1. /\ life = "starting" /\ UNCHANGED <<rows, untold, xlock, slock, req, pc, call, status, entitys>>
          /\ \/ life' = "down"
             \/ life' = "shown" /\ shown'.entitys = rows /\ shown'.status \in Statuses
      BY <1>2 DEF ShowAgent, TypeInv, TypeOK, AgentRow
    <2> QED BY <2>1 DEF Safe, Locked, Claims, Booting, EntitysFollow, Emptied
  <1>3. CASE PostStart
    <2>1. /\ life = "shown" /\ life' = "up" /\ UNCHANGED <<rows, untold, xlock, slock, req, pc, call>>
          /\ status' \in Statuses /\ entitys' \subseteq untold /\ rows \subseteq untold
          /\ \A r \in Requests : call[r] \in {None, "sent"}
      BY <1>3 DEF PostStart, Safe, Booting
    <2> QED BY <2>1 DEF Safe, Locked, Claims, Booting, EntitysFollow, Emptied, Statuses, None
  <1>4. CASE Suicide \/ UpgradeRestart
    <2>1. /\ life' = "down" /\ UNCHANGED <<rows, untold, xlock, slock>>
          /\ \A r \in Requests : pc[r] # "gone"
      BY <1>4 DEF Suicide, UpgradeRestart, Stop, Safe, Locked
    <2>2. \A r \in Requests : pc'[r] = pc[r] /\ req'[r] = req[r] /\ call'[r] \in {call[r], None}
      BY <1>4, <2>1 DEF Suicide, UpgradeRestart, Stop
    <2>3. Locked'
      BY <2>1, <2>2 DEF Safe, Locked, None
    <2> QED BY <2>1, <2>2, <2>3 DEF Safe, Claims, Booting, EntitysFollow, Emptied
  <1>5. CASE UpgradeEnd \/ LocksBegin \/ LocksEnd \/ UpgradeBegin
    BY <1>5 DEF UpgradeEnd, LocksBegin, LocksEnd, UpgradeBegin, Safe, Locked, Claims, Booting,
                EntitysFollow, Emptied
  <1> QED BY <1>1, <1>2, <1>3, <1>4, <1>5 DEF Life

DeletionInv == TypeInv /\ (faults = 0 => Safe)

LEMMA DeletionStep == DeletionInv /\ [Next]_vars => DeletionInv'
  <1> SUFFICES ASSUME DeletionInv, [Next]_vars PROVE DeletionInv'
    OBVIOUS
  <1>1. TypeInv /\ TypeInv'
    BY TypeStep DEF DeletionInv
  <1>2. CASE UNCHANGED vars
    BY <1>1, <1>2 DEF DeletionInv, Safe, Locked, Claims, Booting, EntitysFollow, Emptied, vars,
                      dbVars, requestVars, agentVars, processVars
  <1>3. ASSUME Next, faults' = 0
        PROVE  Safe'
    <2>1. ~ Fault
      BY <1>1, <1>3 DEF Fault, TypeInv, TypeOK
    <2>2. UNCHANGED faults
      <3>1. CASE \E r \in Requests : \/ DeleteCheck(r) \/ ActiveRead(r) \/ CreateRead(r)
                                    \/ DropDelete(r) \/ Gcenter(r)
        BY <3>1 DEF DeleteCheck, ActiveRead, CreateRead, DropDelete, Gcenter, DeleteUpdate,
                    DeleteRefused, DeleteAccepted, DeleteCommit, ActiveCommit, CreateInsert,
                    EntityCommit, SilentCommit, Refused, GiveUp, agentVars
      <3>2. CASE \E r \in Requests : Serve(r) \/ Place(r) \/ Postcommit(r)
        BY <3>2 DEF Serve, Precommit, Activate, CheckEndpoint, TakeLock, WorkDone, Place,
                    Postcommit, agentVars
      <3>3. CASE Life \/ LocksBegin \/ LocksEnd \/ UpgradeBegin
        BY <2>1, <3>3 DEF Life, StartAgent, ShowAgent, PostStart, Suicide, UpgradeEnd,
                    UpgradeRestart, LocksBegin, LocksEnd, UpgradeBegin
      <3> QED BY <1>3, <2>1, <3>1, <3>2, <3>3 DEF Next, Abort, LoseCast, Die
    <2>3. Safe
      BY <1>3, <2>2 DEF DeletionInv
    <2>4. ~ Die /\ \A r \in Requests : ~ Abort(r) /\ ~ LoseCast(r)
      BY <2>1 DEF Die, Abort, LoseCast
    <2> QED BY <1>1, <1>3, <2>2, <2>3, <2>4, RequestSafe, ServeSafe, LifeSafe DEF Next
  <1> QED BY <1>1, <1>2, <1>3 DEF DeletionInv

LEMMA DeletionInvariant == Spec => []DeletionInv
  <1>1. Init => DeletionInv
    BY TypeInitially, SafeInitially DEF DeletionInv
  <1> QED BY <1>1, DeletionStep, PTL DEF Spec

\* For any number of requests and entities, until the first fault: an agent that has
\* agreed to be deleted runs no entity, and no row names it but those being deleted and
\* those created with notify=False.
THEOREM DeletedAgentIsEmptyHolds == Spec => []DeletedAgentIsEmpty
  <1>1. DeletionInv => DeletedAgentIsEmpty
    BY DEF DeletionInv, Safe, Emptied, EntitysFollow, DeletedAgentIsEmpty
  <1> QED BY <1>1, DeletionInvariant, PTL

\* For any number of requests and entities, until the first fault: the agent and the
\* database agree, whenever no request is under way, on every entity whose row was not
\* last changed with notify=False.
THEOREM EntitysAgreeHolds == Spec => []EntitysAgree
  <1>1. DeletionInv => EntitysAgree
    <2> SUFFICES ASSUME DeletionInv, Quiet, faults = 0 PROVE entitys \ untold = rows \ untold
      BY DEF EntitysAgree
    <2>1. EntitysFollow /\ life = "up" /\ \A r \in Requests : pc[r] = "idle"
      BY DEF DeletionInv, Safe, Quiet
    <2>2. (rows \ entitys) \ untold = {} /\ (entitys \ rows) \ untold = {}
      BY <2>1 DEF EntitysFollow
    <2> QED BY <2>2
  <1> QED BY <1>1, DeletionInvariant, PTL
=============================================================================
