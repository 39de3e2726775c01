--------------------------- MODULE AgentLifecycle ---------------------------
(***************************************************************************)
(* One agent and the requests of gcenter that concern it: deleting the     *)
(* agent in two phases, making it active or not, creating and deleting an  *)
(* entity on it, and its own start, upgrade and death.                     *)
(*                                                                         *)
(* A request is a wsgi thread with a database transaction around an rpc    *)
(* call to the agent.  The agent's row is locked exclusively by an UPDATE  *)
(* and shared by the INSERT of an entity that refers to it (foreign key).  *)
(* The agent's memory (status, frozen, the entities of its endpoint) is    *)
(* lost when it dies; it reads the row and the entities when it starts.    *)
(***************************************************************************)
EXTENDS Naturals

None == "none"

CONSTANTS
    Requests,     \* wsgi threads
    Entitys,      \* ids an entity of the endpoint may get
    Kinds,        \* what happens: kinds of request, and of work at the agent; "silent":
                  \* entities are created and deleted with notify=False too
    MaxFaults     \* bound on the faults: the agent's deaths and later starts, calls
                  \* that end while they are handled, casts that are lost

ASSUME LifecycleAssumption ==
    /\ Kinds \subseteq {"delete", "active", "create", "drop", "silent", "upgrade", "locks"}
    /\ MaxFaults \in Nat /\ None \notin Requests

VARIABLES
    row,       \* the agent's row: its committed status
    rows,      \* the committed entity rows
    xlock,     \* the transaction that holds the row exclusively
    slock,     \* the transactions that share it
    untold,    \* entities whose row was last changed without telling the agent
    req,       \* the request each thread serves: its kind, its entity or the status it
               \* asks for, and the status of the row it has read
    pc,        \* where it is; "gone": it has given up a call the agent still handles
    call,      \* its rpc call, on its way, at the agent, or answered
    casts,     \* delete_agent_postcommit casts on their way
    life,      \* the agent's process
    status,    \* the agent's status
    shown,     \* what agent_show returned to the starting agent
    frozen,    \* endpoint.frozen
    locking,   \* a thread of the endpoint is inside locks()
    upgrading, \* rpc_upgrade_agent runs and holds work_lock, or will restart the agent
    entitys,   \* endpoint.entitys
    faults     \* how many of these there were

dbVars == <<row, rows, xlock, slock, untold>>
requestVars == <<req, pc>>
processVars == <<life, status, shown, frozen, locking, upgrading, entitys>>
agentVars == <<processVars, faults>>
vars == <<dbVars, requestVars, call, casts, agentVars>>

-----------------------------------------------------------------------------
Statuses == {"ACTIVE", "UNACTIVE"}

RequestRecords ==
    [kind : {"delete", "active", "create", "drop", None},
     arg : Entitys \cup Statuses \cup {None}, seen : Statuses \cup {None}]
\* The tables Agent and AgentEntity, as far as requests tell their rows apart.
AgentRow == Statuses \cup {"DELETED"}
EntityRows == SUBSET Entitys

NothingShown == [status |-> "UNACTIVE", entitys |-> {}]
NoRequest == [kind |-> None, arg |-> None, seen |-> None]

TypeOK ==
    /\ row \in AgentRow /\ rows \in EntityRows
    /\ xlock \in Requests \cup {None} /\ slock \subseteq Requests /\ untold \subseteq Entitys
    /\ pc \in [Requests -> {"idle", "delete", "precommit", "commit", "active", "insert",
                            "create", "drop", "added", "removed", "gone"}]
    /\ req \in [Requests -> RequestRecords]
    /\ call \in [Requests -> {None, "sent", "checked", "working", "placed", "ok", "refused"}]
    /\ casts \subseteq Requests
    /\ life \in {"down", "starting", "shown", "up"}
    /\ status \in Statuses \cup {"INITIALIZING", "PERDELETE", "DELETED"}
    /\ shown \in [status : AgentRow, entitys : EntityRows]
    /\ {frozen, locking} \subseteq BOOLEAN /\ upgrading \in {"no", "yum", "restart"}
    /\ entitys \subseteq Entitys
    /\ faults \in 0..MaxFaults

Init ==
    /\ row \in Statuses /\ rows = {} /\ xlock = None /\ slock = {} /\ untold = {}
    /\ req = [r \in Requests |-> NoRequest]
    /\ pc = [r \in Requests |-> "idle"]
    /\ call = [r \in Requests |-> None]
    /\ casts = {}
    /\ life = "starting" /\ status = "INITIALIZING"
    /\ shown = NothingShown
    /\ frozen = FALSE /\ locking = FALSE /\ upgrading = "no"
    /\ entitys = {} /\ faults = 0

Fault == faults < MaxFaults /\ faults' = faults + 1
Goto(r, place) == pc' = [pc EXCEPT ![r] = place]
Call(r, state) == call' = [call EXCEPT ![r] = state]

\* No other transaction holds the row.
RowFree(r) == xlock \in {None, r} /\ slock \subseteq {r}

\* The agent answers the call of r; the answer to a caller that is gone is dropped.
Reply(r, answer) ==
    /\ Call(r, IF pc[r] = "gone" THEN None ELSE answer)
    /\ IF pc[r] = "gone" THEN Goto(r, "idle") /\ req' = [req EXCEPT ![r] = NoRequest]
       ELSE UNCHANGED requestVars

Arrive(r, k, arg, seen) ==
    /\ k \in Kinds /\ pc[r] = "idle"
    /\ req' = [req EXCEPT ![r] = [kind |-> k, arg |-> arg, seen |-> seen]]

\* The transaction of r ends, and the request with it.
End(r) ==
    /\ Goto(r, "idle") /\ Call(r, None)
    /\ req' = [req EXCEPT ![r] = NoRequest]
    /\ xlock' = IF xlock = r THEN None ELSE xlock
    /\ slock' = slock \ {r}

(***************************************************************************)
(* AgentReuest.delete, with GlobalData.delete_agent around it.             *)
(***************************************************************************)
\* The agent is there and has no entity.  This is read before the transaction.
DeleteCheck(r) ==
    /\ Arrive(r, "delete", None, None) /\ row # "DELETED" /\ rows = {}
    /\ Goto(r, "delete")
    /\ UNCHANGED <<dbVars, call, casts, agentVars>>

\* The row is marked; unless the deletion is forced the agent is called.
DeleteUpdate(r) ==
    /\ pc[r] = "delete" /\ RowFree(r)
    /\ xlock' = r
    /\ \/ Goto(r, "precommit") /\ Call(r, "sent")
       \/ Goto(r, "commit") /\ UNCHANGED call
    /\ UNCHANGED <<row, rows, slock, untold, req, casts, agentVars>>

\* The agent refuses: `return' leaves the `with' without an error, so that the
\* transaction is committed.
DeleteRefused(r) ==
    /\ pc[r] = "precommit" /\ call[r] = "refused"
    /\ row' = "DELETED"
    /\ End(r)
    /\ UNCHANGED <<rows, untold, casts, agentVars>>

\* The agent waits for deletion: it is told to die before the commit.
DeleteAccepted(r) ==
    /\ pc[r] = "precommit" /\ call[r] = "ok"
    /\ casts' = casts \cup {r}
    /\ Goto(r, "commit") /\ Call(r, None)
    /\ UNCHANGED <<dbVars, req, agentVars>>

DeleteCommit(r) ==
    /\ pc[r] = "commit"
    /\ row' = "DELETED"
    /\ End(r)
    /\ UNCHANGED <<rows, untold, casts, agentVars>>

(***************************************************************************)
(* AgentReuest.active.                                                     *)
(***************************************************************************)
\* Mutant: a deleted agent is found too.
ActiveRead_AnyStatus(r) ==
    /\ \E s \in Statuses : Arrive(r, "active", s, row)
    /\ Goto(r, "active") /\ Call(r, "sent")
    /\ UNCHANGED <<dbVars, casts, agentVars>>

ActiveRead(r) ==
    /\ row # "DELETED" /\ \E s \in Statuses : Arrive(r, "active", s, row)
    /\ Goto(r, "active") /\ Call(r, "sent")
    /\ UNCHANGED <<dbVars, casts, agentVars>>

\* The status is flushed with the commit, if it differs from the one read, to the
\* row of that id whatever has become of it.
ActiveCommit(r) ==
    /\ pc[r] = "active" /\ call[r] = "ok"
    /\ \/ req[r].arg = req[r].seen /\ UNCHANGED row
       \/ req[r].arg # req[r].seen /\ RowFree(r) /\ row' = req[r].arg
    /\ End(r)
    /\ UNCHANGED <<rows, untold, casts, agentVars>>

(***************************************************************************)
(* EntityReuest.create and delete.                                         *)
(***************************************************************************)
\* A new id: neither in the table nor in a transaction (endpoint lock).
CreateRead(r) ==
    /\ row = "ACTIVE"
    /\ \E e \in Entitys \ rows :
          /\ \A q \in Requests : pc[q] \in {"insert", "create", "added"} => req[q].arg # e
          /\ Arrive(r, "create", e, None)
    /\ Goto(r, "insert")
    /\ UNCHANGED <<dbVars, call, casts, agentVars>>

\* Mutant: the entity row does not refer to the agent's.
CreateInsert_NoForeignKey(r) ==
    /\ pc[r] = "insert"
    /\ Goto(r, "create") /\ Call(r, "sent")
    /\ UNCHANGED <<dbVars, req, casts, agentVars>>

CreateInsert(r) ==
    /\ pc[r] = "insert" /\ xlock = None
    /\ slock' = slock \cup {r}
    /\ \/ Goto(r, "create") /\ Call(r, "sent")
       \/ "silent" \in Kinds /\ Goto(r, "added") /\ UNCHANGED call
    /\ UNCHANGED <<row, rows, xlock, untold, req, casts, agentVars>>

\* One transaction at a time deletes a row.
DropDelete(r) ==
    /\ \E e \in rows :
          /\ \A q \in Requests : pc[q] \in {"drop", "removed"} => req[q].arg # e
          /\ Arrive(r, "drop", e, None)
    /\ \/ Goto(r, "drop") /\ Call(r, "sent")
       \/ "silent" \in Kinds /\ Goto(r, "removed") /\ UNCHANGED call
    /\ UNCHANGED <<dbVars, casts, agentVars>>

RowsAfter(r) ==
    IF req[r].kind = "create" THEN rows \cup {req[r].arg} ELSE rows \ {req[r].arg}

EntityCommit(r) ==
    /\ pc[r] \in {"create", "drop"} /\ call[r] = "ok"
    /\ rows' = RowsAfter(r) /\ untold' = untold \ {req[r].arg}
    /\ End(r)
    /\ UNCHANGED <<row, casts, agentVars>>

\* notify=False: the row is committed, whether the agent is online, waits for its
\* deletion or runs the entity.
SilentCommit(r) ==
    /\ pc[r] \in {"added", "removed"}
    /\ rows' = RowsAfter(r) /\ untold' = untold \cup {req[r].arg}
    /\ End(r)
    /\ UNCHANGED <<row, casts, agentVars>>

(***************************************************************************)
(* The other ends of a request.                                            *)
(***************************************************************************)
\* An error of the agent raises in the transaction, which is rolled back.
Refused(r) ==
    /\ pc[r] \in {"active", "create", "drop"} /\ call[r] = "refused"
    /\ End(r)
    /\ UNCHANGED <<row, rows, untold, casts, agentVars>>

\* The request fails and its transaction is rolled back.  A message that was not yet
\* handled has passed its finishtime then; a handler that has begun goes on.
Leave(r) ==
    /\ IF call[r] \in {"checked", "working", "placed"}
       THEN Goto(r, "gone") /\ UNCHANGED <<req, call>>
       ELSE Goto(r, "idle") /\ Call(r, None) /\ req' = [req EXCEPT ![r] = NoRequest]
    /\ xlock' = IF xlock = r THEN None ELSE xlock
    /\ slock' = slock \ {r}
    /\ UNCHANGED <<row, rows, untold, casts, processVars>>

\* full(), and the priority lock work_lock: messages are handled by an agent that
\* is started, not deleted and not being upgraded.
Receives == life = "up" /\ status # "DELETED" /\ upgrading # "yum"

Calling(r) == pc[r] \in {"precommit", "active", "create", "drop"}

\* Mutant: a call waits as long as its message is in the queue.
GiveUp_WhenLost(r) ==
    /\ Calling(r) /\ call[r] = None
    /\ Leave(r) /\ UNCHANGED faults

\* The call times out: the agent does not handle it, or died over it.
GiveUp(r) ==
    /\ Calling(r)
    /\ call[r] = None \/ (call[r] = "sent" /\ ~ Receives)
    /\ Leave(r) /\ UNCHANGED faults

\* The call times out while it is handled, its reply is lost, or the worker dies.
Abort(r) ==
    /\ pc[r] \notin {"idle", "gone"}
    /\ Fault /\ Leave(r)

LoseCast(r) ==
    /\ r \in casts /\ casts' = casts \ {r}
    /\ Fault
    /\ UNCHANGED <<dbVars, requestVars, call, processVars>>

(***************************************************************************)
(* The agent.                                                              *)
(***************************************************************************)
\* A process that finds no agent of its host registers as another agent.
StartAgent ==
    /\ life = "down" /\ row # "DELETED" /\ Fault
    /\ life' = "starting" /\ status' = "INITIALIZING"
    /\ frozen' = FALSE /\ locking' = FALSE /\ upgrading' = "no"
    /\ entitys' = {}
    /\ UNCHANGED <<dbVars, requestVars, call, casts, shown>>

\* post_start: agent_show takes no lock and reads what is committed.
ShowAgent ==
    /\ life = "starting"
    /\ IF row = "DELETED"
       THEN life' = "down" /\ UNCHANGED shown
       ELSE life' = "shown" /\ shown' = [status |-> row, entitys |-> rows]
    /\ UNCHANGED <<dbVars, requestVars, call, casts, status, frozen, locking, upgrading,
                   entitys, faults>>

\* post_start: the entities are loaded, then the status is forced.
PostStart ==
    /\ life = "shown"
    /\ life' = "up" /\ status' = shown.status /\ entitys' = shown.entitys
    /\ shown' = NothingShown
    /\ UNCHANGED <<dbVars, requestVars, call, casts, frozen, locking, upgrading, faults>>

\* The process dies with the handlers it runs; queued messages stay.
Stop ==
    /\ life' = "down"
    /\ call' = [r \in Requests |->
                  IF call[r] \in {"checked", "working", "placed"} THEN None ELSE call[r]]
    /\ pc' = [r \in Requests |-> IF pc[r] = "gone" THEN "idle" ELSE pc[r]]
    /\ req' = [r \in Requests |-> IF pc[r] = "gone" THEN NoRequest ELSE req[r]]
    /\ UNCHANGED <<dbVars, casts, status, shown, frozen, locking, upgrading, entitys>>

Die ==
    /\ life # "down" /\ Fault
    /\ Stop

\* suicide(delay=3) of delete_agent_postcommit.
Suicide ==
    /\ life = "up" /\ status = "DELETED"
    /\ Stop /\ UNCHANGED faults

Handles(r, k) == Receives /\ call[r] = "sent" /\ req[r].kind = k

\* rpc_delete_agent_precommit: refused at once when the thread pool is busy, else
\* the endpoints are frozen before anything more is asked.
Precommit(r) ==
    /\ Handles(r, "delete")
    /\ \/ Call(r, "refused") /\ UNCHANGED <<frozen, status>>
       \/ /\ frozen' = TRUE
          /\ IF status = "PERDELETE" \/ entitys # {}
             THEN Call(r, "refused") /\ UNCHANGED status
             ELSE Call(r, "ok") /\ status' = "PERDELETE"
    /\ UNCHANGED <<dbVars, requestVars, casts, life, shown, locking, upgrading, entitys, faults>>

\* Mutant: the cast is refused while the agent waits for deletion.
Postcommit_WrongStatus(r) ==
    /\ Receives /\ r \in casts
    /\ casts' = casts \ {r}
    /\ status' = IF status = "ACTIVE" THEN "DELETED" ELSE status
    /\ UNCHANGED <<dbVars, requestVars, call, life, shown, frozen, locking, upgrading,
                   entitys, faults>>

\* rpc_delete_agent_postcommit.
Postcommit(r) ==
    /\ Receives /\ r \in casts
    /\ casts' = casts \ {r}
    /\ status' = IF status = "PERDELETE" THEN "DELETED" ELSE status
    /\ UNCHANGED <<dbVars, requestVars, call, life, shown, frozen, locking, upgrading,
                   entitys, faults>>

\* rpc_active_agent and set_status.
Activate(r) ==
    /\ Handles(r, "active")
    /\ IF status = "PERDELETE" THEN Call(r, "refused") /\ UNCHANGED status
       ELSE Call(r, "ok") /\ status' = req[r].arg
    /\ UNCHANGED <<dbVars, requestVars, casts, life, shown, frozen, locking, upgrading,
                   entitys, faults>>

\* CheckEndpointRpcCtxt of create_entity and delete_entity.
CheckEndpoint(r) ==
    /\ Handles(r, "create") \/ Handles(r, "drop")
    /\ Call(r, IF status = "ACTIVE" THEN "checked" ELSE "refused")
    /\ UNCHANGED <<dbVars, requestVars, casts, agentVars>>

\* The handler takes the entity's lock: lock(), or an error after it has waited
\* for the endpoint, or the entity, in vain.
TakeLock(r) ==
    /\ life = "up" /\ call[r] = "checked"
    /\ \/ ~ frozen /\ Call(r, "working") /\ UNCHANGED requestVars
       \/ Reply(r, "refused")
    /\ UNCHANGED <<dbVars, casts, agentVars>>

\* The endpoint's own handler takes its place in endpoint.entitys at some moment
\* of its work, and leaves it again when the work fails.
Place(r) ==
    /\ life = "up" /\ call[r] = "working" /\ req[r].kind = "create" /\ req[r].arg \notin entitys
    /\ entitys' = entitys \cup {req[r].arg}
    /\ Call(r, "placed")
    /\ UNCHANGED <<dbVars, requestVars, casts, life, status, shown, frozen, locking,
                   upgrading, faults>>

\* Mutant: a handler that fails leaves its entity in the map.
Failed_KeepsEntity(r) ==
    /\ call[r] \in {"working", "placed"}
    /\ UNCHANGED entitys
    /\ Reply(r, "refused")

Failed(r) ==
    /\ call[r] \in {"working", "placed"}
    /\ entitys' = IF call[r] = "placed" THEN entitys \ {req[r].arg} ELSE entitys
    /\ Reply(r, "refused")

Succeeded(r) ==
    /\ \/ call[r] = "placed" /\ UNCHANGED entitys
       \/ call[r] = "working" /\ req[r].kind = "drop" /\ entitys' = entitys \ {req[r].arg}
    /\ Reply(r, "ok")

WorkDone(r) ==
    /\ life = "up"
    /\ Failed(r) \/ Succeeded(r)
    /\ UNCHANGED <<dbVars, casts, life, status, shown, frozen, locking, upgrading, faults>>

\* locks(): the endpoint is frozen while several entities are being locked, and
\* not frozen any more afterwards.
LocksBegin ==
    /\ "locks" \in Kinds
    /\ life = "up" /\ status = "ACTIVE" /\ ~ frozen
    /\ frozen' = TRUE /\ locking' = TRUE
    /\ UNCHANGED <<dbVars, requestVars, call, casts, life, status, shown, upgrading, entitys, faults>>

LocksEnd ==
    /\ life = "up" /\ locking
    /\ frozen' = FALSE /\ locking' = FALSE
    /\ UNCHANGED <<dbVars, requestVars, call, casts, life, status, shown, upgrading, entitys, faults>>

\* rpc_upgrade_agent: work_lock is held until yum has ended; a failure is only
\* reported, a success faults the agent.
UpgradeBegin ==
    /\ "upgrade" \in Kinds
    /\ life = "up" /\ status \in Statuses /\ upgrading = "no"
    /\ upgrading' = "yum" /\ frozen' = TRUE
    /\ UNCHANGED <<dbVars, requestVars, call, casts, life, status, shown, locking, entitys, faults>>

UpgradeEnd ==
    /\ life = "up" /\ upgrading = "yum"
    /\ upgrading' \in {"no", "restart"}
    /\ UNCHANGED <<dbVars, requestVars, call, casts, life, status, shown, frozen, locking,
                   entitys, faults>>

\* The init script, started 5 seconds before.
UpgradeRestart ==
    /\ life = "up" /\ upgrading = "restart"
    /\ Stop /\ UNCHANGED faults

-----------------------------------------------------------------------------
Gcenter(r) ==
    \/ DeleteUpdate(r) \/ DeleteRefused(r) \/ DeleteAccepted(r) \/ DeleteCommit(r)
    \/ ActiveCommit(r) \/ CreateInsert(r) \/ EntityCommit(r) \/ SilentCommit(r)
    \/ Refused(r) \/ GiveUp(r)

Life == StartAgent \/ ShowAgent \/ PostStart \/ Suicide \/ UpgradeEnd \/ UpgradeRestart

Serve(r) == Precommit(r) \/ Activate(r) \/ CheckEndpoint(r) \/ TakeLock(r) \/ WorkDone(r)

Next ==
    \/ \E r \in Requests : \/ DeleteCheck(r) \/ ActiveRead(r) \/ CreateRead(r) \/ DropDelete(r)
                           \/ Gcenter(r) \/ Abort(r) \/ LoseCast(r)
                           \/ Serve(r) \/ Place(r) \/ Postcommit(r)
    \/ Life \/ Die \/ LocksBegin \/ LocksEnd \/ UpgradeBegin

Spec == Init /\ [][Next]_vars

\* Threads are scheduled, calls time out, a row lock and a message queue are first
\* come, first served, and the bounded faults of the agent are taken.
FairSpec ==
    /\ Spec /\ WF_vars(Life)
    /\ \A r \in Requests :
          SF_vars(Gcenter(r)) /\ SF_vars(Serve(r)) /\ SF_vars(Postcommit(r))

-----------------------------------------------------------------------------
\* An agent that has agreed to be deleted, or is deleted, runs no entity, and no row
\* names it but those that are being deleted and those that were created with
\* notify=False: neither a handler that was checked before the agreement nor a
\* transaction that had read an active agent brings one.  This rests on the row locks, the
\* freeze and the status together.  It holds until the first fault: a call that timed out
\* while it is handled, or a restart that reads the entities while one is being committed,
\* defeats it.
DeletedAgentIsEmpty ==
    status \in {"PERDELETE", "DELETED"} /\ life = "up" /\ faults = 0 =>
        /\ entitys = {}
        /\ \A e \in rows \ untold : \E r \in Requests : pc[r] = "drop" /\ req[r].arg = e

Quiet == life = "up" /\ \A r \in Requests : pc[r] = "idle"

\* When no request is under way the entities the agent runs are the entities of
\* the database (EntityReuest.create and delete, and the handlers they call), but for those
\* whose row was last changed with notify=False, until the first fault.
EntitysAgree == Quiet /\ faults = 0 => entitys \ untold = rows \ untold

\* An agent that agreed to be deleted, and whose deletion goes on, stops: the cast that
\* tells it to is handled although it is frozen and waits for deletion, unless it, or
\* the worker that sends it, is lost.
DeletedAgentStops ==
    \A r \in Requests : pc[r] = "precommit" /\ call[r] = "ok" ~> life = "down" \/ faults > 0

\* Every request ends: no row lock, frozen endpoint or busy agent holds it for ever.
EveryRequestEnds == \A r \in Requests : pc[r] \notin {"idle", "gone"} ~> pc[r] = "idle"
=============================================================================
