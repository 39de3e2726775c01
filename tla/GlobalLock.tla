----------------------------- MODULE GlobalLock -----------------------------
(***************************************************************************)
(* The global locks of gcenter (gdata.py), kept in redis and shared by the *)
(* green threads of every wsgi process.  AGENT_KEY is a string while the   *)
(* whole agent list is locked and a set of agent ids while single agents   *)
(* are; the key of an endpoint is likewise a string or a set of entity     *)
(* ids.  The two uses exclude one another only through redis' own rules:   *)
(* SET NX refuses an existing key and SADD refuses a string.  Neither key  *)
(* has a time to live.  One endpoint is modelled.                          *)
(***************************************************************************)
EXTENDS FiniteSets

CONSTANTS
    Threads,     \* green threads of the wsgi workers
    Processes,   \* wsgi worker processes
    Locker,      \* Locker[t]: the process whose `locker' string t writes
    Agents,
    Entitys,     \* entities of the endpoint
    Home,        \* Home[e]: the agent that has entity e
    Operations,  \* kinds of request that arrive
    Failures     \* may redis time out, and a thread's process die

NoOwner == "none"

ASSUME ThreadsAssumption ==
    /\ Locker \in [Threads -> Processes]
    /\ Home \in [Entitys -> Agents]
    /\ NoOwner \notin Processes
    /\ Operations \subseteq {"all", "agents", "create", "delete"}
    /\ Failures \in BOOLEAN

VARIABLES
    key,       \* the two redis keys
    watching,  \* keys a thread has WATCHed that did not change since
    pc,        \* where each thread is
    op,        \* the request each thread serves
    agents,    \* agents it locks
    entity,    \* the entity it locks, as a set of at most one
    over,      \* its alloctime has run out
    clean,     \* `not locked' of _lock_agents: one pass met no WRONGTYPE
    garbage,   \* keys whose deletion was given up, <<key, locker>>
    robbed     \* <<t, k>>: t holds marks in k another's release has removed

vars == <<key, watching, pc, op, agents, entity, over, clean, garbage, robbed>>
requestVars == <<op, agents, entity>>

-----------------------------------------------------------------------------
Keys == {"agent", "endpoint"}
KeyValue == [owner : Processes \cup {NoOwner}, marks : SUBSET (Agents \cup Entitys)]
Absent == [owner |-> NoOwner, marks |-> {}]

IsString(k) == key[k].owner # NoOwner
Exists(k) == key[k] # Absent

Waiting == {"setnx", "scan", "exec", "elock", "check", "watch", "sadd"}
\* Thread t is between getting a lock on key k and the first command of its
\* release: as the one holder of the whole list, or of some members.
HoldsWhole(t, k) ==
    pc[t] = IF k = "agent" THEN "inAll" ELSE "inBoth"
HoldsMembers(t, k) ==
    IF k = "agent"
    THEN \/ pc[t] \in {"inAgents", "elock", "inBoth", "leaveAgents", "inEntitys"}
         \/ pc[t] = "redelete" /\ op[t] = "create"
    ELSE pc[t] \in {"inEntitys", "leaveEntity"}
Members(t, k) == IF k = "agent" THEN agents[t] ELSE entity[t]

\* A command that leaves the keys as `new': it breaks the WATCH of every key
\* whose value changed, and ends the thread's own WATCH.
Write(t, new) ==
    /\ key' = new
    /\ watching' = [u \in Threads |->
                      IF u = t THEN {} ELSE {k \in watching[u] : new[k] = key[k]}]

Goto(t, place) == pc' = [pc EXCEPT ![t] = place]

\* Mutants: SET without NX; a lock that only minds other locks of its own kind; the
\* thread's name stored instead of the process's `locker'.
SetNX_Plain(t, k) == Write(t, [key EXCEPT ![k] = [owner |-> Locker[t], marks |-> {}]])
SetNX_OwnKind(t, k) ==
    /\ ~ IsString(k)
    /\ Write(t, [key EXCEPT ![k] = [owner |-> Locker[t], marks |-> {}]])

SetNX_Thread(t, k) ==
    /\ ~ Exists(k)
    /\ Write(t, [key EXCEPT ![k].owner = t])

SetNX(t, k) ==
    /\ ~ Exists(k)
    /\ Write(t, [key EXCEPT ![k].owner = Locker[t]])

Added(k, members) ==
    IF IsString(k) THEN key[k] ELSE [key[k] EXCEPT !.marks = @ \cup members]
\* SREM of a string key is an error that garbage_member_collection ignores.
Removed(k, members) ==
    IF IsString(k) THEN key[k] ELSE [key[k] EXCEPT !.marks = @ \ members]

Init ==
    /\ key = [k \in Keys |-> Absent]
    /\ watching = [t \in Threads |-> {}]
    /\ pc = [t \in Threads |-> "idle"]
    /\ op = [t \in Threads |-> "all"]
    /\ agents = [t \in Threads |-> {}]
    /\ entity = [t \in Threads |-> {}]
    /\ over = [t \in Threads |-> FALSE]
    /\ clean = [t \in Threads |-> FALSE]
    /\ garbage = {} /\ robbed = {}

\* A request arrives: "all" is add_agent, flush_all_agents, flush_onlines;
\* "agents" is every operation on one or more agents; "create" adds an entity
\* under an agent's lock and the endpoint's; "delete" deletes or migrates one.
Start(t) ==
    /\ pc[t] = "idle"
    /\ \E o \in Operations, A \in (SUBSET Agents) \ {{}}, e \in Entitys :
          /\ o = "create" => Cardinality(A) = 1
          /\ o \in {"all", "delete"} => A = {Home[e]}
          /\ op' = [op EXCEPT ![t] = o]
          /\ agents' = [agents EXCEPT ![t] = IF o = "all" THEN {} ELSE A]
          /\ entity' = [entity EXCEPT ![t] = IF o = "delete" THEN {e} ELSE {}]
          /\ Goto(t, CASE o = "all" -> "setnx" [] o = "delete" -> "check" [] OTHER -> "scan")
    /\ over' = [over EXCEPT ![t] = FALSE]
    /\ clean' = [clean EXCEPT ![t] = FALSE]
    /\ UNCHANGED <<key, watching, garbage, robbed>>

\* alloctime has passed since the thread began to wait for a lock.
Overtime(t) ==
    /\ pc[t] \in Waiting \/ pc[t] = "redelete"
    /\ ~ over[t]
    /\ over' = [over EXCEPT ![t] = TRUE]
    /\ UNCHANGED <<key, watching, pc, requestVars, clean, garbage, robbed>>

(***************************************************************************)
(* _lock_all_agents and _lock_endpoint: SET NX until it succeeds, and the  *)
(* key deleted on leaving.                                                 *)
(***************************************************************************)
AcquireAll(t) ==
    /\ pc[t] = "setnx"
    /\ SetNX(t, "agent")
    /\ Goto(t, "inAll")
    /\ UNCHANGED <<requestVars, over, clean, garbage, robbed>>

\* Mutant: the wait for a key that is a set is not bounded.
AllTimeout_String(t) ==
    /\ pc[t] = "setnx" /\ over[t] /\ IsString("agent")
    /\ Goto(t, "idle")
    /\ UNCHANGED <<key, watching, requestVars, over, clean, garbage, robbed>>

AllTimeout(t) ==
    /\ pc[t] = "setnx" /\ over[t] /\ Exists("agent")
    /\ Goto(t, "idle")
    /\ UNCHANGED <<key, watching, requestVars, over, clean, garbage, robbed>>

AcquireEndpoint(t) ==
    /\ pc[t] = "elock"
    /\ SetNX(t, "endpoint")
    /\ Goto(t, "inBoth")
    /\ UNCHANGED <<requestVars, over, clean, garbage, robbed>>

\* Mutant: the agent's lock is not released when the endpoint's is not given.
EndpointTimeout_NoRelease(t) ==
    /\ pc[t] = "elock" /\ over[t] /\ Exists("endpoint")
    /\ Goto(t, "idle")
    /\ UNCHANGED <<key, watching, requestVars, over, clean, garbage, robbed>>

EndpointTimeout(t) ==
    /\ pc[t] = "elock" /\ over[t] /\ Exists("endpoint")
    /\ Goto(t, "leaveAgents")
    /\ UNCHANGED <<key, watching, requestVars, over, clean, garbage, robbed>>

\* The key a thread leaving its body, or retrying the deletion, deletes.
DoneKey(t) == IF op[t] = "all" THEN "agent" ELSE "endpoint"
AfterDelete(t) == IF op[t] = "all" THEN "idle" ELSE "leaveAgents"

\* garbage_key_collection: DEL, tried again while redis cannot be reached; the
\* error leaves open whether redis has executed the command.  When alloctime is
\* over the key is left to the collector of the process.
DeleteKey(t) ==
    /\ pc[t] \in {"inAll", "inBoth", "redelete"}
    /\ LET deleted == [key EXCEPT ![DoneKey(t)] = Absent]
           giveUp == pc[t] = "redelete" /\ over[t]
       IN \/ Write(t, deleted) /\ Goto(t, AfterDelete(t)) /\ UNCHANGED garbage
          \/ /\ Failures
             /\ \E new \in {key, deleted} : Write(t, new)
             /\ Goto(t, IF giveUp THEN AfterDelete(t) ELSE "redelete")
             /\ garbage' = IF giveUp THEN garbage \cup {<<DoneKey(t), Locker[t]>>}
                           ELSE garbage
    /\ over' = [over EXCEPT ![t] = @ /\ pc[t] = "redelete"]
    /\ UNCHANGED <<requestVars, clean, robbed>>

\* garbage_collector_loop and safe_delete: the key is deleted, under WATCH,
\* when it still holds the `locker' string of this process.
CollectGarbage(k, p) ==
    /\ <<k, p>> \in garbage
    /\ garbage' = garbage \ {<<k, p>>}
    /\ key' = IF key[k].owner = p THEN [key EXCEPT ![k] = Absent] ELSE key
    /\ watching' = [u \in Threads |-> {j \in watching[u] : key'[j] = key[j]}]
    /\ UNCHANGED <<pc, requestVars, over, clean, robbed>>

(***************************************************************************)
(* _lock_agents.  The loop reads AGENT_KEY until alloctime is over, whatever *)
(* it finds; a pass that meets no string clears `locked'.  The marks are   *)
(* then added unless AGENT_KEY changes between WATCH and EXEC.             *)
(***************************************************************************)
ScanAgents(t) ==
    /\ pc[t] = "scan" /\ ~ over[t] /\ ~ IsString("agent")
    /\ clean' = [clean EXCEPT ![t] = TRUE]
    /\ UNCHANGED <<key, watching, pc, requestVars, over, garbage, robbed>>

WatchAgents(t) ==
    /\ pc[t] = "scan" /\ over[t]
    /\ IF clean[t]
       THEN Goto(t, "exec") /\ watching' = [watching EXCEPT ![t] = {"agent"}]
       ELSE Goto(t, "idle") /\ UNCHANGED watching
    /\ UNCHANGED <<key, requestVars, over, clean, garbage, robbed>>

\* SADD: refused (WatchError, or WRONGTYPE for a string) the lock has failed.
ExecAgents(t) ==
    /\ pc[t] = "exec"
    /\ LET done == watching[t] = {"agent"} /\ ~ IsString("agent")
       IN /\ Write(t, IF done THEN [key EXCEPT !["agent"] = Added("agent", agents[t])]
                      ELSE key)
          /\ Goto(t, IF ~ done THEN "idle"
                     ELSE IF op[t] = "create" THEN "elock" ELSE "inAgents")
    /\ over' = [over EXCEPT ![t] = FALSE]
    /\ UNCHANGED <<requestVars, clean, garbage, robbed>>

(***************************************************************************)
(* _lock_entitys.  The loop waits for both keys to be free of the marks it *)
(* wants; when alloctime is over it stops waiting and goes on.             *)
(***************************************************************************)
Marked(t) == \E k \in Keys : Members(t, k) \cap key[k].marks # {}
AnyString == \E k \in Keys : IsString(k)

CheckEntitys(t) ==
    /\ pc[t] = "check"
    /\ \/ over[t] \/ ~ (AnyString \/ Marked(t))
    /\ Goto(t, "watch")
    /\ UNCHANGED <<key, watching, requestVars, over, clean, garbage, robbed>>

\* WRONGTYPE at or after the end of alloctime.
EntitysTimeout(t) ==
    /\ pc[t] = "check" /\ over[t] /\ AnyString
    /\ Goto(t, "idle")
    /\ UNCHANGED <<key, watching, requestVars, over, clean, garbage, robbed>>

WatchEntitys(t) ==
    /\ pc[t] = "watch"
    /\ watching' = [watching EXCEPT ![t] = Keys]
    /\ Goto(t, "sadd")
    /\ UNCHANGED <<key, requestVars, over, clean, garbage, robbed>>

\* MULTI SADD SADD EXEC: redis executes both although one meets a string.
ExecEntitys(t) ==
    /\ pc[t] = "sadd"
    /\ LET run == watching[t] = Keys
       IN /\ Write(t, IF run THEN [k \in Keys |-> Added(k, Members(t, k))] ELSE key)
          /\ Goto(t, IF run /\ ~ AnyString THEN "inEntitys"
                     ELSE IF over[t] THEN "idle" ELSE "check")
    /\ UNCHANGED <<requestVars, over, clean, garbage, robbed>>

(***************************************************************************)
(* Leaving: garbage_member_collection, once for each key.                  *)
(***************************************************************************)
\* SREM; when redis stays out of reach for alloctime the marks are left.
ReleaseMembers(t, k, members) ==
    \/ Write(t, [key EXCEPT ![k] = Removed(k, members)])
    \/ Failures /\ Write(t, key)

\* The other holders of a mark that this step of t removes.
Rob(t, k) ==
    LET removed == key[k].marks \ key'[k].marks
    IN robbed' = (robbed \ {<<t, k>>}) \cup
          {<<u, k>> : u \in {v \in Threads \ {t} : /\ HoldsMembers(v, k)
                                                    /\ Members(v, k) \cap removed # {}}}

LeaveAgents(t) ==
    /\ pc[t] \in {"inAgents", "leaveAgents"}
    /\ ReleaseMembers(t, "agent", agents[t])
    /\ Rob(t, "agent")
    /\ Goto(t, "idle")
    /\ UNCHANGED <<requestVars, over, clean, garbage>>

\* The caller that notifies the agent has popped its id from the very set the
\* release is given, so that SREM has no member to remove.
LeaveEntitys(t) ==
    /\ pc[t] = "inEntitys"
    /\ \E popped \in BOOLEAN :
          ReleaseMembers(t, "agent", IF popped THEN {} ELSE agents[t])
    /\ Rob(t, "agent")
    /\ Goto(t, "leaveEntity")
    /\ UNCHANGED <<requestVars, over, clean, garbage>>

LeaveEntity(t) ==
    /\ pc[t] = "leaveEntity"
    /\ ReleaseMembers(t, "endpoint", entity[t])
    /\ Rob(t, "endpoint")
    /\ Goto(t, "idle")
    /\ UNCHANGED <<requestVars, over, clean, garbage>>

\* The process of t dies: whatever t holds in redis stays there.
Crash(t) ==
    /\ Failures /\ pc[t] # "idle"
    /\ Goto(t, "idle")
    /\ watching' = [watching EXCEPT ![t] = {}]
    /\ robbed' = robbed \ ({t} \X Keys)
    /\ UNCHANGED <<key, requestVars, over, clean, garbage>>

Serve(t) ==
    \/ AcquireAll(t) \/ AllTimeout(t) \/ AcquireEndpoint(t) \/ EndpointTimeout(t)
    \/ DeleteKey(t)
    \/ ScanAgents(t) \/ WatchAgents(t) \/ ExecAgents(t)
    \/ CheckEntitys(t) \/ EntitysTimeout(t) \/ WatchEntitys(t) \/ ExecEntitys(t)
    \/ LeaveAgents(t) \/ LeaveEntitys(t) \/ LeaveEntity(t)

Next ==
    \/ \E t \in Threads : Start(t) \/ Overtime(t) \/ Serve(t) \/ Crash(t)
    \/ \E k \in Keys, p \in Processes : CollectGarbage(k, p)

Spec == Init /\ [][Next]_vars

\* Green threads are scheduled, time passes, and the callers' bodies end (an
\* rpc call inside one has a timeout).
Fairness == \A t \in Threads : WF_vars(Overtime(t)) /\ WF_vars(Serve(t))
FairSpec == Spec /\ Fairness

-----------------------------------------------------------------------------
TypeOK ==
    /\ key \in [Keys -> KeyValue]
    /\ watching \in [Threads -> SUBSET Keys]
    /\ pc \in [Threads -> Waiting \cup {"idle", "inAll", "inAgents", "inBoth",
                    "redelete", "leaveAgents", "inEntitys", "leaveEntity"}]
    /\ op \in [Threads -> {"all", "agents", "create", "delete"}]
    /\ agents \in [Threads -> SUBSET Agents]
    /\ entity \in [Threads -> SUBSET Entitys]
    /\ over \in [Threads -> BOOLEAN] /\ clean \in [Threads -> BOOLEAN]
    /\ garbage \subseteq Keys \X Processes
    /\ robbed \subseteq Threads \X Keys

\* The whole agent list, and a whole endpoint, is locked by one thread at a time
\* (SET NX in _lock_all_agents and _lock_endpoint), as long as redis answers.
WholeLockExclusive ==
    \A k \in Keys, t, u \in Threads :
        HoldsWhole(t, k) /\ HoldsWhole(u, k) => t = u

\* Nobody holds the whole of a key while another holds members of it, unless the
\* release of a third thread took the other's marks away: the string and the set
\* exclude one another across _lock_all_agents, _lock_agents, _lock_entitys and
\* _lock_endpoint.
WholeExcludesMembers ==
    \A k \in Keys, t, u \in Threads :
        HoldsWhole(t, k) /\ HoldsMembers(u, k) => <<u, k>> \in robbed

\* While redis answers, every string, and the mark of every agent that has no entity
\* to delete or migrate, belongs to a thread that holds that lock now: nothing is left
\* by a request that ended, with the lock or with AllocLockTimeout.
KeysHaveHolders ==
    /\ \A k \in Keys : IsString(k) => \E t \in Threads : HoldsWhole(t, k)
    /\ \A a \in key["agent"].marks :
          \/ \E t \in Threads : HoldsMembers(t, "agent") /\ a \in agents[t]
          \/ \E e \in Entitys : Home[e] = a

\* Two threads never hold the lock of the same agent: what _lock_agents is for and does not
\* give, since it drops the result of comparing the marks.  No run checks it: it is violated.
AgentLockExclusive ==
    \A t, u \in Threads :
        t # u /\ pc[t] = "inAgents" /\ pc[u] = "inAgents" => agents[t] \cap agents[u] = {}

\* Every request that asks for a lock comes to an end, with the lock or with
\* AllocLockTimeout, whatever marks others have left and even if redis times out.
EveryCallReturns == \A t \in Threads : pc[t] # "idle" ~> pc[t] = "idle"
=============================================================================
