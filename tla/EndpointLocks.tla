----------------------------- MODULE EndpointLocks -----------------------------
(***************************************************************************)
(* The locks of an agent's endpoints: lock() for one entity and locks()    *)
(* for several (RpcAgentEndpointBase).  The semaphores belong to the class *)
(* and are shared by all endpoints of the agent, by entity id; `frozen' is *)
(* an endpoint's own.  It is the mutex of locks(), and the deletion or the *)
(* upgrade of the agent sets it too.  Only locks() ever clears it.         *)
(***************************************************************************)
EXTENDS Naturals, FiniteSets

CONSTANTS
    Threads,    \* green threads that handle rpc messages
    Endpoints,
    Entitys,    \* entity ids
    MaxLock     \* max_lock: how many semaphores may be alive

None == "none"

ASSUME LocksAssumption ==
    /\ MaxLock \in Nat
    /\ None \notin Threads \cup Endpoints \cup Entitys
    /\ IsFiniteSet(Entitys)

VARIABLES
    frozen,    \* endpoint.frozen
    ordered,   \* the agent has frozen its endpoints, to be deleted or upgraded
    holds,     \* the entities whose semaphores each thread has
    place,     \* where each thread is
    at,        \* the endpoint it calls
    several,   \* it has called locks()
    waits,     \* the entity whose semaphore it waits for
    todo       \* the entities it has yet to lock, that one included

callVars == <<at, several>>
locksVars == <<frozen, ordered, holds, place, callVars, waits, todo>>

LocksInit ==
    /\ frozen = [p \in Endpoints |-> FALSE] /\ ordered = FALSE
    /\ holds = [t \in Threads |-> {}]
    /\ place = [t \in Threads |-> "idle"]
    /\ at = [t \in Threads |-> None] /\ several = [t \in Threads |-> FALSE]
    /\ waits = [t \in Threads |-> None]
    /\ todo = [t \in Threads |-> {}]

\* Mutant: a semaphore is taken that another thread has.
Free_Always(e) == TRUE

Free(e) == \A t \in Threads : e \notin holds[t]

\* len(self.semaphores): a semaphore lives while a thread has it or waits for it.
Alive == {e \in Entitys : \E t \in Threads : e \in holds[t] \/ waits[t] = e}

CallLock(t) ==
    /\ place[t] = "idle"
    /\ place' = [place EXCEPT ![t] = "frozen"]
    /\ \E p \in Endpoints : at' = [at EXCEPT ![t] = p]
    /\ \E S \in (SUBSET Entitys) \ {{}}, many \in BOOLEAN :
          /\ many \/ \E e \in Entitys : S = {e}
          /\ several' = [several EXCEPT ![t] = many]
          /\ todo' = [todo EXCEPT ![t] = S]
    /\ UNCHANGED <<frozen, ordered, holds, waits>>

OverMaxLock(t) ==
    IF several[t] THEN Cardinality(todo[t]) + Cardinality(Alive) > MaxLock
                  ELSE Cardinality(Alive) >= MaxLock

\* `raise', or the end of the with: the semaphores are released.
Leave(t) ==
    /\ place' = [place EXCEPT ![t] = "idle"]
    /\ holds' = [holds EXCEPT ![t] = {}]
    /\ waits' = [waits EXCEPT ![t] = None]
    /\ todo' = [todo EXCEPT ![t] = {}]
    /\ at' = [at EXCEPT ![t] = None] /\ several' = [several EXCEPT ![t] = FALSE]
    /\ UNCHANGED ordered

\* Mutant: locks() does not wait for the endpoint.
NotFrozen_Always(p) == TRUE

NotFrozen(p) == ~ frozen[p]

\* The endpoint is not frozen; locks() freezes it, unless there are too many locks.
Begin(t) ==
    /\ place[t] = "frozen" /\ NotFrozen(at[t])
    /\ IF OverMaxLock(t)
       THEN Leave(t) /\ UNCHANGED frozen
       ELSE /\ place' = [place EXCEPT ![t] = "acquire"]
            /\ frozen' = [frozen EXCEPT ![at[t]] = several[t]]
            /\ \E e \in todo[t] : waits' = [waits EXCEPT ![t] = e]
            /\ UNCHANGED <<ordered, holds, callVars, todo>>

\* The endpoint stays frozen until the timeout of the call is over.
FrozenTimeout(t) ==
    /\ place[t] = "frozen" /\ frozen[at[t]]
    /\ Leave(t) /\ UNCHANGED frozen

\* The next semaphore; after the last one locks() thaws the endpoint.
Acquire(t) ==
    /\ place[t] = "acquire" /\ Free(waits[t])
    /\ holds' = [holds EXCEPT ![t] = @ \cup {waits[t]}]
    /\ todo' = [todo EXCEPT ![t] = @ \ {waits[t]}]
    /\ IF todo'[t] = {}
       THEN /\ place' = [place EXCEPT ![t] = "body"]
            /\ waits' = [waits EXCEPT ![t] = None]
            /\ frozen' = [frozen EXCEPT ![at[t]] = @ /\ ~ several[t]]
       ELSE /\ \E e \in todo'[t] : waits' = [waits EXCEPT ![t] = e]
            /\ UNCHANGED <<place, frozen>>
    /\ UNCHANGED <<ordered, callVars>>

\* The semaphore is not given in time, or earlier ones have used up the time of locks().
TimeIsUp(t) == ~ Free(waits[t]) \/ (several[t] /\ holds[t] # {})

\* Mutant: the semaphores locks() has so far are kept.
AcquireTimeout_KeepsLocks(t) ==
    /\ place[t] = "acquire" /\ TimeIsUp(t)
    /\ place' = [place EXCEPT ![t] = "idle"]
    /\ frozen' = [frozen EXCEPT ![at[t]] = @ /\ ~ several[t]]
    /\ waits' = [waits EXCEPT ![t] = None]
    /\ todo' = [todo EXCEPT ![t] = {}]
    /\ at' = [at EXCEPT ![t] = None] /\ several' = [several EXCEPT ![t] = FALSE]
    /\ UNCHANGED <<ordered, holds>>

AcquireTimeout(t) ==
    /\ place[t] = "acquire" /\ TimeIsUp(t)
    /\ Leave(t)
    /\ frozen' = [frozen EXCEPT ![at[t]] = @ /\ ~ several[t]]

\* The body of the with has ended, normally or by an exception.
Release(t) ==
    /\ place[t] = "body"
    /\ Leave(t) /\ UNCHANGED frozen

\* rpc_delete_agent_precommit, rpc_upgrade_agent.
FreezeAll ==
    /\ frozen' = [p \in Endpoints |-> TRUE] /\ ordered' = TRUE
    /\ UNCHANGED <<holds, place, callVars, waits, todo>>

LockStep(t) == Begin(t) \/ FrozenTimeout(t) \/ Acquire(t) \/ AcquireTimeout(t)

-----------------------------------------------------------------------------
LocksTypeOK ==
    /\ frozen \in [Endpoints -> BOOLEAN] /\ ordered \in BOOLEAN
    /\ holds \in [Threads -> SUBSET Entitys]
    /\ place \in [Threads -> {"idle", "frozen", "acquire", "body"}]
    /\ at \in [Threads -> Endpoints \cup {None}] /\ several \in [Threads -> BOOLEAN]
    /\ waits \in [Threads -> Entitys \cup {None}]
    /\ todo \in [Threads -> SUBSET Entitys]

Freezing(t) == place[t] = "acquire" /\ several[t]

\* An endpoint is in one locks() at a time: `frozen' is its mutex, although others
\* set it too and a timeout clears it.  While the agent itself has not frozen the
\* endpoint, it is frozen only while a locks() is on its way: every way out thaws it.
FrozenByOneLocks ==
    /\ \A t, u \in Threads : Freezing(t) /\ Freezing(u) /\ at[t] = at[u] => t = u
    /\ ~ ordered => \A p \in Endpoints :
          frozen[p] => \E t \in Threads : Freezing(t) /\ at[t] = p

\* A thread that has a semaphore works under it or is on the way to: a call that failed
\* half way through its entities has released what it had.
SemaphoresHaveHolders ==
    \A t \in Threads : holds[t] # {} => place[t] \in {"acquire", "body"}
=============================================================================
