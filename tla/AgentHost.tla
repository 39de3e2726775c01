------------------------------- MODULE AgentHost -------------------------------
(***************************************************************************)
(* An agent's handlers at work: a thread takes the lock of an entity       *)
(* (EndpointLocks) and works on the entity and its ports (AgentPorts).     *)
(* The handlers themselves are plugins; they use lock(), locks(),          *)
(* frozen_ports(), free_ports() and _placeholder() as the base class       *)
(* offers them, and drop an entity's entry when they delete it.            *)
(***************************************************************************)
EXTENDS EndpointLocks

CONSTANTS Ports, MaxWebsockets

VARIABLES
    left, entries, alloc, websockets,
    taken,    \* the ports of the frozen_ports block a thread is in
    new       \* is_new: that block has made the entry

AP == INSTANCE AgentPorts WITH Slots <- Endpoints \X Entitys

portsVars == <<left, entries, alloc, websockets>>
blockVars == <<taken, new>>
vars == <<locksVars, portsVars, blockVars>>

ASSUME HostAssumption == AP!PortsAssumption

Init ==
    /\ LocksInit /\ AP!PortsInit
    /\ taken = [t \in Threads |-> {}]
    /\ new = [t \in Threads |-> FALSE]

\* A thread in the body of lock() or locks() works on an entity it has locked.
\* Mutant: entity and endpoint confused.
Slot_Swapped(t, e) == <<e, at[t]>>

Slot(t, e) == <<at[t], e>>

Works(t, e) == place[t] = "body" /\ e \in holds[t]
InBlock(t) == taken[t] # {}

\* The lock's part of an action that does not touch it.
Lock(t) == LockStep(t) /\ UNCHANGED <<portsVars, blockVars>>
Call(t) == CallLock(t) /\ UNCHANGED <<portsVars, blockVars>>
Freeze == FreezeAll /\ UNCHANGED <<portsVars, blockVars>>

\* The handler ends without touching the ports.
Finish(t) == ~ InBlock(t) /\ Release(t) /\ UNCHANGED <<portsVars, blockVars>>

Reserve(t) ==
    /\ ~ InBlock(t)
    /\ \E e \in Entitys : Works(t, e) /\ AP!Placeholder(Slot(t, e))
    /\ UNCHANGED <<locksVars, blockVars>>

EnterBlock(t) ==
    /\ ~ InBlock(t)
    /\ \E e \in Entitys, A \in SUBSET left :
          /\ Works(t, e) /\ ~ several[t]
          /\ AP!TakePorts(Slot(t, e), A)
          /\ taken' = [taken EXCEPT ![t] = A]
          /\ new' = [new EXCEPT ![t] = Slot(t, e) \notin entries]
    /\ UNCHANGED locksVars

\* Not enough ports: the handler ends with the error.
EnterBlockFails(t) ==
    /\ ~ InBlock(t)
    /\ \E e \in Entitys, A \in SUBSET left :
          Works(t, e) /\ ~ several[t] /\ AP!TakePortsFails(Slot(t, e), A)
    /\ Release(t)
    /\ UNCHANGED blockVars

LeaveBlock(t) ==
    /\ taken' = [taken EXCEPT ![t] = {}]
    /\ new' = [new EXCEPT ![t] = FALSE]

\* The work under frozen_ports is done; the ports stay the entity's.
BlockDone(t) ==
    /\ InBlock(t)
    /\ Release(t) /\ LeaveBlock(t)
    /\ UNCHANGED portsVars

\* It raised.
BlockFails(t) ==
    /\ InBlock(t)
    /\ \E e \in Entitys : Works(t, e) /\ AP!UndoTake(Slot(t, e), taken[t], new[t])
    /\ Release(t) /\ LeaveBlock(t)

\* The entity is deleted: its ports are freed and its entry goes.
DeleteEntity(t) ==
    /\ ~ InBlock(t)
    /\ \E e \in Entitys :
          /\ Works(t, e) /\ Slot(t, e) \in entries
          /\ AP!FreeAndPop(Slot(t, e), alloc[Slot(t, e)])
    /\ UNCHANGED <<websockets, locksVars, blockVars>>

Websockets ==
    /\ AP!OpenWebsocket \/ \E p \in Ports : AP!WebsocketEnds(p)
    /\ UNCHANGED <<locksVars, blockVars>>

Handle(t) ==
    \/ Call(t) \/ Lock(t) \/ Finish(t)
    \/ Reserve(t) \/ EnterBlock(t) \/ EnterBlockFails(t) \/ BlockDone(t) \/ BlockFails(t)
    \/ DeleteEntity(t)

Next == (\E t \in Threads : Handle(t)) \/ Freeze \/ Websockets

Spec == Init /\ [][Next]_vars

-----------------------------------------------------------------------------
TypeOK ==
    /\ LocksTypeOK /\ AP!PortsTypeOK
    /\ taken \in [Threads -> SUBSET Ports] /\ new \in [Threads -> BOOLEAN]

PortInOnePlace == AP!PortInOnePlace

\* While a handler works with ports it took, they are its entity's alone and no other
\* thread frees them; an entry it has made holds nothing else, so that its removal
\* after an error loses no port.  This is what the entity's lock is for.
BlockOwnsItsPorts ==
    \A t \in Threads, e \in Entitys : Works(t, e) /\ InBlock(t) =>
        /\ taken[t] \subseteq alloc[Slot(t, e)]
        /\ new[t] => alloc[Slot(t, e)] = taken[t]
=============================================================================
