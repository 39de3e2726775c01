------------------------------ MODULE AgentPorts ------------------------------
(***************************************************************************)
(* The ports of an agent (RpcAgentManager): those left, those allocated to *)
(* entities, and those its websocket readers listen on.  A slot is an      *)
(* endpoint's entity, a key of allocked_ports.  The actions here are the   *)
(* manager's; who calls them, and under which lock, is AgentHost's matter. *)
(***************************************************************************)
EXTENDS Naturals, FiniteSets

CONSTANTS
    Slots,          \* <<endpoint, entity>>
    Ports,          \* ports_range
    MaxWebsockets

\* What AgentHost assumes of them.
PortsAssumption ==
    /\ Ports \subseteq Nat /\ IsFiniteSet(Ports)
    /\ MaxWebsockets \in Nat

VARIABLES
    left,         \* left_ports
    entries,      \* the slots allocked_ports has
    alloc,        \* the ports of each
    websockets    \* the ports of running websocket readers

portsVars == <<left, entries, alloc, websockets>>

AllocatedPorts == UNION {alloc[s] : s \in Slots}

\* post_start: what agent_show returns is loaded.  (port, agent) is the primary key
\* of the allocated ports; a port out of range is an error that ends the start.
PortsInit ==
    /\ entries \in SUBSET Slots
    /\ alloc \in [Slots -> SUBSET Ports]
    /\ \A s \in Slots \ entries : alloc[s] = {}
    /\ \A s, u \in Slots : s # u => alloc[s] \cap alloc[u] = {}
    /\ left = Ports \ AllocatedPorts
    /\ websockets = {}

\* _placeholder: an entry without ports.
Placeholder(s) ==
    /\ s \notin entries
    /\ entries' = entries \cup {s}
    /\ UNCHANGED <<left, alloc, websockets>>

\* Entering frozen_ports: the ports asked for, by number or any, are taken.
TakePorts(s, A) ==
    /\ A # {} /\ A \subseteq left
    /\ left' = left \ A
    /\ alloc' = [alloc EXCEPT ![s] = @ \cup A]
    /\ entries' = entries \cup {s}
    /\ UNCHANGED websockets

\* Mutant: the ports taken so far are not given back.
GiveBack_Nothing(free, A) == free

GiveBack(free, A) == free \cup A

\* A port is not left (KeyError): the ones taken before it are given back.  The error
\* is raised outside the `try' of frozen_ports, and the slot keeps its entry.
TakePortsFails(s, A) ==
    /\ A \subseteq left
    /\ left' = GiveBack(left \ A, A)
    /\ entries' = entries \cup {s}
    /\ UNCHANGED <<alloc, websockets>>

\* free_ports, by number, whoever has them.
FreePorts(A) ==
    /\ alloc' = [s \in Slots |-> alloc[s] \ A]
    /\ left' = left \cup (A \cap AllocatedPorts)

\* free_ports, then the entry is popped with whatever it holds.
FreeAndPop(s, A) ==
    /\ left' = left \cup (A \cap AllocatedPorts)
    /\ alloc' = [u \in Slots |-> IF u = s THEN {} ELSE alloc[u] \ A]
    /\ entries' = entries \ {s}

\* The body of frozen_ports raised: a new entry is removed.
UndoTake(s, A, new) ==
    /\ IF new THEN FreeAndPop(s, A) ELSE FreePorts(A) /\ UNCHANGED entries
    /\ UNCHANGED websockets

\* readlog: the highest port, for a reader that is started; a start that fails gives
\* the port back at once.
OpenWebsocket ==
    /\ Cardinality(websockets) < MaxWebsockets
    /\ \E p \in left :
          /\ \A q \in left : q <= p
          /\ left' = left \ {p} /\ websockets' = websockets \cup {p}
    /\ UNCHANGED <<entries, alloc>>

\* _wait: the reader has ended, by itself or killed by the timer.
WebsocketEnds(p) ==
    /\ p \in websockets
    /\ websockets' = websockets \ {p} /\ left' = left \cup {p}
    /\ UNCHANGED <<entries, alloc>>

-----------------------------------------------------------------------------
PortsTypeOK ==
    /\ left \subseteq Ports /\ websockets \subseteq Ports
    /\ entries \subseteq Slots /\ alloc \in [Slots -> SUBSET Ports]

\* Every port is in one place: left, with one entity, or under one websocket reader.
\* None is lost and none is given to two, through failed allocations, failed work and
\* the removal of entries.
PortInOnePlace ==
    /\ Ports = left \cup AllocatedPorts \cup websockets
    /\ left \cap websockets = {} /\ (left \cup websockets) \cap AllocatedPorts = {}
    /\ \A s, u \in Slots : s # u => alloc[s] \cap alloc[u] = {}
=============================================================================
