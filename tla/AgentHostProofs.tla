---------------------------- MODULE AgentHostProofs ----------------------------
(***************************************************************************)
(* What the locks of an agent's endpoints give its handlers, and what that *)
(* gives the ports: proved for any threads, endpoints, entities and ports. *)
(* LocksInv is kept by every step of the locks alone; PortsInv by every    *)
(* step of the host, from LocksInv.                                        *)
(***************************************************************************)
EXTENDS AgentHost, TLAPS

\* What a thread's place says of the rest of its call.
PlaceFits ==
    \A t \in Threads :
        /\ place[t] # "idle" => at[t] \in Endpoints
        /\ place[t] \in {"idle", "frozen"} => holds[t] = {}
        /\ place[t] \in {"frozen", "acquire"} => todo[t] # {}
        /\ place[t] = "acquire" => waits[t] \in todo[t]

\* lock() is about one entity: first in todo, then held.
OneEntity ==
    \A t \in Threads : ~ several[t] =>
        /\ place[t] \in {"frozen", "acquire"} =>
              holds[t] = {} /\ \E e \in Entitys : todo[t] = {e}
        /\ place[t] = "body" => \E e \in Entitys : holds[t] = {e}

HoldsDisjoint == \A t, u \in Threads : t # u => holds[t] \cap holds[u] = {}

FreezingIsFrozen == \A t \in Threads : Freezing(t) => frozen[at[t]]

LocksInv ==
    /\ LocksTypeOK /\ PlaceFits /\ OneEntity /\ HoldsDisjoint
    /\ FreezingIsFrozen /\ FrozenByOneLocks

LEMMA LocksInitially == LocksInit => LocksInv
  <1> SUFFICES ASSUME LocksInit PROVE LocksInv
    OBVIOUS
  <1>1. LocksTypeOK /\ PlaceFits /\ HoldsDisjoint
    BY DEF LocksInit, LocksTypeOK, PlaceFits, HoldsDisjoint
  <1>2. OneEntity /\ FreezingIsFrozen /\ FrozenByOneLocks
    BY DEF LocksInit, OneEntity, FreezingIsFrozen, FrozenByOneLocks, Freezing
  <1> QED BY <1>1, <1>2 DEF LocksInv

\* A thread that leaves takes nothing with it.
LEMMA LeaveKeeps ==
  ASSUME LocksInv, NEW t \in Threads, Leave(t), place[t] # "idle",
         \/ UNCHANGED frozen /\ ~ Freezing(t)
         \/ frozen' = [frozen EXCEPT ![at[t]] = @ /\ ~ several[t]] /\ place[t] = "acquire"
  PROVE  LocksInv'
  <1>1. /\ at[t] \in Endpoints /\ several[t] \in BOOLEAN
        /\ frozen \in [Endpoints -> BOOLEAN]
    BY DEF LocksInv, LocksTypeOK, PlaceFits
  <1>2. LocksTypeOK'
    BY <1>1 DEF LocksInv, LocksTypeOK, Leave
  <1>3. PlaceFits' /\ OneEntity' /\ HoldsDisjoint'
    BY <1>1 DEF LocksInv, LocksTypeOK, Leave, PlaceFits, OneEntity, HoldsDisjoint
  <1>4. \A u \in Threads : Freezing(u)' <=> u # t /\ Freezing(u)
    BY DEF LocksInv, LocksTypeOK, Leave, Freezing
  <1>5. \A u \in Threads \ {t} : at'[u] = at[u]
    BY DEF LocksInv, LocksTypeOK, Leave
  <1>6. \A u \in Threads \ {t} : Freezing(u) => frozen'[at[u]]
    <2>1. CASE UNCHANGED frozen /\ ~ Freezing(t)
      BY <2>1 DEF LocksInv, FreezingIsFrozen
    <2>2. CASE frozen' = [frozen EXCEPT ![at[t]] = @ /\ ~ several[t]] /\ place[t] = "acquire"
      <3> SUFFICES ASSUME NEW u \in Threads \ {t}, Freezing(u) PROVE frozen'[at[u]]
        OBVIOUS
      <3>1. frozen[at[u]] /\ at[u] \in Endpoints
        BY DEF LocksInv, FreezingIsFrozen, PlaceFits, Freezing
      <3>2. several[t] => at[u] # at[t]
        BY <2>2 DEF LocksInv, FrozenByOneLocks, Freezing
      <3> QED BY <1>1, <2>2, <3>1, <3>2
    <2> QED BY <2>1, <2>2
  <1>7. FreezingIsFrozen'
    BY <1>4, <1>5, <1>6 DEF FreezingIsFrozen
  <1>8. \A p \in Endpoints : frozen'[p] => frozen[p] /\ ~ (Freezing(t) /\ at[t] = p)
    BY <1>1 DEF Freezing
  <1>9. FrozenByOneLocks'
    BY <1>4, <1>5, <1>8 DEF LocksInv, FrozenByOneLocks, Leave
  <1> QED BY <1>2, <1>3, <1>7, <1>9 DEF LocksInv

LEMMA CallKeeps ==
  ASSUME LocksInv, NEW t \in Threads, CallLock(t)
  PROVE  LocksInv'
  <1>1. LocksTypeOK'
    BY DEF LocksInv, LocksTypeOK, CallLock
  <1>2. PlaceFits' /\ OneEntity' /\ HoldsDisjoint'
    BY DEF LocksInv, LocksTypeOK, CallLock, PlaceFits, OneEntity, HoldsDisjoint
  <1>3. \A u \in Threads : Freezing(u)' <=> Freezing(u)
    BY DEF LocksInv, LocksTypeOK, CallLock, Freezing
  <1>4. \A u \in Threads : Freezing(u) => at'[u] = at[u]
    BY DEF LocksInv, LocksTypeOK, CallLock, Freezing
  <1> QED BY <1>1, <1>2, <1>3, <1>4
          DEF LocksInv, FreezingIsFrozen, FrozenByOneLocks, CallLock

LEMMA BeginKeeps ==
  ASSUME LocksInv, NEW t \in Threads, Begin(t)
  PROVE  LocksInv'
  <1>1. CASE OverMaxLock(t)
    BY <1>1, LeaveKeeps DEF Begin, Freezing
  <1>2. CASE ~ OverMaxLock(t)
    <2>1. /\ place[t] = "frozen" /\ ~ frozen[at[t]]
          /\ place' = [place EXCEPT ![t] = "acquire"]
          /\ frozen' = [frozen EXCEPT ![at[t]] = several[t]]
          /\ UNCHANGED <<ordered, holds, at, several, todo>>
      BY <1>2 DEF Begin, NotFrozen, callVars
    <2>2. PICK e \in todo[t] : waits' = [waits EXCEPT ![t] = e]
      BY <1>2 DEF Begin
    <2>3. at[t] \in Endpoints
      BY <2>1 DEF LocksInv, PlaceFits
    <2>4. LocksTypeOK'
      BY <2>1, <2>2 DEF LocksInv, LocksTypeOK
    <2>5. PlaceFits' /\ OneEntity' /\ HoldsDisjoint'
      BY <2>1, <2>2 DEF LocksInv, LocksTypeOK, PlaceFits, OneEntity, HoldsDisjoint
    <2>6. \A u \in Threads : Freezing(u)' <=> Freezing(u) \/ (u = t /\ several[t])
      BY <2>1 DEF LocksInv, LocksTypeOK, Freezing
    <2>7. \A u \in Threads : Freezing(u) => at[u] # at[t]
      BY <2>1 DEF LocksInv, FreezingIsFrozen
    <2>8. \A p \in Endpoints : frozen'[p] <=> frozen[p] \/ (p = at[t] /\ several[t])
      BY <2>1, <2>3 DEF LocksInv, LocksTypeOK
    <2>9. FreezingIsFrozen'
      BY <2>1, <2>3, <2>6, <2>8 DEF LocksInv, FreezingIsFrozen, PlaceFits, Freezing
    <2>10. FrozenByOneLocks'
      BY <2>1, <2>3, <2>6, <2>7, <2>8 DEF LocksInv, FrozenByOneLocks
    <2> QED BY <2>4, <2>5, <2>9, <2>10 DEF LocksInv
  <1> QED BY <1>1, <1>2

LEMMA AcquireKeeps ==
  ASSUME LocksInv, NEW t \in Threads, Acquire(t)
  PROVE  LocksInv'
  <1>1. /\ place[t] = "acquire" /\ waits[t] \in todo[t] /\ waits[t] \in Entitys
        /\ at[t] \in Endpoints /\ several[t] \in BOOLEAN
        /\ \A u \in Threads : waits[t] \notin holds[u]
        /\ holds' = [holds EXCEPT ![t] = @ \cup {waits[t]}]
        /\ todo' = [todo EXCEPT ![t] = @ \ {waits[t]}]
        /\ UNCHANGED <<ordered, at, several>>
    BY DEF Acquire, LocksInv, LocksTypeOK, PlaceFits, Free, callVars
  <1>2. HoldsDisjoint'
    BY <1>1 DEF LocksInv, LocksTypeOK, HoldsDisjoint
  <1>3. CASE todo'[t] = {}
    <2>1. /\ place' = [place EXCEPT ![t] = "body"]
          /\ waits' = [waits EXCEPT ![t] = None]
          /\ frozen' = [frozen EXCEPT ![at[t]] = @ /\ ~ several[t]]
      BY <1>3 DEF Acquire
    <2>2. LocksTypeOK'
      BY <1>1, <2>1 DEF LocksInv, LocksTypeOK
    <2>3. PlaceFits'
      BY <1>1, <2>1 DEF LocksInv, LocksTypeOK, PlaceFits
    <2>4. OneEntity'
      BY <1>1, <2>1 DEF LocksInv, LocksTypeOK, OneEntity
    <2>5. \A u \in Threads : Freezing(u)' <=> u # t /\ Freezing(u)
      BY <1>1, <2>1 DEF LocksInv, LocksTypeOK, Freezing
    <2>6. \A p \in Endpoints : frozen'[p] <=> frozen[p] /\ ~ (p = at[t] /\ several[t])
      BY <1>1, <2>1 DEF LocksInv, LocksTypeOK
    <2>7. FreezingIsFrozen'
      BY <1>1, <2>5, <2>6
         DEF LocksInv, FreezingIsFrozen, FrozenByOneLocks, PlaceFits, Freezing
    <2>8. FrozenByOneLocks'
      BY <1>1, <2>5, <2>6 DEF LocksInv, FrozenByOneLocks, Freezing
    <2> QED BY <1>2, <2>2, <2>3, <2>4, <2>7, <2>8 DEF LocksInv
  <1>4. CASE todo'[t] # {}
    <2>1. /\ place' = place /\ frozen' = frozen
          /\ \E e \in todo'[t] : waits' = [waits EXCEPT ![t] = e]
      BY <1>4 DEF Acquire
    <2>2. several[t]
      BY <1>1, <1>4 DEF LocksInv, LocksTypeOK, OneEntity
    <2>3. LocksTypeOK' /\ PlaceFits' /\ OneEntity'
      BY <1>1, <1>4, <2>1, <2>2 DEF LocksInv, LocksTypeOK, PlaceFits, OneEntity
    <2>4. FreezingIsFrozen' /\ FrozenByOneLocks'
      BY <1>1, <2>1 DEF LocksInv, FreezingIsFrozen, FrozenByOneLocks, Freezing
    <2> QED BY <1>2, <2>3, <2>4 DEF LocksInv
  <1> QED BY <1>3, <1>4

\* A step of the locks alone keeps their invariant.
LEMMA LocksStep ==
  ASSUME LocksInv,
         \/ \E t \in Threads : CallLock(t) \/ LockStep(t) \/ Release(t)
         \/ FreezeAll
         \/ UNCHANGED locksVars
  PROVE  LocksInv'
  <1>1. CASE UNCHANGED locksVars
    BY <1>1 DEF LocksInv, LocksTypeOK, PlaceFits, OneEntity, HoldsDisjoint,
                FreezingIsFrozen, FrozenByOneLocks, Freezing, locksVars, callVars
  <1>2. CASE FreezeAll
    <2>1. LocksTypeOK' /\ PlaceFits' /\ OneEntity' /\ HoldsDisjoint'
      BY <1>2 DEF FreezeAll, callVars, LocksInv, LocksTypeOK, PlaceFits, OneEntity,
                  HoldsDisjoint
    <2>2. FreezingIsFrozen' /\ FrozenByOneLocks'
      BY <1>2 DEF FreezeAll, callVars, LocksInv, LocksTypeOK, PlaceFits,
                  FreezingIsFrozen, FrozenByOneLocks, Freezing
    <2> QED BY <2>1, <2>2 DEF LocksInv
  <1>3. ASSUME NEW t \in Threads, CallLock(t) \/ LockStep(t) \/ Release(t)
        PROVE  LocksInv'
    <2>1. CASE FrozenTimeout(t) \/ Release(t)
      BY <2>1, LeaveKeeps DEF FrozenTimeout, Release, Freezing
    <2>2. CASE AcquireTimeout(t)
      BY <2>2, LeaveKeeps DEF AcquireTimeout
    <2> QED BY <1>3, <2>1, <2>2, CallKeeps, BeginKeeps, AcquireKeeps DEF LockStep
  <1> QED BY <1>1, <1>2, <1>3

-----------------------------------------------------------------------------
Slots == Endpoints \X Entitys

PortsFit ==
    /\ AP!PortsTypeOK /\ PortInOnePlace
    /\ \A s \in Slots \ entries : alloc[s] = {}

LEMMA TakeKeeps ==
  ASSUME PortsFit, NEW s \in Slots, NEW A, AP!TakePorts(s, A)
  PROVE  /\ PortsFit'
         /\ alloc' = [alloc EXCEPT ![s] = @ \cup A] /\ A \subseteq left
  <1>1. A \subseteq left /\ A \subseteq Ports
    BY DEF AP!TakePorts, PortsFit, AP!PortsTypeOK
  <1>2. AP!PortsTypeOK'
    BY <1>1 DEF AP!TakePorts, PortsFit, AP!PortsTypeOK, Slots
  <1>3. AP!AllocatedPorts' = AP!AllocatedPorts \cup A
    BY DEF AP!TakePorts, PortsFit, AP!PortsTypeOK, AP!AllocatedPorts, Slots
  <1>4. \A u, v \in Slots : u # v => alloc'[u] \cap alloc'[v] = {}
    BY <1>1 DEF AP!TakePorts, PortsFit, AP!PortsTypeOK, PortInOnePlace, AP!PortInOnePlace,
           AP!AllocatedPorts, Slots
  <1>5. PortInOnePlace'
    BY <1>1, <1>3, <1>4 DEF AP!TakePorts, PortsFit, PortInOnePlace, AP!PortInOnePlace, Slots
  <1>6. \A u \in Slots \ entries' : alloc'[u] = {}
    BY <1>1 DEF AP!TakePorts, PortsFit, AP!PortsTypeOK, Slots
  <1> QED BY <1>1, <1>2, <1>5, <1>6 DEF PortsFit, AP!TakePorts

LEMMA FailedTakeKeeps ==
  ASSUME PortsFit, NEW s \in Slots, NEW A, AP!TakePortsFails(s, A)
  PROVE  PortsFit' /\ alloc' = alloc
  <1>1. left' = left /\ alloc' = alloc /\ websockets' = websockets
        /\ entries' = entries \cup {s}
    BY DEF AP!TakePortsFails, AP!GiveBack
  <1> QED BY <1>1 DEF PortsFit, AP!PortsTypeOK, PortInOnePlace, AP!PortInOnePlace,
                      AP!AllocatedPorts, Slots

\* Freeing the ports A of a slot; its entry may go when it holds no other.
LEMMA FreeKeeps ==
  ASSUME PortsFit, NEW s \in Slots, NEW A, A \subseteq alloc[s],
         alloc' = [alloc EXCEPT ![s] = @ \ A], left' = left \cup A,
         websockets' = websockets,
         \/ entries' = entries
         \/ entries' = entries \ {s} /\ alloc[s] = A
  PROVE  PortsFit'
  <1>1. AP!PortsTypeOK'
    BY DEF PortsFit, AP!PortsTypeOK, Slots
  <1>2. AP!AllocatedPorts' = AP!AllocatedPorts \ A
    BY DEF PortsFit, AP!PortsTypeOK, AP!AllocatedPorts, PortInOnePlace, AP!PortInOnePlace,
           Slots
  <1>3. A \subseteq AP!AllocatedPorts
    BY DEF AP!AllocatedPorts, Slots
  <1>4. \A u, v \in Slots : u # v => alloc'[u] \cap alloc'[v] = {}
    BY DEF PortsFit, AP!PortsTypeOK, PortInOnePlace, AP!PortInOnePlace, Slots
  <1>5. PortInOnePlace'
    BY <1>2, <1>3, <1>4 DEF PortsFit, PortInOnePlace, AP!PortInOnePlace, Slots
  <1>6. \A u \in Slots \ entries' : alloc'[u] = {}
    BY DEF PortsFit, AP!PortsTypeOK, Slots
  <1> QED BY <1>1, <1>5, <1>6 DEF PortsFit

\* What free_ports does to the ports of one slot, and with its entry.
LEMMA FreeAndPopIs ==
  ASSUME PortsFit, NEW s \in Slots, NEW A, A \subseteq alloc[s]
  PROVE  /\ AP!FreePorts(A) => /\ alloc' = [alloc EXCEPT ![s] = @ \ A]
                               /\ left' = left \cup A
         /\ AP!FreeAndPop(s, A) /\ alloc[s] = A =>
               /\ alloc' = [alloc EXCEPT ![s] = @ \ A] /\ left' = left \cup A
               /\ entries' = entries \ {s}
  <1>1. A \cap AP!AllocatedPorts = A
    BY DEF AP!AllocatedPorts, Slots
  <1>2. \A u \in Slots : u # s => alloc[u] \ A = alloc[u]
    BY DEF PortsFit, PortInOnePlace, AP!PortInOnePlace, Slots
  <1>3. ASSUME AP!FreePorts(A)
        PROVE  alloc' = [alloc EXCEPT ![s] = @ \ A] /\ left' = left \cup A
    BY <1>1, <1>2, <1>3 DEF AP!FreePorts, PortsFit, AP!PortsTypeOK, Slots
  <1>4. ASSUME AP!FreeAndPop(s, A), alloc[s] = A
        PROVE  /\ alloc' = [alloc EXCEPT ![s] = @ \ A] /\ left' = left \cup A
               /\ entries' = entries \ {s}
    <2>1. /\ left' = left \cup A /\ entries' = entries \ {s}
          /\ alloc' = [u \in Slots |-> IF u = s THEN {} ELSE alloc[u] \ A]
      BY <1>1, <1>4 DEF AP!FreeAndPop, Slots
    <2>2. alloc[s] \ A = {} /\ alloc \in [Slots -> SUBSET Ports]
      BY <1>4 DEF PortsFit, AP!PortsTypeOK, Slots
    <2>3. alloc' = [alloc EXCEPT ![s] = @ \ A]
      BY <1>2, <2>1, <2>2
    <2> QED BY <2>1, <2>3
  <1> QED BY <1>3, <1>4

LEMMA WebsocketsKeep ==
  ASSUME PortsFit, Websockets
  PROVE  PortsFit' /\ alloc' = alloc
  <1>1. PICK p \in Ports : /\ alloc' = alloc /\ entries' = entries
                           /\ \/ /\ p \in left /\ left' = left \ {p}
                                 /\ websockets' = websockets \cup {p}
                              \/ /\ p \in websockets /\ left' = left \cup {p}
                                 /\ websockets' = websockets \ {p}
    BY DEF Websockets, AP!OpenWebsocket, AP!WebsocketEnds, PortsFit, AP!PortsTypeOK
  <1> QED BY <1>1 DEF PortsFit, AP!PortsTypeOK, PortInOnePlace, AP!PortInOnePlace,
                      AP!AllocatedPorts, Slots

LEMMA PlaceholderKeeps ==
  ASSUME PortsFit, NEW s \in Slots, AP!Placeholder(s)
  PROVE  PortsFit' /\ alloc' = alloc
  BY DEF AP!Placeholder, PortsFit, AP!PortsTypeOK, PortInOnePlace, AP!PortInOnePlace,
         AP!AllocatedPorts, Slots

-----------------------------------------------------------------------------
\* A frozen_ports block is in the body of a lock() of one entity.
BlocksFit ==
    /\ taken \in [Threads -> SUBSET Ports] /\ new \in [Threads -> BOOLEAN]
    /\ \A t \in Threads : InBlock(t) => place[t] = "body" /\ ~ several[t]

HostInv == LocksInv /\ PortsFit /\ BlocksFit /\ BlockOwnsItsPorts

\* What a thread in a body knows of itself does not change.
Same(u) ==
    /\ place'[u] = place[u] /\ holds'[u] = holds[u] /\ at'[u] = at[u]
    /\ several'[u] = several[u] /\ taken'[u] = taken[u] /\ new'[u] = new[u]

\* A thread that changes the ports of its slot only leaves the others' blocks alone.
LEMMA OthersBlocksKept ==
  ASSUME HostInv, NEW t \in Threads, NEW e \in Entitys, Works(t, e), NEW X,
         alloc' = [alloc EXCEPT ![Slot(t, e)] = X],
         \A u \in Threads \ {t} : Same(u),
         NEW u \in Threads \ {t}, NEW f \in Entitys, Works(u, f)', InBlock(u)'
  PROVE  /\ place'[u] = "body" /\ ~ several'[u]
         /\ taken'[u] \subseteq alloc'[Slot(u, f)']
         /\ new'[u] => alloc'[Slot(u, f)'] = taken'[u]
  <1>1. Works(u, f) /\ InBlock(u) /\ Same(u)
    BY DEF Works, InBlock, Same
  <1>2. f # e
    BY <1>1 DEF HostInv, LocksInv, HoldsDisjoint, Works
  <1>3. alloc'[Slot(u, f)] = alloc[Slot(u, f)] /\ Slot(u, f)' = Slot(u, f)
    BY <1>1, <1>2 DEF HostInv, PortsFit, AP!PortsTypeOK, LocksInv, PlaceFits, Works, Slot, Same
  <1> QED BY <1>1, <1>3 DEF HostInv, BlocksFit, BlockOwnsItsPorts, Same, InBlock

\* The locks change under other threads, or under one that leaves its body.
LEMMA BlocksKept ==
  ASSUME HostInv, alloc' = alloc,
         \A u \in Threads : taken'[u] = {} \/ Same(u),
         taken' \in [Threads -> SUBSET Ports] /\ new' \in [Threads -> BOOLEAN]
  PROVE  BlocksFit' /\ BlockOwnsItsPorts'
  <1>1. ASSUME NEW u \in Threads, InBlock(u)' PROVE Same(u) /\ InBlock(u)
    BY <1>1 DEF InBlock, Same
  <1>2. BlocksFit'
    BY <1>1 DEF HostInv, BlocksFit, Same
  <1>3. ASSUME NEW u \in Threads, NEW f \in Entitys, Works(u, f)', InBlock(u)'
        PROVE  /\ taken'[u] \subseteq alloc'[Slot(u, f)']
               /\ new'[u] => alloc'[Slot(u, f)'] = taken'[u]
    BY <1>1, <1>3 DEF HostInv, BlockOwnsItsPorts, Works, Slot, Same
  <1> QED BY <1>2, <1>3 DEF BlockOwnsItsPorts

LEMMA LockStepSpares ==
  ASSUME HostInv, NEW t \in Threads, CallLock(t) \/ LockStep(t), UNCHANGED blockVars
  PROVE  \A u \in Threads : taken'[u] = {} \/ Same(u)
  <1> SUFFICES ASSUME NEW u \in Threads, taken[u] # {} PROVE Same(u)
    BY DEF blockVars
  <1>1. place[u] = "body" /\ u # t
    BY DEF HostInv, BlocksFit, InBlock, CallLock, LockStep, Begin, FrozenTimeout,
           Acquire, AcquireTimeout
  <1>2. /\ place'[u] = place[u] /\ holds'[u] = holds[u] /\ at'[u] = at[u]
        /\ several'[u] = several[u]
    <2>1. CASE CallLock(t)
      BY <1>1, <2>1 DEF CallLock, HostInv, LocksInv, LocksTypeOK
    <2>2. CASE Leave(t)
      BY <1>1, <2>2 DEF Leave, HostInv, LocksInv, LocksTypeOK
    <2>3. CASE Begin(t) /\ ~ OverMaxLock(t)
      BY <1>1, <2>3 DEF Begin, callVars, HostInv, LocksInv, LocksTypeOK
    <2>4. CASE Acquire(t)
      BY <1>1, <2>4 DEF Acquire, callVars, HostInv, LocksInv, LocksTypeOK
    <2> QED BY <2>1, <2>2, <2>3, <2>4 DEF LockStep, Begin, FrozenTimeout, AcquireTimeout
  <1> QED BY <1>2 DEF Same, blockVars

LEMMA ReleaseSpares ==
  ASSUME HostInv, NEW t \in Threads, Release(t), LeaveBlock(t) \/ UNCHANGED blockVars
  PROVE  /\ \A u \in Threads \ {t} : Same(u)
         /\ taken' \in [Threads -> SUBSET Ports] /\ new' \in [Threads -> BOOLEAN]
  BY DEF HostInv, LocksInv, LocksTypeOK, BlocksFit, Release, Leave, LeaveBlock, blockVars,
         Same

\* A step on one slot: what is left to show is the own block of the thread that steps.
LEMMA SlotStep ==
  ASSUME HostInv, NEW t \in Threads, NEW e \in Entitys, Works(t, e), NEW X,
         alloc' = [alloc EXCEPT ![Slot(t, e)] = X],
         \A u \in Threads \ {t} : Same(u),
         taken' \in [Threads -> SUBSET Ports] /\ new' \in [Threads -> BOOLEAN],
         taken'[t] # {} =>
            /\ Same(t) \/ UNCHANGED locksVars
            /\ ~ several[t]
            /\ taken'[t] \subseteq X
            /\ new'[t] => X = taken'[t]
  PROVE  BlocksFit' /\ BlockOwnsItsPorts'
  <1>1. ASSUME taken'[t] # {}
        PROVE  place'[t] = "body" /\ ~ several'[t] /\ holds'[t] = {e} /\ at'[t] = at[t]
    <2>1. place[t] = "body" /\ e \in holds[t]
      BY DEF Works
    <2>2. /\ place'[t] = place[t] /\ several'[t] = several[t]
          /\ holds'[t] = holds[t] /\ at'[t] = at[t]
      BY <1>1 DEF Same, locksVars, callVars
    <2>3. holds[t] = {e}
      BY <1>1, <2>1 DEF HostInv, LocksInv, OneEntity
    <2> QED BY <1>1, <2>1, <2>2, <2>3
  <1>2. Slot(t, e) \in Endpoints \X Entitys /\ alloc \in [Endpoints \X Entitys -> SUBSET Ports]
    BY DEF HostInv, LocksInv, PlaceFits, PortsFit, AP!PortsTypeOK, Works, Slot
  <1>3. ASSUME NEW u \in Threads, InBlock(u)'
        PROVE  place'[u] = "body" /\ ~ several'[u]
    <2>1. CASE u = t
      BY <1>1, <1>3, <2>1 DEF InBlock
    <2>2. CASE u # t
      BY <1>3, <2>2 DEF InBlock, Same, HostInv, BlocksFit
    <2> QED BY <2>1, <2>2
  <1>4. BlocksFit'
    BY <1>3 DEF BlocksFit
  <1>5. ASSUME NEW u \in Threads, NEW f \in Entitys, Works(u, f)', InBlock(u)'
        PROVE  /\ taken'[u] \subseteq alloc'[Slot(u, f)']
               /\ new'[u] => alloc'[Slot(u, f)'] = taken'[u]
    <2>1. CASE u = t
      <3>1. f = e /\ Slot(u, f)' = Slot(t, e)
        BY <1>1, <1>5, <2>1 DEF InBlock, Works, Slot
      <3> QED BY <1>2, <1>5, <2>1, <3>1 DEF InBlock
    <2>2. CASE u # t
      BY <1>5, <2>2, OthersBlocksKept
    <2> QED BY <2>1, <2>2
  <1> QED BY <1>4, <1>5 DEF BlockOwnsItsPorts

LEMMA HostInitially == Init => HostInv
  <1> SUFFICES ASSUME Init PROVE HostInv
    OBVIOUS
  <1>1. LocksInv
    BY LocksInitially DEF Init
  <1>2. AP!PortsTypeOK /\ \A s \in Slots \ entries : alloc[s] = {}
    BY DEF Init, AP!PortsInit, AP!PortsTypeOK, Slots
  <1>3. PortInOnePlace
    <2>1. AP!AllocatedPorts \subseteq Ports
      BY DEF Init, AP!PortsInit, AP!AllocatedPorts
    <2> QED BY <2>1 DEF Init, AP!PortsInit, PortInOnePlace, AP!PortInOnePlace
  <1>4. BlocksFit /\ BlockOwnsItsPorts
    BY DEF Init, BlocksFit, BlockOwnsItsPorts, InBlock
  <1> QED BY <1>1, <1>2, <1>3, <1>4 DEF HostInv, PortsFit

LEMMA PortsUnchanged ==
  ASSUME PortsFit, UNCHANGED portsVars
  PROVE  PortsFit' /\ alloc' = alloc
  BY DEF portsVars, PortsFit, AP!PortsTypeOK, PortInOnePlace, AP!PortInOnePlace,
         AP!AllocatedPorts, Slots

\* What a thread works on, when it does.
LEMMA WorkSlot ==
  ASSUME HostInv, NEW t \in Threads, NEW e \in Entitys, Works(t, e)
  PROVE  Slot(t, e) \in Slots
  BY DEF HostInv, LocksInv, PlaceFits, Works, Slot, Slots

\* Steps that leave the ports and the blocks alone, but for a block that ends.
LEMMA LocksOnlyStep ==
  ASSUME HostInv, NEW t \in Threads, Call(t) \/ Lock(t) \/ Finish(t) \/ BlockDone(t)
  PROVE  HostInv'
  <1>1. LocksInv'
    BY LocksStep DEF HostInv, Call, Lock, Finish, BlockDone
  <1>2. PortsFit' /\ alloc' = alloc
    BY PortsUnchanged DEF HostInv, Call, Lock, Finish, BlockDone
  <1>3. BlocksFit' /\ BlockOwnsItsPorts'
    <2>1. CASE Call(t) \/ Lock(t)
      <3>1. (CallLock(t) \/ LockStep(t)) /\ UNCHANGED blockVars
        BY <2>1 DEF Call, Lock
      <3>2. taken' \in [Threads -> SUBSET Ports] /\ new' \in [Threads -> BOOLEAN]
        BY <3>1 DEF HostInv, BlocksFit, blockVars
      <3> QED BY <1>2, <3>1, <3>2, LockStepSpares, BlocksKept
    <2>2. CASE Finish(t) \/ BlockDone(t)
      <3>1. Release(t) /\ (LeaveBlock(t) \/ UNCHANGED blockVars)
        BY <2>2 DEF Finish, BlockDone
      <3>2. taken'[t] = {}
        BY <2>2 DEF Finish, BlockDone, InBlock, LeaveBlock, blockVars, HostInv, BlocksFit
      <3> QED BY <1>2, <3>1, <3>2, ReleaseSpares, BlocksKept
    <2> QED BY <2>1, <2>2
  <1> QED BY <1>1, <1>2, <1>3 DEF HostInv

LEMMA HostIdle ==
  ASSUME HostInv, Freeze \/ Websockets \/ UNCHANGED vars
  PROVE  HostInv'
  <1>1. LocksInv'
    BY LocksStep DEF HostInv, Freeze, Websockets, vars
  <1>2. PortsFit' /\ alloc' = alloc
    BY PortsUnchanged, WebsocketsKeep DEF HostInv, Freeze, Websockets, vars
  <1>3. /\ UNCHANGED blockVars
        /\ UNCHANGED <<place, holds, at, several>>
    BY DEF Freeze, FreezeAll, Websockets, vars, locksVars, callVars
  <1>4. \A u \in Threads : Same(u)
    BY <1>3 DEF Same, blockVars
  <1>5. taken' \in [Threads -> SUBSET Ports] /\ new' \in [Threads -> BOOLEAN]
    BY <1>3 DEF HostInv, BlocksFit, blockVars
  <1> QED BY <1>1, <1>2, <1>4, <1>5, BlocksKept DEF HostInv

LEMMA ReserveStep ==
  ASSUME HostInv, NEW t \in Threads, Reserve(t)
  PROVE  HostInv'
  <1>1. PICK e \in Entitys : Works(t, e) /\ AP!Placeholder(Slot(t, e))
    BY DEF Reserve
  <1>2. PortsFit' /\ alloc' = alloc
    BY <1>1, WorkSlot, PlaceholderKeeps DEF HostInv
  <1>3. LocksInv'
    BY LocksStep DEF HostInv, Reserve
  <1>4. \A u \in Threads : Same(u)
    BY DEF Reserve, Same, locksVars, callVars, blockVars
  <1>5. taken' \in [Threads -> SUBSET Ports] /\ new' \in [Threads -> BOOLEAN]
    BY DEF HostInv, BlocksFit, Reserve, blockVars
  <1> QED BY <1>2, <1>3, <1>4, <1>5, BlocksKept DEF HostInv

LEMMA EnterBlockStep ==
  ASSUME HostInv, NEW t \in Threads, EnterBlock(t)
  PROVE  HostInv'
  <1>1. PICK e \in Entitys, A \in SUBSET left :
           /\ Works(t, e) /\ ~ several[t] /\ AP!TakePorts(Slot(t, e), A)
           /\ taken' = [taken EXCEPT ![t] = A]
           /\ new' = [new EXCEPT ![t] = Slot(t, e) \notin entries]
    BY DEF EnterBlock
  <1>2. /\ PortsFit' /\ A \subseteq left
        /\ alloc' = [alloc EXCEPT ![Slot(t, e)] = @ \cup A]
    BY <1>1, WorkSlot, TakeKeeps DEF HostInv
  <1>3. LocksInv' /\ UNCHANGED locksVars
    BY LocksStep DEF HostInv, EnterBlock
  <1>4. \A u \in Threads \ {t} : Same(u)
    BY <1>1, <1>3 DEF HostInv, BlocksFit, Same, locksVars, callVars
  <1>5. /\ taken' \in [Threads -> SUBSET Ports] /\ new' \in [Threads -> BOOLEAN]
        /\ taken'[t] = A /\ new'[t] = (Slot(t, e) \notin entries)
    BY <1>1 DEF HostInv, BlocksFit, PortsFit, AP!PortsTypeOK
  <1>6. Slot(t, e) \notin entries => alloc[Slot(t, e)] = {}
    BY <1>1, WorkSlot DEF HostInv, PortsFit
  <1>7. BlocksFit' /\ BlockOwnsItsPorts'
    <2> DEFINE X == alloc[Slot(t, e)] \cup A
    <2>1. taken'[t] # {} =>
            /\ Same(t) \/ UNCHANGED locksVars
            /\ ~ several[t]
            /\ taken'[t] \subseteq X
            /\ new'[t] => X = taken'[t]
      BY <1>1, <1>3, <1>5, <1>6
    <2>2. alloc' = [alloc EXCEPT ![Slot(t, e)] = X]
      BY <1>2
    <2> HIDE DEF X
    <2> QED BY <1>1, <1>4, <1>5, <2>1, <2>2, SlotStep
  <1> QED BY <1>2, <1>3, <1>7 DEF HostInv

LEMMA EnterBlockFailsStep ==
  ASSUME HostInv, NEW t \in Threads, EnterBlockFails(t)
  PROVE  HostInv'
  <1>1. PICK e \in Entitys, A \in SUBSET left :
           Works(t, e) /\ AP!TakePortsFails(Slot(t, e), A)
    BY DEF EnterBlockFails
  <1>2. PortsFit' /\ alloc' = alloc
    BY <1>1, WorkSlot, FailedTakeKeeps DEF HostInv
  <1>3. Release(t) /\ UNCHANGED blockVars
    BY DEF EnterBlockFails
  <1>4. LocksInv'
    BY <1>3, LocksStep DEF HostInv
  <1>5. taken'[t] = {}
    BY DEF EnterBlockFails, InBlock, blockVars
  <1> QED BY <1>2, <1>3, <1>4, <1>5, ReleaseSpares, BlocksKept DEF HostInv

LEMMA BlockFailsStep ==
  ASSUME HostInv, NEW t \in Threads, BlockFails(t)
  PROVE  HostInv'
  <1>1. PICK e \in Entitys : Works(t, e) /\ AP!UndoTake(Slot(t, e), taken[t], new[t])
    BY DEF BlockFails
  <1>2. Release(t) /\ LeaveBlock(t) /\ InBlock(t)
    BY DEF BlockFails
  <1> DEFINE s == Slot(t, e)
             A == taken[t]
  <1>3. /\ s \in Slots /\ A \subseteq alloc[s] /\ (new[t] => alloc[s] = A)
        /\ new[t] \in BOOLEAN
    BY <1>1, <1>2, WorkSlot DEF HostInv, BlockOwnsItsPorts, BlocksFit
  <1>4. /\ alloc' = [alloc EXCEPT ![s] = @ \ A] /\ left' = left \cup A
        /\ websockets' = websockets
        /\ entries' = entries \/ (entries' = entries \ {s} /\ alloc[s] = A)
    <2>1. CASE new[t]
      BY <1>1, <1>3, <2>1, FreeAndPopIs DEF HostInv, AP!UndoTake
    <2>2. CASE ~ new[t]
      BY <1>1, <1>3, <2>2, FreeAndPopIs DEF HostInv, AP!UndoTake
    <2> QED BY <1>3, <2>1, <2>2
  <1>5. PortsFit'
    <2> HIDE DEF s, A
    <2> QED BY <1>3, <1>4, FreeKeeps DEF HostInv
  <1>6. LocksInv'
    BY <1>2, LocksStep DEF HostInv
  <1>7. /\ \A u \in Threads \ {t} : Same(u)
        /\ taken' \in [Threads -> SUBSET Ports] /\ new' \in [Threads -> BOOLEAN]
    BY <1>2, ReleaseSpares
  <1>8. taken'[t] = {}
    BY <1>2 DEF LeaveBlock, HostInv, BlocksFit
  <1>9. BlocksFit' /\ BlockOwnsItsPorts'
    BY <1>1, <1>4, <1>7, <1>8, SlotStep
  <1> QED BY <1>5, <1>6, <1>9 DEF HostInv

LEMMA DeleteEntityStep ==
  ASSUME HostInv, NEW t \in Threads, DeleteEntity(t)
  PROVE  HostInv'
  <1>1. PICK e \in Entitys :
           Works(t, e) /\ AP!FreeAndPop(Slot(t, e), alloc[Slot(t, e)])
    BY DEF DeleteEntity
  <1> DEFINE s == Slot(t, e)
  <1>2. s \in Slots
    BY <1>1, WorkSlot
  <1>3. /\ ~ InBlock(t) /\ UNCHANGED blockVars /\ UNCHANGED locksVars
        /\ websockets' = websockets
    BY DEF DeleteEntity
  <1>4. /\ alloc' = [alloc EXCEPT ![s] = @ \ alloc[s]] /\ left' = left \cup alloc[s]
        /\ entries' = entries \ {s}
    BY <1>1, <1>2, FreeAndPopIs DEF HostInv
  <1>5. PortsFit'
    <2> HIDE DEF s
    <2> QED BY <1>2, <1>3, <1>4, FreeKeeps DEF HostInv
  <1>6. LocksInv'
    BY <1>3, LocksStep DEF HostInv
  <1>7. /\ \A u \in Threads \ {t} : Same(u)
        /\ taken' \in [Threads -> SUBSET Ports] /\ new' \in [Threads -> BOOLEAN]
        /\ taken'[t] = {}
    BY <1>3 DEF HostInv, BlocksFit, InBlock, Same, blockVars, locksVars, callVars
  <1>8. BlocksFit' /\ BlockOwnsItsPorts'
    BY <1>1, <1>4, <1>7, SlotStep
  <1> QED BY <1>5, <1>6, <1>8 DEF HostInv

LEMMA HostStep == HostInv /\ [Next]_vars => HostInv'
  <1> SUFFICES ASSUME HostInv, [Next]_vars PROVE HostInv'
    OBVIOUS
  <1>1. CASE Freeze \/ Websockets \/ UNCHANGED vars
    BY <1>1, HostIdle
  <1>2. ASSUME NEW t \in Threads, Handle(t) PROVE HostInv'
    BY <1>2, LocksOnlyStep, ReserveStep, EnterBlockStep, EnterBlockFailsStep,
       BlockFailsStep, DeleteEntityStep DEF Handle
  <1> QED BY <1>1, <1>2 DEF Next

LEMMA HostAlways == Spec => []HostInv
  BY HostInitially, HostStep, PTL DEF Spec

-----------------------------------------------------------------------------
\* The handlers, the locks and the ports are always in a state of the right shape.
THEOREM TypeCorrect == Spec => []TypeOK
  <1>1. HostInv => TypeOK
    BY DEF HostInv, LocksInv, PortsFit, BlocksFit, TypeOK
  <1> QED BY <1>1, HostAlways, PTL

\* `frozen' works as the mutex of locks(), and no way out of locks() forgets it.
THEOREM FrozenByOneLocksHolds == Spec => []FrozenByOneLocks
  <1>1. HostInv => FrozenByOneLocks
    BY DEF HostInv, LocksInv
  <1> QED BY <1>1, HostAlways, PTL

\* No call leaves a semaphore locked behind it: lock() and locks() release what they took
\* on every way out.
THEOREM SemaphoresHaveHoldersHolds == Spec => []SemaphoresHaveHolders
  <1>1. HostInv => SemaphoresHaveHolders
    BY DEF HostInv, LocksInv, LocksTypeOK, PlaceFits, SemaphoresHaveHolders
  <1> QED BY <1>1, HostAlways, PTL

\* No port is lost and none is given twice by frozen_ports, free_ports and readlog.
THEOREM PortInOnePlaceHolds == Spec => []PortInOnePlace
  <1>1. HostInv => PortInOnePlace
    BY DEF HostInv, PortsFit
  <1> QED BY <1>1, HostAlways, PTL

\* The entity's lock keeps other handlers off the ports of a frozen_ports block.
THEOREM BlockOwnsItsPortsHolds == Spec => []BlockOwnsItsPorts
  <1>1. HostInv => BlockOwnsItsPorts
    BY DEF HostInv
  <1> QED BY <1>1, HostAlways, PTL
=============================================================================
