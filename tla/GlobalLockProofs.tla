-------------------------- MODULE GlobalLockProofs --------------------------
(***************************************************************************)
(* Mutual exclusion of the global locks for any threads, agents, entities  *)
(* and requests, while redis answers.                                      *)
(***************************************************************************)
EXTENDS GlobalLock, TLAPS

\* Where a thread is says which request it serves.
OpOfPlace ==
    \A t \in Threads :
        /\ pc[t] \in {"setnx", "inAll"} => op[t] = "all"
        /\ pc[t] \in {"elock", "inBoth", "leaveAgents"} => op[t] = "create"

\* A thread that asks for members of a key asks for at least one.
SomethingToLock ==
    \A t \in Threads :
        /\ pc[t] \in {"scan", "exec", "elock", "inAgents", "inBoth", "leaveAgents",
                      "check", "watch", "sadd", "inEntitys"} => agents[t] # {}
        /\ pc[t] \in {"check", "watch", "sadd", "inEntitys", "leaveEntity"} => entity[t] # {}

\* Redis answers: no deletion is retried or left to the collector.
RedisAnswers == garbage = {} /\ \A t \in Threads : pc[t] # "redelete"

WholeIsString == \A k \in Keys, t \in Threads : HoldsWhole(t, k) => IsString(k)
StringHasNoMarks == \A k \in Keys : IsString(k) => key[k].marks = {}

\* The marks of a holder are in the set unless another's release removed them.
MarksKept ==
    \A k \in Keys, t \in Threads :
        HoldsMembers(t, k) => <<t, k>> \in robbed \/ Members(t, k) \subseteq key[k].marks

LockInv ==
    /\ TypeOK /\ OpOfPlace /\ SomethingToLock /\ RedisAnswers
    /\ WholeIsString /\ WholeLockExclusive /\ StringHasNoMarks /\ MarksKept

-----------------------------------------------------------------------------
LEMMA InitType == Init => TypeOK
  BY ThreadsAssumption DEF Init, TypeOK, Keys, KeyValue, Absent, Waiting

\* The shared pieces of the actions keep the types.
LEMMA WriteType ==
    ASSUME TypeOK, NEW t \in Threads, NEW new \in [Keys -> KeyValue], Write(t, new)
    PROVE  key' \in [Keys -> KeyValue] /\ watching' \in [Threads -> SUBSET Keys]
  BY DEF Write, TypeOK

LEMMA SetNXType ==
    ASSUME TypeOK, NEW t \in Threads, NEW k \in Keys, SetNX(t, k)
    PROVE  key' \in [Keys -> KeyValue] /\ watching' \in [Threads -> SUBSET Keys]
  <1>1. Locker[t] \in Processes
    BY ThreadsAssumption
  <1>2. [key EXCEPT ![k].owner = Locker[t]] \in [Keys -> KeyValue]
    BY <1>1 DEF TypeOK, KeyValue
  <1> QED BY <1>2, WriteType DEF SetNX

LEMMA MembersType ==
    ASSUME TypeOK, NEW k \in Keys, NEW members \in SUBSET (Agents \cup Entitys)
    PROVE  Added(k, members) \in KeyValue /\ Removed(k, members) \in KeyValue
  BY DEF TypeOK, Added, Removed, KeyValue

LEMMA ReleaseType ==
    ASSUME TypeOK, NEW t \in Threads, NEW k \in Keys,
           NEW members \in SUBSET (Agents \cup Entitys), ReleaseMembers(t, k, members)
    PROVE  key' \in [Keys -> KeyValue] /\ watching' \in [Threads -> SUBSET Keys]
  <1>1. [key EXCEPT ![k] = Removed(k, members)] \in [Keys -> KeyValue]
    BY MembersType DEF TypeOK
  <1>2. key \in [Keys -> KeyValue]
    BY DEF TypeOK
  <1> QED BY <1>1, <1>2, WriteType DEF ReleaseMembers

LEMMA RobType ==
    ASSUME TypeOK, NEW t \in Threads, NEW k \in Keys, Rob(t, k)
    PROVE  robbed' \subseteq Threads \X Keys
  BY DEF TypeOK, Rob

LEMMA AbsentType ==
    ASSUME TypeOK, NEW k \in Keys
    PROVE  [key EXCEPT ![k] = Absent] \in [Keys -> KeyValue]
  BY DEF TypeOK, Absent, KeyValue

LEMMA DoneKeyType == \A t \in Threads : DoneKey(t) \in Keys
  BY DEF DoneKey, Keys

LEMMA NextType == TypeOK /\ [Next]_vars => TypeOK'
  <1> SUFFICES ASSUME TypeOK, [Next]_vars PROVE TypeOK'
    OBVIOUS
  <1> USE DEF requestVars, Goto
  <1>k. "agent" \in Keys /\ "endpoint" \in Keys
    BY DEF Keys
  <1>1. ASSUME NEW t \in Threads, Start(t) PROVE TypeOK'
    <2>1. PICK o \in Operations, A \in (SUBSET Agents) \ {{}}, e \in Entitys :
             /\ op' = [op EXCEPT ![t] = o]
             /\ agents' = [agents EXCEPT ![t] = IF o = "all" THEN {} ELSE A]
             /\ entity' = [entity EXCEPT ![t] = IF o = "delete" THEN {e} ELSE {}]
             /\ pc' = [pc EXCEPT ![t] = CASE o = "all" -> "setnx"
                                          [] o = "delete" -> "check" [] OTHER -> "scan"]
      BY <1>1 DEF Start
    <2>2. o \in {"all", "agents", "create", "delete"}
      BY ThreadsAssumption
    <2>3. /\ key' = key /\ watching' = watching /\ garbage' = garbage /\ robbed' = robbed
          /\ over' = [over EXCEPT ![t] = FALSE] /\ clean' = [clean EXCEPT ![t] = FALSE]
      BY <1>1 DEF Start
    <2> QED BY <2>1, <2>2, <2>3 DEF TypeOK, Waiting
  <1>2. ASSUME NEW t \in Threads, Overtime(t) PROVE TypeOK'
    BY <1>2 DEF Overtime, TypeOK
  <1>3. ASSUME NEW t \in Threads, AcquireAll(t) PROVE TypeOK'
    BY <1>3, <1>k, SetNXType DEF AcquireAll, TypeOK, Waiting
  <1>4. ASSUME NEW t \in Threads, AllTimeout(t) PROVE TypeOK'
    BY <1>4 DEF AllTimeout, TypeOK, Waiting
  <1>5. ASSUME NEW t \in Threads, AcquireEndpoint(t) PROVE TypeOK'
    BY <1>5, <1>k, SetNXType DEF AcquireEndpoint, TypeOK, Waiting
  <1>6. ASSUME NEW t \in Threads, EndpointTimeout(t) PROVE TypeOK'
    BY <1>6 DEF EndpointTimeout, TypeOK, Waiting
  <1>7. ASSUME NEW t \in Threads, DeleteKey(t) PROVE TypeOK'
    <2> DEFINE deleted == [key EXCEPT ![DoneKey(t)] = Absent]
    <2>1. deleted \in [Keys -> KeyValue] /\ key \in [Keys -> KeyValue]
      BY AbsentType, DoneKeyType DEF TypeOK
    <2>2. \E new \in {key, deleted} : Write(t, new)
      BY <1>7 DEF DeleteKey
    <2>3. key' \in [Keys -> KeyValue] /\ watching' \in [Threads -> SUBSET Keys]
      BY <2>1, <2>2, WriteType
    <2>4. \E place \in {"redelete", "idle", "leaveAgents"} : pc' = [pc EXCEPT ![t] = place]
      BY <1>7 DEF DeleteKey, AfterDelete
    <2>5. pc' \in [Threads -> Waiting \cup {"idle", "inAll", "inAgents", "inBoth",
                      "redelete", "leaveAgents", "inEntitys", "leaveEntity"}]
      BY <2>4 DEF TypeOK
    <2>6. <<DoneKey(t), Locker[t]>> \in Keys \X Processes
      BY DoneKeyType, ThreadsAssumption
    <2>7. garbage' \subseteq Keys \X Processes
      BY <1>7, <2>6 DEF DeleteKey, TypeOK
    <2>8. over' \in [Threads -> BOOLEAN]
      BY <1>7 DEF DeleteKey, TypeOK
    <2>9. UNCHANGED <<op, agents, entity, clean, robbed>>
      BY <1>7 DEF DeleteKey
    <2> QED BY <2>3, <2>5, <2>7, <2>8, <2>9 DEF TypeOK
  <1>8. ASSUME NEW t \in Threads, ScanAgents(t) PROVE TypeOK'
    BY <1>8 DEF ScanAgents, TypeOK
  <1>9. ASSUME NEW t \in Threads, WatchAgents(t) PROVE TypeOK'
    BY <1>9, <1>k DEF WatchAgents, TypeOK, Waiting
  <1>10. ASSUME NEW t \in Threads, ExecAgents(t) PROVE TypeOK'
    <2>1. agents[t] \in SUBSET (Agents \cup Entitys)
      BY DEF TypeOK
    <2>2. [key EXCEPT !["agent"] = Added("agent", agents[t])] \in [Keys -> KeyValue]
      BY <2>1, <1>k, MembersType DEF TypeOK
    <2>3. \E new \in [Keys -> KeyValue] : Write(t, new)
      BY <1>10, <2>2 DEF ExecAgents, TypeOK
    <2>4. key' \in [Keys -> KeyValue] /\ watching' \in [Threads -> SUBSET Keys]
      BY <2>3, WriteType
    <2>5. \E place \in {"idle", "elock", "inAgents"} : pc' = [pc EXCEPT ![t] = place]
      BY <1>10 DEF ExecAgents
    <2> QED BY <1>10, <2>4, <2>5 DEF ExecAgents, TypeOK, Waiting
  <1>11. ASSUME NEW t \in Threads, CheckEntitys(t) PROVE TypeOK'
    BY <1>11 DEF CheckEntitys, TypeOK, Waiting
  <1>12. ASSUME NEW t \in Threads, EntitysTimeout(t) PROVE TypeOK'
    BY <1>12 DEF EntitysTimeout, TypeOK, Waiting
  <1>13. ASSUME NEW t \in Threads, WatchEntitys(t) PROVE TypeOK'
    BY <1>13 DEF WatchEntitys, TypeOK, Waiting
  <1>14. ASSUME NEW t \in Threads, ExecEntitys(t) PROVE TypeOK'
    <2>1. \A k \in Keys : Members(t, k) \in SUBSET (Agents \cup Entitys)
      BY DEF TypeOK, Members
    <2>2. [k \in Keys |-> Added(k, Members(t, k))] \in [Keys -> KeyValue]
      BY <2>1, MembersType
    <2>3. \E new \in [Keys -> KeyValue] : Write(t, new)
      BY <1>14, <2>2 DEF ExecEntitys, TypeOK
    <2>4. key' \in [Keys -> KeyValue] /\ watching' \in [Threads -> SUBSET Keys]
      BY <2>3, WriteType
    <2>5. \E place \in {"idle", "check", "inEntitys"} : pc' = [pc EXCEPT ![t] = place]
      BY <1>14 DEF ExecEntitys
    <2> QED BY <1>14, <2>4, <2>5 DEF ExecEntitys, TypeOK, Waiting
  <1>15. ASSUME NEW t \in Threads, LeaveAgents(t) PROVE TypeOK'
    <2>1. agents[t] \in SUBSET (Agents \cup Entitys)
      BY DEF TypeOK
    <2>2. key' \in [Keys -> KeyValue] /\ watching' \in [Threads -> SUBSET Keys]
      BY <1>15, <1>k, <2>1, ReleaseType DEF LeaveAgents
    <2>3. robbed' \subseteq Threads \X Keys
      BY <1>15, <1>k, RobType DEF LeaveAgents
    <2> QED BY <1>15, <2>2, <2>3 DEF LeaveAgents, TypeOK, Waiting
  <1>16. ASSUME NEW t \in Threads, LeaveEntitys(t) PROVE TypeOK'
    <2>1. PICK members \in {{}, agents[t]} : ReleaseMembers(t, "agent", members)
      BY <1>16 DEF LeaveEntitys
    <2>2. members \in SUBSET (Agents \cup Entitys)
      BY DEF TypeOK
    <2>3. key' \in [Keys -> KeyValue] /\ watching' \in [Threads -> SUBSET Keys]
      BY <1>k, <2>1, <2>2, ReleaseType
    <2>4. robbed' \subseteq Threads \X Keys
      BY <1>16, <1>k, RobType DEF LeaveEntitys
    <2> QED BY <1>16, <2>3, <2>4 DEF LeaveEntitys, TypeOK, Waiting
  <1>17. ASSUME NEW t \in Threads, LeaveEntity(t) PROVE TypeOK'
    <2>1. entity[t] \in SUBSET (Agents \cup Entitys)
      BY DEF TypeOK
    <2>2. key' \in [Keys -> KeyValue] /\ watching' \in [Threads -> SUBSET Keys]
      BY <1>17, <1>k, <2>1, ReleaseType DEF LeaveEntity
    <2>3. robbed' \subseteq Threads \X Keys
      BY <1>17, <1>k, RobType DEF LeaveEntity
    <2> QED BY <1>17, <2>2, <2>3 DEF LeaveEntity, TypeOK, Waiting
  <1>18. ASSUME NEW t \in Threads, Crash(t) PROVE TypeOK'
    BY <1>18 DEF Crash, TypeOK, Waiting
  <1>19. ASSUME NEW k \in Keys, NEW p \in Processes, CollectGarbage(k, p) PROVE TypeOK'
    <2>1. key' \in [Keys -> KeyValue]
      BY <1>19, AbsentType DEF CollectGarbage, TypeOK
    <2> QED BY <1>19, <2>1 DEF CollectGarbage, TypeOK
  <1>20. CASE UNCHANGED vars
    BY <1>20 DEF TypeOK, vars
  <1> QED BY <1>1, <1>2, <1>3, <1>4, <1>5, <1>6, <1>7, <1>8, <1>9, <1>10, <1>11, <1>12,
             <1>13, <1>14, <1>15, <1>16, <1>17, <1>18, <1>19, <1>20 DEF Next, Serve

\* The variables of the lock model keep their types.
THEOREM TypeCorrect == Spec => []TypeOK
  BY InitType, NextType, PTL DEF Spec

-----------------------------------------------------------------------------
\* The rest of LockInv: what is said of pc, op and the targets, and what is said
\* of the keys.
PlacesInv == OpOfPlace /\ SomethingToLock /\ RedisAnswers
KeysInv == WholeIsString /\ WholeLockExclusive /\ StringHasNoMarks /\ MarksKept

LEMMA InitInv == Init => LockInv
  <1> SUFFICES ASSUME Init PROVE LockInv
    OBVIOUS
  <1>1. \A k \in Keys : ~ IsString(k)
    BY DEF Init, IsString, Absent
  <1>2. \A k \in Keys, t \in Threads : ~ HoldsWhole(t, k) /\ ~ HoldsMembers(t, k)
    BY DEF Init, HoldsWhole, HoldsMembers
  <1>3. OpOfPlace /\ SomethingToLock /\ RedisAnswers
    BY DEF Init, OpOfPlace, SomethingToLock, RedisAnswers
  <1> QED BY <1>1, <1>2, <1>3, InitType
          DEF LockInv, WholeIsString, WholeLockExclusive, StringHasNoMarks, MarksKept

LEMMA PlacesStep == ~ Failures /\ LockInv /\ Next => PlacesInv'
  <1> SUFFICES ASSUME ~ Failures, LockInv, Next PROVE PlacesInv'
    OBVIOUS
  <1>a. TypeOK /\ PlacesInv
    BY DEF LockInv, PlacesInv
  <1> USE <1>a DEF PlacesInv, OpOfPlace, SomethingToLock, RedisAnswers, Goto, requestVars
  <1>1. ASSUME NEW t \in Threads, Start(t) PROVE PlacesInv'
    <2>1. PICK o \in Operations, A \in (SUBSET Agents) \ {{}}, e \in Entitys :
             /\ o \in {"all", "delete"} => A = {Home[e]}
             /\ op' = [op EXCEPT ![t] = o]
             /\ agents' = [agents EXCEPT ![t] = IF o = "all" THEN {} ELSE A]
             /\ entity' = [entity EXCEPT ![t] = IF o = "delete" THEN {e} ELSE {}]
             /\ pc' = [pc EXCEPT ![t] = CASE o = "all" -> "setnx"
                                          [] o = "delete" -> "check" [] OTHER -> "scan"]
      BY <1>1 DEF Start
    <2>2. garbage' = garbage
      BY <1>1 DEF Start
    <2>3. CASE o = "all"
      BY <2>1, <2>2, <2>3 DEF TypeOK
    <2>4. CASE o = "delete"
      BY <2>1, <2>2, <2>4 DEF TypeOK
    <2>5. CASE o \notin {"all", "delete"}
      <3>1. /\ pc' = [pc EXCEPT ![t] = "scan"] /\ agents' = [agents EXCEPT ![t] = A]
            /\ entity' = [entity EXCEPT ![t] = {}] /\ op' = [op EXCEPT ![t] = o]
        BY <2>1, <2>5
      <3>2. A # {}
        OBVIOUS
      <3>3. OpOfPlace' /\ RedisAnswers'
        BY <2>2, <3>1 DEF TypeOK
      <3>4. SomethingToLock'
        BY <3>1, <3>2 DEF TypeOK
      <3> QED BY <3>3, <3>4
    <2> QED BY <2>3, <2>4, <2>5
  <1>2. ASSUME NEW t \in Threads, Overtime(t) PROVE PlacesInv'
    BY <1>2 DEF Overtime
  <1>3. ASSUME NEW t \in Threads, AcquireAll(t) PROVE PlacesInv'
    BY <1>3 DEF AcquireAll, TypeOK
  <1>4. ASSUME NEW t \in Threads, AllTimeout(t) PROVE PlacesInv'
    BY <1>4 DEF AllTimeout, TypeOK
  <1>5. ASSUME NEW t \in Threads, AcquireEndpoint(t) PROVE PlacesInv'
    BY <1>5 DEF AcquireEndpoint, TypeOK
  <1>6. ASSUME NEW t \in Threads, EndpointTimeout(t) PROVE PlacesInv'
    BY <1>6 DEF EndpointTimeout, TypeOK
  <1>7. ASSUME NEW t \in Threads, DeleteKey(t) PROVE PlacesInv'
    BY <1>7 DEF DeleteKey, AfterDelete, TypeOK
  <1>8. ASSUME NEW t \in Threads, ScanAgents(t) PROVE PlacesInv'
    BY <1>8 DEF ScanAgents
  <1>9. ASSUME NEW t \in Threads, WatchAgents(t) PROVE PlacesInv'
    BY <1>9 DEF WatchAgents, TypeOK
  <1>10. ASSUME NEW t \in Threads, ExecAgents(t) PROVE PlacesInv'
    BY <1>10 DEF ExecAgents, TypeOK
  <1>11. ASSUME NEW t \in Threads, CheckEntitys(t) PROVE PlacesInv'
    BY <1>11 DEF CheckEntitys, TypeOK
  <1>12. ASSUME NEW t \in Threads, EntitysTimeout(t) PROVE PlacesInv'
    BY <1>12 DEF EntitysTimeout, TypeOK
  <1>13. ASSUME NEW t \in Threads, WatchEntitys(t) PROVE PlacesInv'
    BY <1>13 DEF WatchEntitys, TypeOK
  <1>14. ASSUME NEW t \in Threads, ExecEntitys(t) PROVE PlacesInv'
    BY <1>14 DEF ExecEntitys, TypeOK
  <1>15. ASSUME NEW t \in Threads, LeaveAgents(t) PROVE PlacesInv'
    BY <1>15 DEF LeaveAgents, TypeOK
  <1>16. ASSUME NEW t \in Threads, LeaveEntitys(t) PROVE PlacesInv'
    BY <1>16 DEF LeaveEntitys, TypeOK
  <1>17. ASSUME NEW t \in Threads, LeaveEntity(t) PROVE PlacesInv'
    BY <1>17 DEF LeaveEntity, TypeOK
  <1>18. ASSUME NEW t \in Threads, Crash(t) PROVE PlacesInv'
    BY <1>18 DEF Crash
  <1>19. ASSUME NEW k \in Keys, NEW p \in Processes, CollectGarbage(k, p) PROVE PlacesInv'
    BY <1>19 DEF CollectGarbage
  <1> QED BY <1>1, <1>2, <1>3, <1>4, <1>5, <1>6, <1>7, <1>8, <1>9, <1>10, <1>11, <1>12,
             <1>13, <1>14, <1>15, <1>16, <1>17, <1>18, <1>19 DEF Next, Serve

\* A step of t that leaves the keys alone, and gives t no lock it did not have,
\* keeps what is said of the keys.
LEMMA QuietStep ==
    ASSUME TypeOK, KeysInv, NEW t \in Threads, key' = key, robbed' = robbed,
           \A k \in Keys, u \in Threads :
              /\ HoldsWhole(u, k)' => HoldsWhole(u, k)
              /\ HoldsMembers(u, k)' => HoldsMembers(u, k) /\ Members(u, k)' = Members(u, k)
    PROVE  KeysInv'
  <1>1. \A k \in Keys : IsString(k)' = IsString(k)
    BY DEF IsString
  <1> QED BY <1>1 DEF KeysInv, WholeIsString, WholeLockExclusive, StringHasNoMarks, MarksKept

\* SET NX by t: no one held the whole key, and no one who still had a mark in it
\* held a member.
LEMMA SetNXStep ==
    ASSUME TypeOK, KeysInv, NEW t \in Threads, NEW j \in Keys, SetNX(t, j), robbed' = robbed,
           \A k \in Keys, u \in Threads :
              /\ HoldsWhole(u, k)' => HoldsWhole(u, k) \/ (u = t /\ k = j)
              /\ HoldsMembers(u, k)' => HoldsMembers(u, k) /\ Members(u, k)' = Members(u, k)
    PROVE  KeysInv'
  <1>1. key[j] = Absent /\ key' = [key EXCEPT ![j].owner = Locker[t]]
    BY DEF SetNX, Exists, Write
  <1>2. Locker[t] # NoOwner
    BY ThreadsAssumption
  <1>3. /\ key'[j].owner = Locker[t] /\ key'[j].marks = {} /\ key[j].marks = {}
        /\ \A k \in Keys \ {j} : key'[k] = key[k]
    BY <1>1 DEF TypeOK, KeyValue, Absent
  <1>4. IsString(j)' /\ ~ IsString(j) /\ \A k \in Keys \ {j} : IsString(k)' = IsString(k)
    BY <1>1, <1>2, <1>3 DEF IsString, Absent
  <1>5. \A u \in Threads : ~ HoldsWhole(u, j)
    BY <1>4 DEF KeysInv, WholeIsString
  <1>6. WholeIsString' /\ StringHasNoMarks'
    BY <1>3, <1>4 DEF KeysInv, WholeIsString, StringHasNoMarks
  <1>7. WholeLockExclusive'
    BY <1>5 DEF KeysInv, WholeLockExclusive
  <1>8. MarksKept'
    BY <1>3 DEF KeysInv, MarksKept
  <1> QED BY <1>6, <1>7, <1>8 DEF KeysInv

\* Marks are added, only to keys that are no strings.
LEMMA AddStep ==
    ASSUME TypeOK, KeysInv, NEW t \in Threads, robbed' = robbed,
           \A k \in Keys :
              \/ key'[k] = key[k] /\ (HoldsMembers(t, k)' => HoldsMembers(t, k))
              \/ ~ IsString(k) /\ key'[k] = Added(k, Members(t, k)),
           \A k \in Keys, u \in Threads :
              /\ HoldsWhole(u, k)' => HoldsWhole(u, k)
              /\ u # t => HoldsMembers(u, k)' = HoldsMembers(u, k)
              /\ Members(u, k)' = Members(u, k)
    PROVE  KeysInv'
  <1>0. ASSUME NEW k \in Keys, ~ IsString(k), key'[k] = Added(k, Members(t, k))
        PROVE  /\ key'[k].owner = key[k].owner
               /\ key'[k].marks = key[k].marks \cup Members(t, k)
    <2>1. key[k] \in KeyValue
      BY DEF TypeOK
    <2>2. key'[k] = [key[k] EXCEPT !.marks = @ \cup Members(t, k)]
      BY <1>0 DEF Added
    <2> QED BY <2>1, <2>2 DEF KeyValue
  <1>1. \A k \in Keys : key[k].marks \subseteq key'[k].marks /\ IsString(k)' = IsString(k)
    BY <1>0 DEF IsString
  <1>2. \A k \in Keys : HoldsMembers(t, k)' =>
              HoldsMembers(t, k) \/ Members(t, k) \subseteq key'[k].marks
    BY <1>0
  <1>3. \A k \in Keys : IsString(k) => key'[k] = key[k]
    OBVIOUS
  <1> QED BY <1>1, <1>2, <1>3
          DEF KeysInv, WholeIsString, WholeLockExclusive, StringHasNoMarks, MarksKept

\* t gives up key j: marks go from it, and every other holder that loses one is
\* noted.
LEMMA RemoveStep ==
    ASSUME TypeOK, KeysInv, NEW t \in Threads, NEW j \in Keys,
           NEW members \in SUBSET (Agents \cup Entitys),
           key' = [key EXCEPT ![j] = Removed(j, members)], Rob(t, j),
           \A k \in Keys, u \in Threads :
              /\ HoldsWhole(u, k)' => HoldsWhole(u, k)
              /\ HoldsMembers(u, k)' => HoldsMembers(u, k) /\ Members(u, k)' = Members(u, k)
              /\ ~ HoldsMembers(t, j)'
    PROVE  KeysInv'
  <1>1. key'[j] = Removed(j, members) /\ \A k \in Keys \ {j} : key'[k] = key[k]
    BY DEF TypeOK
  <1>2. \A k \in Keys : /\ IsString(k)' = IsString(k)
                        /\ key'[k].marks \subseteq key[k].marks
    BY <1>1 DEF TypeOK, KeyValue, Removed, IsString
  <1>3. WholeIsString' /\ WholeLockExclusive' /\ StringHasNoMarks'
    BY <1>2 DEF KeysInv, WholeIsString, WholeLockExclusive, StringHasNoMarks
  <1>4. ASSUME NEW k \in Keys, NEW u \in Threads, HoldsMembers(u, k)'
        PROVE  <<u, k>> \in robbed' \/ Members(u, k)' \subseteq key'[k].marks
    <2>1. CASE k # j
      BY <1>1, <1>4, <2>1 DEF KeysInv, MarksKept, Rob
    <2>2. CASE k = j
      <3>1. u # t /\ HoldsMembers(u, j) /\ Members(u, j)' = Members(u, j)
        BY <1>4, <2>2
      <3>2. CASE <<u, j>> \in robbed
        BY <2>2, <3>1, <3>2 DEF Rob
      <3>3. CASE Members(u, j) \cap (key[j].marks \ key'[j].marks) # {}
        BY <2>2, <3>1, <3>3 DEF Rob
      <3> QED BY <2>2, <3>1, <3>2, <3>3 DEF KeysInv, MarksKept
    <2> QED BY <2>1, <2>2
  <1> QED BY <1>3, <1>4 DEF KeysInv, MarksKept

LEMMA KeysStep == ~ Failures /\ LockInv /\ Next => KeysInv'
  <1> SUFFICES ASSUME ~ Failures, LockInv, Next PROVE KeysInv'
    OBVIOUS
  <1>a. TypeOK /\ KeysInv /\ OpOfPlace /\ SomethingToLock /\ RedisAnswers
    BY DEF LockInv, KeysInv
  <1>k. "agent" \in Keys /\ "endpoint" \in Keys /\ \A k \in Keys : k \in {"agent", "endpoint"}
    BY DEF Keys
  <1> USE <1>a, <1>k DEF Goto, requestVars, HoldsWhole, HoldsMembers, Members
  <1>1. ASSUME NEW t \in Threads, Start(t) PROVE KeysInv'
    <2>1. /\ pc[t] = "idle" /\ key' = key /\ robbed' = robbed
          /\ \E place \in {"setnx", "check", "scan"} : pc' = [pc EXCEPT ![t] = place]
          /\ \E o \in Operations : op' = [op EXCEPT ![t] = o]
          /\ \E A : agents' = [agents EXCEPT ![t] = A]
          /\ \E E : entity' = [entity EXCEPT ![t] = E]
      BY <1>1 DEF Start
    <2> QED BY <2>1, QuietStep DEF TypeOK
  <1>2. ASSUME NEW t \in Threads, Overtime(t) PROVE KeysInv'
    BY <1>2, QuietStep DEF Overtime
  <1>3. ASSUME NEW t \in Threads, AcquireAll(t) PROVE KeysInv'
    BY <1>3, SetNXStep DEF AcquireAll, TypeOK
  <1>4. ASSUME NEW t \in Threads, AllTimeout(t) PROVE KeysInv'
    BY <1>4, QuietStep DEF AllTimeout, TypeOK
  <1>5. ASSUME NEW t \in Threads, AcquireEndpoint(t) PROVE KeysInv'
    BY <1>5, SetNXStep DEF AcquireEndpoint, TypeOK
  <1>6. ASSUME NEW t \in Threads, EndpointTimeout(t) PROVE KeysInv'
    BY <1>6, QuietStep DEF EndpointTimeout, TypeOK
  <1>7. ASSUME NEW t \in Threads, DeleteKey(t) PROVE KeysInv'
    <2>1. /\ key' = [key EXCEPT ![DoneKey(t)] = Absent] /\ pc' = [pc EXCEPT ![t] = AfterDelete(t)]
          /\ UNCHANGED <<op, agents, entity, robbed>> /\ pc[t] \in {"inAll", "inBoth"}
      BY <1>7 DEF DeleteKey, Write, RedisAnswers
    <2>2. \/ pc[t] = "inAll" /\ DoneKey(t) = "agent" /\ AfterDelete(t) = "idle"
          \/ pc[t] = "inBoth" /\ DoneKey(t) = "endpoint" /\ AfterDelete(t) = "leaveAgents"
      BY <2>1 DEF OpOfPlace, DoneKey, AfterDelete
    <2>3. HoldsWhole(t, DoneKey(t)) /\ DoneKey(t) \in Keys
      BY <2>2
    <2>4. /\ \A u \in Threads \ {t} : ~ HoldsWhole(u, DoneKey(t))
          /\ key[DoneKey(t)].marks = {}
      BY <2>3 DEF KeysInv, WholeIsString, WholeLockExclusive, StringHasNoMarks
    <2>5. /\ key'[DoneKey(t)] = Absent
          /\ \A k \in Keys \ {DoneKey(t)} : key'[k] = key[k]
      BY <2>1, <2>3 DEF TypeOK
    <2>6. \A k \in Keys, u \in Threads : HoldsWhole(u, k)' =>
              HoldsWhole(u, k) /\ k # DoneKey(t)
      BY <2>1, <2>2, <2>4 DEF TypeOK
    <2>7. \A k \in Keys, u \in Threads : HoldsMembers(u, k)' =>
              HoldsMembers(u, k) /\ Members(u, k)' = Members(u, k)
      BY <2>1, <2>2 DEF TypeOK
    <2>8. \A k \in Keys : k # DoneKey(t) => IsString(k)' = IsString(k)
      BY <2>5 DEF IsString
    <2>9. key'[DoneKey(t)].marks = {} /\ key'[DoneKey(t)].owner = NoOwner
      BY <2>5 DEF Absent, IsString
    <2>10. WholeIsString' /\ WholeLockExclusive' /\ StringHasNoMarks'
      BY <2>5, <2>6, <2>8, <2>9
         DEF KeysInv, WholeIsString, WholeLockExclusive, StringHasNoMarks, IsString
    <2>11. MarksKept'
      BY <2>1, <2>4, <2>5, <2>7, <2>9 DEF KeysInv, MarksKept
    <2> QED BY <2>10, <2>11 DEF KeysInv
  <1>8. ASSUME NEW t \in Threads, ScanAgents(t) PROVE KeysInv'
    BY <1>8, QuietStep DEF ScanAgents
  <1>9. ASSUME NEW t \in Threads, WatchAgents(t) PROVE KeysInv'
    BY <1>9, QuietStep DEF WatchAgents, TypeOK
  <1>10. ASSUME NEW t \in Threads, ExecAgents(t) PROVE KeysInv'
    <2>1. CASE key' = key /\ pc' = [pc EXCEPT ![t] = "idle"]
      BY <1>10, <2>1, QuietStep DEF ExecAgents, TypeOK
    <2>2. CASE /\ ~ IsString("agent")
               /\ key' = [key EXCEPT !["agent"] = Added("agent", agents[t])]
               /\ \E place \in {"elock", "inAgents"} : pc' = [pc EXCEPT ![t] = place]
      <3>1. key'["agent"] = Added("agent", Members(t, "agent")) /\ key'["endpoint"] = key["endpoint"]
        BY <2>2 DEF TypeOK
      <3>2. \A k \in Keys :
               \/ key'[k] = key[k] /\ (HoldsMembers(t, k)' => HoldsMembers(t, k))
               \/ ~ IsString(k) /\ key'[k] = Added(k, Members(t, k))
        BY <1>10, <2>2, <3>1 DEF ExecAgents, TypeOK
      <3>3. \A k \in Keys, u \in Threads :
               /\ HoldsWhole(u, k)' => HoldsWhole(u, k)
               /\ u # t => HoldsMembers(u, k)' = HoldsMembers(u, k)
               /\ Members(u, k)' = Members(u, k)
        BY <1>10, <2>2 DEF ExecAgents, TypeOK
      <3>4. robbed' = robbed
        BY <1>10 DEF ExecAgents
      <3> HIDE DEF HoldsWhole, HoldsMembers, Members
      <3> QED BY <3>2, <3>3, <3>4, AddStep
    <2> QED BY <1>10, <2>1, <2>2 DEF ExecAgents, Write
  <1>11. ASSUME NEW t \in Threads, CheckEntitys(t) PROVE KeysInv'
    BY <1>11, QuietStep DEF CheckEntitys, TypeOK
  <1>12. ASSUME NEW t \in Threads, EntitysTimeout(t) PROVE KeysInv'
    BY <1>12, QuietStep DEF EntitysTimeout, TypeOK
  <1>13. ASSUME NEW t \in Threads, WatchEntitys(t) PROVE KeysInv'
    BY <1>13, QuietStep DEF WatchEntitys, TypeOK
  <1>14. ASSUME NEW t \in Threads, ExecEntitys(t) PROVE KeysInv'
    <2>1. /\ UNCHANGED <<op, agents, entity, robbed>> /\ pc[t] = "sadd"
          /\ \/ key' = key /\ \E place \in {"idle", "check"} : pc' = [pc EXCEPT ![t] = place]
             \/ /\ key' = [k \in Keys |-> Added(k, Members(t, k))]
                /\ \/ ~ AnyString /\ pc' = [pc EXCEPT ![t] = "inEntitys"]
                   \/ \E place \in {"idle", "check"} : pc' = [pc EXCEPT ![t] = place]
      BY <1>14 DEF ExecEntitys, Write
    <2>2. CASE key' = key /\ \E place \in {"idle", "check"} : pc' = [pc EXCEPT ![t] = place]
      BY <2>1, <2>2, QuietStep DEF TypeOK
    <2>3. CASE /\ key' = [k \in Keys |-> Added(k, Members(t, k))]
               /\ \/ ~ AnyString /\ pc' = [pc EXCEPT ![t] = "inEntitys"]
                  \/ \E place \in {"idle", "check"} : pc' = [pc EXCEPT ![t] = place]
      <3>1. \A k \in Keys : IsString(k) =>
               key'[k] = key[k] /\ (HoldsMembers(t, k)' => HoldsMembers(t, k))
        BY <2>1, <2>3 DEF Added, AnyString, TypeOK
      <3>2. \A k \in Keys : key'[k] = Added(k, Members(t, k))
        BY <2>3
      <3>3. \A k \in Keys, u \in Threads :
               /\ HoldsWhole(u, k)' => HoldsWhole(u, k)
               /\ u # t => HoldsMembers(u, k)' = HoldsMembers(u, k)
               /\ Members(u, k)' = Members(u, k)
        BY <2>1, <2>3 DEF TypeOK
      <3>4. \A k \in Keys :
               \/ key'[k] = key[k] /\ (HoldsMembers(t, k)' => HoldsMembers(t, k))
               \/ ~ IsString(k) /\ key'[k] = Added(k, Members(t, k))
        BY <3>1, <3>2
      <3>5. robbed' = robbed
        BY <2>1
      <3> HIDE DEF HoldsWhole, HoldsMembers, Members
      <3> QED BY <3>3, <3>4, <3>5, AddStep
    <2> QED BY <2>1, <2>2, <2>3
  <1>15. ASSUME NEW t \in Threads, LeaveAgents(t) PROVE KeysInv'
    <2>1. key' = [key EXCEPT !["agent"] = Removed("agent", agents[t])]
      BY <1>15 DEF LeaveAgents, ReleaseMembers, Write
    <2>2. agents[t] \in SUBSET (Agents \cup Entitys)
      BY DEF TypeOK
    <2> QED BY <1>15, <2>1, <2>2, RemoveStep DEF LeaveAgents, TypeOK
  <1>16. ASSUME NEW t \in Threads, LeaveEntitys(t) PROVE KeysInv'
    <2>1. PICK members \in {{}, agents[t]} : key' = [key EXCEPT !["agent"] = Removed("agent", members)]
      BY <1>16 DEF LeaveEntitys, ReleaseMembers, Write
    <2>2. members \in SUBSET (Agents \cup Entitys)
      BY DEF TypeOK
    <2>3. \A k \in Keys, u \in Threads :
              /\ HoldsWhole(u, k)' => HoldsWhole(u, k)
              /\ HoldsMembers(u, k)' => HoldsMembers(u, k) /\ Members(u, k)' = Members(u, k)
              /\ ~ HoldsMembers(t, "agent")'
      BY <1>16 DEF LeaveEntitys, TypeOK
    <2>4. Rob(t, "agent")
      BY <1>16 DEF LeaveEntitys
    <2> HIDE DEF HoldsWhole, HoldsMembers, Members
    <2> QED BY <2>1, <2>2, <2>3, <2>4, RemoveStep
  <1>17. ASSUME NEW t \in Threads, LeaveEntity(t) PROVE KeysInv'
    <2>1. key' = [key EXCEPT !["endpoint"] = Removed("endpoint", entity[t])]
      BY <1>17 DEF LeaveEntity, ReleaseMembers, Write
    <2>2. entity[t] \in SUBSET (Agents \cup Entitys)
      BY DEF TypeOK
    <2> QED BY <1>17, <2>1, <2>2, RemoveStep DEF LeaveEntity, TypeOK
  <1>18. ASSUME NEW t \in Threads, Crash(t) PROVE KeysInv'
    BY <1>18 DEF Crash
  <1>19. ASSUME NEW k \in Keys, NEW p \in Processes, CollectGarbage(k, p) PROVE KeysInv'
    BY <1>19 DEF CollectGarbage, RedisAnswers
  <1> QED BY <1>1, <1>2, <1>3, <1>4, <1>5, <1>6, <1>7, <1>8, <1>9, <1>10, <1>11, <1>12,
             <1>13, <1>14, <1>15, <1>16, <1>17, <1>18, <1>19 DEF Next, Serve

LEMMA NextInv == ~ Failures /\ LockInv /\ [Next]_vars => LockInv'
  <1>1. ~ Failures /\ LockInv /\ Next => LockInv'
    BY NextType, PlacesStep, KeysStep DEF LockInv, PlacesInv, KeysInv
  <1>2. LockInv /\ UNCHANGED vars => LockInv'
    BY DEF LockInv, vars, TypeOK, OpOfPlace, SomethingToLock, RedisAnswers, WholeIsString,
           WholeLockExclusive, StringHasNoMarks, MarksKept, HoldsWhole, HoldsMembers,
           Members, IsString
  <1> QED BY <1>1, <1>2

\* While redis answers, the whole agent list, and a whole endpoint, is locked by
\* one thread at a time.
THEOREM WholeLockExclusiveHolds ==
    ASSUME ~ Failures PROVE Spec => []WholeLockExclusive
  <1>1. LockInv => WholeLockExclusive
    BY DEF LockInv
  <1> QED BY <1>1, InitInv, NextInv, PTL DEF Spec

\* While redis answers, a thread holds the whole of a key together with the holder
\* of a member only when a third thread's release has taken the member's mark.
THEOREM WholeExcludesMembersHolds ==
    ASSUME ~ Failures PROVE Spec => []WholeExcludesMembers
  <1>1. LockInv => WholeExcludesMembers
    <2> SUFFICES ASSUME LockInv, NEW k \in Keys, NEW t \in Threads, NEW u \in Threads,
                        HoldsWhole(t, k), HoldsMembers(u, k), <<u, k>> \notin robbed
                 PROVE  FALSE
      BY DEF WholeExcludesMembers
    <2>1. key[k].marks = {}
      BY DEF LockInv, WholeIsString, StringHasNoMarks
    <2>2. Members(u, k) \subseteq {}
      BY <2>1 DEF LockInv, MarksKept
    <2>3. Members(u, k) # {}
      BY DEF LockInv, SomethingToLock, RedisAnswers, HoldsMembers, Members, Keys
    <2> QED BY <2>2, <2>3
  <1> QED BY <1>1, InitInv, NextInv, PTL DEF Spec

-----------------------------------------------------------------------------
(***************************************************************************)
(* What a lock leaves behind, while redis answers.                         *)
(***************************************************************************)
\* A thread that deletes or migrates an entity asks for the agent the entity is on.
DeletesAtHome ==
    \A t \in Threads : pc[t] \in {"check", "watch", "sadd", "inEntitys"} =>
        \A a \in agents[t] : \E e \in Entitys : Home[e] = a

StringsHeld == \A k \in Keys : IsString(k) => \E t \in Threads : HoldsWhole(t, k)
Held(a) == \/ \E t \in Threads : HoldsMembers(t, "agent") /\ a \in agents[t]
           \/ \E e \in Entitys : Home[e] = a
MarksHeld == \A a \in key["agent"].marks : Held(a)

HoldersInv == DeletesAtHome /\ StringsHeld /\ MarksHeld

\* A thread that keeps the keys and the locks it has leaves the holders as they are.
LEMMA HoldersKept ==
    ASSUME HoldersInv, key' = key,
           \A k \in Keys, u \in Threads : HoldsWhole(u, k) => HoldsWhole(u, k)',
           \A u \in Threads : HoldsMembers(u, "agent") =>
                HoldsMembers(u, "agent")' /\ agents'[u] = agents[u]
    PROVE  StringsHeld' /\ MarksHeld'
  <1>1. \A k \in Keys : IsString(k)' = IsString(k)
    BY DEF IsString
  <1>2. StringsHeld'
    BY <1>1 DEF HoldersInv, StringsHeld
  <1>3. \A a \in key["agent"].marks : Held(a)'
    BY DEF HoldersInv, MarksHeld, Held
  <1> QED BY <1>2, <1>3 DEF MarksHeld

\* SET NX by t, who then holds the string.
LEMMA HoldersSetNX ==
    ASSUME TypeOK, HoldersInv, NEW t \in Threads, NEW j \in Keys, SetNX(t, j),
           HoldsWhole(t, j)',
           \A k \in Keys, u \in Threads : HoldsWhole(u, k) => HoldsWhole(u, k)',
           \A u \in Threads : HoldsMembers(u, "agent") =>
                HoldsMembers(u, "agent")' /\ agents'[u] = agents[u]
    PROVE  StringsHeld' /\ MarksHeld'
  <1>1. key' = [key EXCEPT ![j].owner = Locker[t]]
    BY DEF SetNX, Write
  <1>2. /\ \A k \in Keys \ {j} : key'[k] = key[k]
        /\ \A k \in Keys : key'[k].marks = key[k].marks
    BY <1>1 DEF TypeOK, KeyValue
  <1>3. \A k \in Keys \ {j} : IsString(k)' = IsString(k)
    BY <1>2 DEF IsString
  <1>4. StringsHeld'
    BY <1>3 DEF HoldersInv, StringsHeld
  <1>5. \A a \in key["agent"].marks : Held(a)'
    BY DEF HoldersInv, MarksHeld, Held
  <1> QED BY <1>2, <1>4, <1>5 DEF MarksHeld, Keys

LEMMA InitHolders == Init => HoldersInv
  <1> SUFFICES ASSUME Init PROVE HoldersInv
    OBVIOUS
  <1>1. \A k \in Keys : ~ IsString(k) /\ key[k].marks = {}
    BY DEF Init, IsString, Absent
  <1>2. DeletesAtHome
    BY DEF Init, DeletesAtHome
  <1> QED BY <1>1, <1>2 DEF HoldersInv, StringsHeld, MarksHeld, Keys

LEMMA HomeStep == ~ Failures /\ LockInv /\ HoldersInv /\ Next => DeletesAtHome'
  <1> SUFFICES ASSUME ~ Failures, LockInv, HoldersInv, Next PROVE DeletesAtHome'
    OBVIOUS
  <1>a. TypeOK /\ DeletesAtHome /\ OpOfPlace /\ RedisAnswers
    BY DEF LockInv, HoldersInv
  <1> USE <1>a DEF Goto, requestVars, DeletesAtHome
  <1>1. ASSUME NEW t \in Threads, Start(t) PROVE DeletesAtHome'
    <2>1. PICK o \in Operations, A \in (SUBSET Agents) \ {{}}, e \in Entitys :
             /\ o \in {"all", "delete"} => A = {Home[e]}
             /\ agents' = [agents EXCEPT ![t] = IF o = "all" THEN {} ELSE A]
             /\ pc' = [pc EXCEPT ![t] = CASE o = "all" -> "setnx"
                                          [] o = "delete" -> "check" [] OTHER -> "scan"]
      BY <1>1 DEF Start
    <2>2. CASE o = "delete"
      <3>1. pc' = [pc EXCEPT ![t] = "check"] /\ agents' = [agents EXCEPT ![t] = {Home[e]}]
        BY <2>1, <2>2
      <3> QED BY <3>1 DEF TypeOK
    <2>3. CASE o # "delete"
      <3>1. /\ \E place \in {"setnx", "scan"} : pc' = [pc EXCEPT ![t] = place]
            /\ \A u \in Threads \ {t} : agents'[u] = agents[u]
        BY <2>1, <2>3 DEF TypeOK
      <3> QED BY <3>1 DEF TypeOK
    <2> QED BY <2>2, <2>3
  <1>2. ASSUME NEW t \in Threads, Serve(t) PROVE DeletesAtHome'
    <2>1. agents' = agents
      BY <1>2 DEF Serve, AcquireAll, AllTimeout, AcquireEndpoint, EndpointTimeout, DeleteKey,
             ScanAgents, WatchAgents, ExecAgents, CheckEntitys, EntitysTimeout, WatchEntitys,
             ExecEntitys, LeaveAgents, LeaveEntitys, LeaveEntity
    <2>2. /\ \A u \in Threads \ {t} : pc'[u] = pc[u]
          /\ pc'[t] \in {"check", "watch", "sadd", "inEntitys"} =>
                pc[t] \in {"check", "watch", "sadd", "inEntitys"}
      <3>1. CASE \/ AcquireAll(t) \/ AllTimeout(t) \/ AcquireEndpoint(t) \/ EndpointTimeout(t)
                 \/ ScanAgents(t) \/ WatchAgents(t)
        BY <3>1 DEF AcquireAll, AllTimeout, AcquireEndpoint, EndpointTimeout, ScanAgents,
                WatchAgents, TypeOK
      <3>2. CASE DeleteKey(t)
        BY <3>2 DEF DeleteKey, AfterDelete, TypeOK
      <3>3. CASE ExecAgents(t)
        BY <3>3 DEF ExecAgents, TypeOK
      <3>4. CASE CheckEntitys(t) \/ EntitysTimeout(t) \/ WatchEntitys(t)
        BY <3>4 DEF CheckEntitys, EntitysTimeout, WatchEntitys, TypeOK
      <3>5. CASE ExecEntitys(t)
        BY <3>5 DEF ExecEntitys, TypeOK
      <3>6. CASE LeaveAgents(t) \/ LeaveEntitys(t) \/ LeaveEntity(t)
        BY <3>6 DEF LeaveAgents, LeaveEntitys, LeaveEntity, TypeOK
      <3> QED BY <1>2, <3>1, <3>2, <3>3, <3>4, <3>5, <3>6 DEF Serve
    <2> QED BY <2>1, <2>2
  <1>3. ASSUME NEW t \in Threads, Overtime(t) PROVE DeletesAtHome'
    BY <1>3 DEF Overtime
  <1>4. ASSUME NEW k \in Keys, NEW p \in Processes, CollectGarbage(k, p) PROVE DeletesAtHome'
    BY <1>4 DEF CollectGarbage
  <1>5. \A t \in Threads : ~ Crash(t)
    BY DEF Crash
  <1> QED BY <1>1, <1>2, <1>3, <1>4, <1>5 DEF Next

LEMMA HoldersStep ==
    ASSUME ~ Failures, LockInv, HoldersInv, Next
    PROVE  StringsHeld' /\ MarksHeld'
  <1> DEFINE Goal == StringsHeld' /\ MarksHeld'
  <1>a. /\ TypeOK /\ OpOfPlace /\ RedisAnswers /\ WholeIsString /\ WholeLockExclusive
        /\ StringHasNoMarks /\ DeletesAtHome /\ StringsHeld /\ MarksHeld
    BY DEF LockInv, HoldersInv
  <1>k. "agent" \in Keys /\ "endpoint" \in Keys /\ \A k \in Keys : k \in {"agent", "endpoint"}
    BY DEF Keys
  <1> USE <1>a, <1>k DEF Goto, requestVars, HoldsWhole, HoldsMembers, Members
  <1>1. ASSUME NEW t \in Threads, Start(t) PROVE Goal
    <2>1. /\ pc[t] = "idle" /\ key' = key
          /\ \E place \in {"setnx", "check", "scan"} : pc' = [pc EXCEPT ![t] = place]
          /\ \E o \in Operations : op' = [op EXCEPT ![t] = o]
          /\ \E A : agents' = [agents EXCEPT ![t] = A]
      BY <1>1 DEF Start
    <2> QED BY <2>1, HoldersKept DEF TypeOK
  <1>2. ASSUME NEW t \in Threads, Overtime(t) PROVE Goal
    BY <1>2, HoldersKept DEF Overtime
  <1>3. ASSUME NEW t \in Threads, AcquireAll(t) PROVE Goal
    BY <1>3, HoldersSetNX DEF AcquireAll, TypeOK
  <1>4. ASSUME NEW t \in Threads, AcquireEndpoint(t) PROVE Goal
    BY <1>4, HoldersSetNX DEF AcquireEndpoint, TypeOK
  <1>5. ASSUME NEW t \in Threads, AllTimeout(t) PROVE Goal
    BY <1>5, HoldersKept DEF AllTimeout, TypeOK
  <1>6. ASSUME NEW t \in Threads, EndpointTimeout(t) PROVE Goal
    BY <1>6, HoldersKept DEF EndpointTimeout, TypeOK
  <1>7. ASSUME NEW t \in Threads, ScanAgents(t) PROVE Goal
    BY <1>7, HoldersKept DEF ScanAgents, TypeOK
  <1>8. ASSUME NEW t \in Threads, WatchAgents(t) PROVE Goal
    BY <1>8, HoldersKept DEF WatchAgents, TypeOK
  <1>9. ASSUME NEW t \in Threads, CheckEntitys(t) PROVE Goal
    BY <1>9, HoldersKept DEF CheckEntitys, TypeOK
  <1>10. ASSUME NEW t \in Threads, EntitysTimeout(t) PROVE Goal
    BY <1>10, HoldersKept DEF EntitysTimeout, TypeOK
  <1>11. ASSUME NEW t \in Threads, WatchEntitys(t) PROVE Goal
    BY <1>11, HoldersKept DEF WatchEntitys, TypeOK
  <1>12. ASSUME NEW t \in Threads, DeleteKey(t) PROVE Goal
    <2>1. /\ key' = [key EXCEPT ![DoneKey(t)] = Absent] /\ pc' = [pc EXCEPT ![t] = AfterDelete(t)]
          /\ UNCHANGED <<op, agents, entity>> /\ pc[t] \in {"inAll", "inBoth"}
      BY <1>12 DEF DeleteKey, Write, RedisAnswers
    <2>2. \/ pc[t] = "inAll" /\ DoneKey(t) = "agent" /\ AfterDelete(t) = "idle"
          \/ pc[t] = "inBoth" /\ DoneKey(t) = "endpoint" /\ AfterDelete(t) = "leaveAgents"
      BY <2>1 DEF OpOfPlace, DoneKey, AfterDelete
    <2>3. /\ key'[DoneKey(t)] = Absent
          /\ \A k \in Keys \ {DoneKey(t)} : key'[k] = key[k]
      BY <2>1, <2>2 DEF TypeOK
    <2>4. \A k \in Keys : IsString(k)' => IsString(k) /\ k # DoneKey(t)
      BY <2>3 DEF IsString, Absent
    <2>5. \A k \in Keys \ {DoneKey(t)}, u \in Threads : HoldsWhole(u, k) => HoldsWhole(u, k)'
      BY <2>1, <2>2 DEF TypeOK
    <2>6. StringsHeld'
      BY <2>4, <2>5 DEF StringsHeld
    <2>7. \A a \in key'["agent"].marks :
             a \in key["agent"].marks /\ DoneKey(t) = "endpoint"
      BY <2>2, <2>3 DEF Absent
    <2>8. DoneKey(t) = "endpoint" => \A u \in Threads :
             HoldsMembers(u, "agent") => HoldsMembers(u, "agent")' /\ agents'[u] = agents[u]
      BY <2>1, <2>2 DEF TypeOK
    <2>9. MarksHeld'
      BY <2>7, <2>8 DEF MarksHeld, Held
    <2> QED BY <2>6, <2>9
  <1>13. ASSUME NEW t \in Threads, ExecAgents(t) PROVE Goal
    <2>0. pc[t] = "exec" /\ agents' = agents /\ op' = op
      BY <1>13 DEF ExecAgents
    <2>1. CASE key' = key /\ pc' = [pc EXCEPT ![t] = "idle"]
      BY <2>0, <2>1, HoldersKept DEF TypeOK
    <2>2. CASE /\ ~ IsString("agent")
               /\ key' = [key EXCEPT !["agent"] = Added("agent", agents[t])]
               /\ \E place \in {"elock", "inAgents"} : pc' = [pc EXCEPT ![t] = place]
      <3>1. /\ key'["agent"] = [key["agent"] EXCEPT !.marks = @ \cup agents[t]]
            /\ key'["endpoint"] = key["endpoint"]
        BY <2>2 DEF TypeOK, Added
      <3>2. /\ key'["agent"].owner = key["agent"].owner
            /\ key'["agent"].marks = key["agent"].marks \cup agents[t]
        BY <3>1 DEF TypeOK, KeyValue
      <3>3. \A k \in Keys : IsString(k)' = IsString(k)
        BY <3>1, <3>2 DEF IsString
      <3>4. /\ \A k \in Keys, u \in Threads : HoldsWhole(u, k) => HoldsWhole(u, k)'
            /\ \A u \in Threads : HoldsMembers(u, "agent") => HoldsMembers(u, "agent")'
            /\ HoldsMembers(t, "agent")'
        BY <2>0, <2>2 DEF TypeOK
      <3>5. StringsHeld'
        BY <3>3, <3>4 DEF StringsHeld
      <3>6. MarksHeld'
        BY <2>0, <3>2, <3>4 DEF MarksHeld, Held
      <3> QED BY <3>5, <3>6
    <2> QED BY <1>13, <2>1, <2>2 DEF ExecAgents, Write
  <1>14. ASSUME NEW t \in Threads, ExecEntitys(t) PROVE Goal
    <2>1. /\ UNCHANGED <<op, agents, entity>> /\ pc[t] = "sadd"
          /\ \E place \in {"idle", "check", "inEntitys"} : pc' = [pc EXCEPT ![t] = place]
          /\ key' = key \/ key' = [k \in Keys |-> Added(k, Members(t, k))]
      BY <1>14 DEF ExecEntitys, Write
    <2>2. /\ \A k \in Keys, u \in Threads : HoldsWhole(u, k) => HoldsWhole(u, k)'
          /\ \A u \in Threads : HoldsMembers(u, "agent") => HoldsMembers(u, "agent")'
      BY <2>1 DEF TypeOK
    <2>3. CASE key' = key
      BY <2>1, <2>2, <2>3, HoldersKept
    <2>4. CASE key' = [k \in Keys |-> Added(k, Members(t, k))]
      <3>1. \A k \in Keys : IsString(k)' = IsString(k)
        BY <2>4 DEF IsString, Added, TypeOK, KeyValue
      <3>2. key'["agent"].marks \subseteq key["agent"].marks \cup agents[t]
        BY <2>4 DEF Added, TypeOK, KeyValue
      <3>3. \A a \in agents[t] : \E e \in Entitys : Home[e] = a
        BY <2>1 DEF DeletesAtHome
      <3>4. StringsHeld'
        BY <2>2, <3>1 DEF StringsHeld
      <3>5. MarksHeld'
        BY <2>1, <2>2, <3>2, <3>3 DEF MarksHeld, Held
      <3> QED BY <3>4, <3>5
    <2> QED BY <2>1, <2>3, <2>4
  <1>15. ASSUME NEW t \in Threads, LeaveAgents(t) PROVE Goal
    <2>1. /\ key' = [key EXCEPT !["agent"] = Removed("agent", agents[t])]
          /\ pc[t] \in {"inAgents", "leaveAgents"} /\ pc' = [pc EXCEPT ![t] = "idle"]
          /\ agents' = agents /\ op' = op
      BY <1>15 DEF LeaveAgents, ReleaseMembers, Write
    <2>2. /\ key'["endpoint"] = key["endpoint"] /\ key'["agent"].owner = key["agent"].owner
          /\ key'["agent"].marks = key["agent"].marks \ agents[t]
      BY <2>1 DEF Removed, TypeOK, KeyValue, StringHasNoMarks
    <2>3. \A k \in Keys : IsString(k)' = IsString(k)
      BY <2>2 DEF IsString
    <2>4. /\ \A k \in Keys, u \in Threads : HoldsWhole(u, k) => HoldsWhole(u, k)'
          /\ \A u \in Threads \ {t} : HoldsMembers(u, "agent") => HoldsMembers(u, "agent")'
      BY <2>1 DEF TypeOK
    <2>5. StringsHeld'
      BY <2>3, <2>4 DEF StringsHeld
    <2>6. MarksHeld'
      BY <2>1, <2>2, <2>4 DEF MarksHeld, Held
    <2> QED BY <2>5, <2>6
  <1>16. ASSUME NEW t \in Threads, LeaveEntitys(t) PROVE Goal
    <2>1. PICK members \in {{}, agents[t]} : key' = [key EXCEPT !["agent"] = Removed("agent", members)]
      BY <1>16 DEF LeaveEntitys, ReleaseMembers, Write
    <2>2. /\ pc[t] = "inEntitys" /\ pc' = [pc EXCEPT ![t] = "leaveEntity"]
          /\ agents' = agents /\ op' = op
      BY <1>16 DEF LeaveEntitys
    <2>3. /\ key'["endpoint"] = key["endpoint"] /\ key'["agent"].owner = key["agent"].owner
          /\ key'["agent"].marks \subseteq key["agent"].marks
      BY <2>1 DEF Removed, TypeOK, KeyValue
    <2>4. \A k \in Keys : IsString(k)' = IsString(k)
      BY <2>3 DEF IsString
    <2>5. /\ \A k \in Keys, u \in Threads : HoldsWhole(u, k) => HoldsWhole(u, k)'
          /\ \A u \in Threads \ {t} : HoldsMembers(u, "agent") => HoldsMembers(u, "agent")'
          /\ \A a \in agents[t] : \E e \in Entitys : Home[e] = a
      BY <2>2 DEF TypeOK, DeletesAtHome
    <2>6. StringsHeld'
      BY <2>4, <2>5 DEF StringsHeld
    <2>7. MarksHeld'
      BY <2>2, <2>3, <2>5 DEF MarksHeld, Held
    <2> QED BY <2>6, <2>7
  <1>17. ASSUME NEW t \in Threads, LeaveEntity(t) PROVE Goal
    <2>1. key' = [key EXCEPT !["endpoint"] = Removed("endpoint", entity[t])]
      BY <1>17 DEF LeaveEntity, ReleaseMembers, Write
    <2>2. /\ pc[t] = "leaveEntity" /\ pc' = [pc EXCEPT ![t] = "idle"]
          /\ agents' = agents /\ op' = op
      BY <1>17 DEF LeaveEntity
    <2>3. /\ key'["agent"] = key["agent"] /\ key'["endpoint"].owner = key["endpoint"].owner
      BY <2>1 DEF Removed, TypeOK, KeyValue
    <2>4. \A k \in Keys : IsString(k)' = IsString(k)
      BY <2>3 DEF IsString
    <2>5. /\ \A k \in Keys, u \in Threads : HoldsWhole(u, k) => HoldsWhole(u, k)'
          /\ \A u \in Threads : HoldsMembers(u, "agent") => HoldsMembers(u, "agent")'
      BY <2>2 DEF TypeOK
    <2>6. StringsHeld'
      BY <2>4, <2>5 DEF StringsHeld
    <2>7. MarksHeld'
      BY <2>2, <2>3, <2>5 DEF MarksHeld, Held
    <2> QED BY <2>6, <2>7
  <1>18. \A t \in Threads : ~ Crash(t)
    BY DEF Crash
  <1>19. \A k \in Keys, p \in Processes : ~ CollectGarbage(k, p)
    BY DEF CollectGarbage, RedisAnswers
  <1> QED BY <1>1, <1>2, <1>3, <1>4, <1>5, <1>6, <1>7, <1>8, <1>9, <1>10, <1>11, <1>12,
             <1>13, <1>14, <1>15, <1>16, <1>17, <1>18, <1>19 DEF Next, Serve

\* While redis answers, no request leaves a lock behind: every string, and every mark of an
\* agent that has no entity of the endpoint, belongs to a thread that holds the lock.
THEOREM KeysHaveHoldersHolds ==
    ASSUME ~ Failures PROVE Spec => []KeysHaveHolders
  <1>1. LockInv /\ HoldersInv /\ [Next]_vars => HoldersInv'
    <2>1. LockInv /\ HoldersInv /\ Next => HoldersInv'
      BY HomeStep, HoldersStep DEF HoldersInv
    <2>2. HoldersInv /\ UNCHANGED vars => HoldersInv'
      BY DEF HoldersInv, vars, DeletesAtHome, StringsHeld, MarksHeld, Held, HoldsWhole,
             HoldsMembers, IsString
    <2> QED BY <2>1, <2>2
  <1>2. HoldersInv => KeysHaveHolders
    BY DEF HoldersInv, StringsHeld, MarksHeld, Held, KeysHaveHolders
  <1> QED BY <1>1, <1>2, InitInv, NextInv, InitHolders, PTL DEF Spec
=============================================================================
