------------------------ MODULE AgentDirectoryProofs ------------------------
(***************************************************************************)
(* AgentDirectory for any threads, agents, metadata and seconds: its types *)
(* and its three invariants.  ListInv is about the set of ids and the      *)
(* rows, and says what the locks are good for, and what remains when a     *)
(* deletion has been robbed of its mark; CopyInv is about the process's    *)
(* copies of metadata, which no lock protects, only the scores do.         *)
(***************************************************************************)
EXTENDS AgentDirectory, TLAPS

Places == {"idle", "fill", "add", "hold", "locked", "found", "deleted", "onlines", "report",
           "set", "zadd", "get", "store"}

\* Who works for an agent has one.
AgentFits ==
    \A t \in Threads :
        pc[t] \in {"add", "locked", "found", "deleted", "report", "set", "zadd"} =>
            agent[t] \in Agents

\* The lock of all agents is held where it is needed, while nothing is marked; a deletion
\* that was not robbed has its mark.  So deletions that run under the lock are robbed ones.
WholeFits ==
    /\ \A t \in Threads : pc[t] \in {"fill", "add", "onlines"} => whole = t
    /\ whole # None => marks = {}
    /\ \A t \in Threads : Deleting(t) /\ t \notin robbed => agent[t] \in marks

\* Who fills the set knows all live agents; what else it knows is just being deleted, or a
\* ghost already.
FillFits ==
    \A t \in Threads : pc[t] = "fill" =>
        /\ Live \subseteq asked[t]
        /\ \A a \in asked[t] \ Live :
              a \in ghosts \/ \E u \in Threads : pc[u] = "deleted" /\ agent[u] = a

\* The id of an agent that is being added stays in the set until its row is there, unless a
\* robbed deletion takes it.
AddFits == \A t \in Threads : pc[t] = "add" => score[agent[t]] # Never \/ agent[t] \in lost

\* An agent that is being taken from the set has no live row, and gets none.
DeletedFits == \A t \in Threads : pc[t] = "deleted" /\ t \notin robbed => row[agent[t]] # "live"

ListInv ==
    /\ AgentFits /\ WholeFits /\ FillFits /\ AddFits /\ DeletedFits
    /\ EveryAgentIsListed /\ ListedAgentsExist

\* A score that a copy, or a reader, holds is the agent's, or a past one.
ScoresKnown ==
    /\ \A a \in Agents : cache[a] # NoCopy =>
          cache[a].base # Never /\ cache[a].base \in past[a] \cup {score[a]}
    /\ \A t \in Threads : pc[t] \in {"get", "store"} =>
          \A a \in asked[t] : scores[t][a] # Never /\ scores[t][a] \in past[a] \cup {score[a]}

\* A flush of a is between the key and the score.
Flushing(a) == \E t \in Threads : pc[t] = "zadd" /\ agent[t] = a

\* What has been read of a key is what the key holds, if the score read before it is
\* still, and not again, the agent's.
ReadsAreCurrent ==
    \A t \in Threads : pc[t] = "store" =>
        \A a \in asked[t] :
            /\ data[t][a] # None /\ scores[t][a] = score[a] /\ score[a] \notin past[a]
            /\ online[a] # None /\ ~ Flushing(a)
            => data[t][a] = online[a]

CopyInv == ScoresKnown /\ ReadsAreCurrent /\ TrustedCopiesAreCurrent

DirectoryInv == TypeOK /\ ListInv /\ CopyInv

\* The score of a has become a past one.
Left(a) == past'[a] = past[a] \cup ({score[a]} \ {Never})

\* What a step leaves of the threads: their types, and the others as they were.
CallsTyped ==
    /\ pc' \in [Threads -> Places] /\ agent' \in [Threads -> Agents \cup {NoAgent}]
    /\ asked' \in [Threads -> SUBSET Agents]
    /\ scores' \in [Threads -> [Agents -> Times]]
    /\ data' \in [Threads -> [Agents -> Metadata \cup {None}]]
OthersKept(t) ==
    \A u \in Threads \ {t} :
        /\ pc'[u] = pc[u] /\ agent'[u] = agent[u] /\ asked'[u] = asked[u]
        /\ scores'[u] = scores[u] /\ data'[u] = data[u]

-----------------------------------------------------------------------------
\* What the initial state satisfies.
LEMMA InitInv == Init => DirectoryInv
  <1> SUFFICES ASSUME Init PROVE DirectoryInv
    OBVIOUS
  <1> USE DirectoryAssumption DEF Init, NoScores, NoData, NoCopy, NoAgent
  <1>1. Never \in Times
    BY DEF Times
  <1>2. TypeOK
    BY <1>1 DEF TypeOK
  <1>3. ListInv
    <2>1. Listed = {}
      BY DEF Listed
    <2>2. AgentFits /\ WholeFits /\ FillFits /\ AddFits /\ DeletedFits
      BY DEF AgentFits, WholeFits, FillFits, AddFits, DeletedFits, Deleting
    <2> QED
      BY <2>1, <2>2 DEF ListInv, EveryAgentIsListed, ListedAgentsExist
  <1>4. CopyInv
    BY DEF CopyInv, ScoresKnown, ReadsAreCurrent, TrustedCopiesAreCurrent
  <1> QED
    BY <1>2, <1>3, <1>4 DEF DirectoryInv

\* A thread ends its call.
LEMMA DoneEffect ==
    ASSUME TypeOK, NEW t \in Threads, Done(t)
    PROVE  CallsTyped /\ pc'[t] = "idle" /\ OthersKept(t)
  <1>1. NoScores \in [Agents -> Times] /\ NoData \in [Agents -> Metadata \cup {None}]
    BY DEF NoScores, NoData, Times
  <1> QED
    BY <1>1 DEF TypeOK, Done, Goto, Places, CallsTyped, OthersKept

\* A thread begins a call.
LEMMA BeginEffect ==
    ASSUME TypeOK, NEW t \in Threads, NEW place \in Places, NEW a \in Agents \cup {NoAgent},
           Begin(t, place, a)
    PROVE  /\ pc' \in [Threads -> Places] /\ agent' \in [Threads -> Agents \cup {NoAgent}]
           /\ pc[t] = "idle" /\ pc'[t] = place /\ agent'[t] = a
           /\ \A u \in Threads \ {t} : pc'[u] = pc[u] /\ agent'[u] = agent[u]
  BY DEF TypeOK, Begin, Goto, Places

\* What a write of the set does.
LEMMA ZAddEffect ==
    ASSUME TypeOK, NEW ids \in SUBSET Agents, ZAdd(ids)
    PROVE  /\ score' \in [Agents -> Times] /\ lost' = lost \ ids /\ lost' \subseteq Agents
           /\ \A a \in ids : score'[a] # Never
           /\ \A a \in Agents \ ids : score'[a] = score[a]
           /\ Listed' = Listed \cup ids
  <1>1. PICK now \in Seconds : score' = [a \in Agents |-> IF a \in ids THEN now ELSE score[a]]
    BY DEF ZAdd
  <1>2. now # Never /\ now \in Times
    BY DirectoryAssumption DEF Times
  <1>3. /\ score' \in [Agents -> Times]
        /\ \A a \in ids : score'[a] # Never
        /\ \A a \in Agents \ ids : score'[a] = score[a]
    BY <1>1, <1>2 DEF TypeOK
  <1>4. Listed' = Listed \cup ids
    BY <1>3 DEF Listed
  <1>5. lost' = lost \ ids /\ lost' \subseteq Agents
    BY DEF ZAdd, TypeOK
  <1> QED
    BY <1>3, <1>4, <1>5

\* What becomes of the past.
LEMMA LeaveEffect ==
    ASSUME TypeOK, NEW ids \in SUBSET Agents, Leave(ids)
    PROVE  /\ past' \in [Agents -> SUBSET Seconds]
           /\ \A a \in Agents : Held(a)' =>
                 (a \in ids => Left(a)) /\ (a \notin ids => past'[a] = past[a])
  <1>1. \A a \in Agents : {score[a]} \ {Never} \subseteq Seconds
    BY DEF TypeOK, Times
  <1>2. past' = [a \in Agents |-> IF ~ Held(a)' THEN {}
                                ELSE IF a \in ids THEN past[a] \cup ({score[a]} \ {Never}) ELSE past[a]]
    BY DEF Leave
  <1>3. \A a \in Agents :
           /\ past'[a] = IF ~ Held(a)' THEN {}
                         ELSE IF a \in ids THEN past[a] \cup ({score[a]} \ {Never}) ELSE past[a]
           /\ past'[a] \in SUBSET Seconds
    <2> HIDE DEF Held
    <2> QED
      BY <1>1, <1>2 DEF TypeOK
  <1>4. past' \in [Agents -> SUBSET Seconds]
    <2> HIDE DEF Held
    <2> QED
      BY <1>2, <1>3
  <1> QED
    BY <1>3, <1>4 DEF Left

\* The copies stay right in every step that changes a score only when it leaves the old
\* one behind, takes keys away or changes one on the way to its score, and makes no new
\* copy.
LEMMA CopiesStep ==
    ASSUME TypeOK, TypeOK', CopyInv,
           \A a \in Agents :
              /\ Held(a)' => Left(a) \/ (score'[a] = score[a] /\ past'[a] = past[a])
              /\ cache'[a] \in {cache[a], NoCopy}
              /\ online'[a] \in {online[a], None} \/ Flushing(a)'
              /\ Flushing(a) => Flushing(a)' \/ (Held(a)' => Left(a)),
           \A t \in Threads :
              pc'[t] \in {"get", "store"} =>
                 /\ pc'[t] = pc[t] /\ asked'[t] = asked[t]
                 /\ scores'[t] = scores[t] /\ data'[t] = data[t]
    PROVE  CopyInv'
  <1>1. \A a \in Agents : cache'[a] # NoCopy => Held(a)'
    BY DEF Held
  <1>2. \A t \in Threads : pc'[t] \in {"get", "store"} => \A a \in asked'[t] : a \in Agents /\ Held(a)'
    BY DEF Held, TypeOK
  <1>3. \A a \in Agents, x \in Times :
           Held(a)' /\ x # Never /\ x \in past[a] \cup {score[a]} => x \in past'[a] \cup {score'[a]}
    BY DEF Left
  <1>4. ScoresKnown'
    <2>1. ASSUME NEW a \in Agents, cache'[a] # NoCopy
          PROVE  cache'[a].base # Never /\ cache'[a].base \in past'[a] \cup {score'[a]}
      <3>1. cache'[a] = cache[a] /\ Held(a)' /\ cache[a].base \in Times
        BY <1>1, <2>1 DEF TypeOK
      <3>2. cache[a].base # Never /\ cache[a].base \in past[a] \cup {score[a]}
        BY <2>1, <3>1 DEF CopyInv, ScoresKnown
      <3> QED
        BY <1>3, <3>1, <3>2
    <2>2. ASSUME NEW t \in Threads, pc'[t] \in {"get", "store"}, NEW a \in asked'[t]
          PROVE  scores'[t][a] # Never /\ scores'[t][a] \in past'[a] \cup {score'[a]}
      <3>1. /\ pc[t] \in {"get", "store"} /\ a \in asked[t] /\ scores'[t] = scores[t]
            /\ a \in Agents /\ Held(a)' /\ scores[t][a] \in Times
        BY <1>2, <2>2 DEF TypeOK
      <3>2. scores[t][a] # Never /\ scores[t][a] \in past[a] \cup {score[a]}
        BY <3>1 DEF CopyInv, ScoresKnown
      <3> QED
        BY <1>3, <3>1, <3>2
    <2> QED
      BY <2>1, <2>2 DEF ScoresKnown
  <1>5. ASSUME NEW a \in Agents, NEW x \in Times, Held(a)', x # Never,
               x \in past[a] \cup {score[a]}, score'[a] = x, x \notin past'[a], ~ Flushing(a)'
        PROVE  /\ score[a] = x /\ x \notin past[a] /\ ~ Flushing(a)
               /\ online'[a] \in {online[a], None}
    <2>1. ~ Left(a)
      BY <1>5 DEF Left
    <2>2. score[a] = x /\ x \notin past[a]
      BY <1>5, <2>1
    <2>3. ~ Flushing(a)
      BY <1>5, <2>1
    <2> QED
      BY <1>5, <2>2, <2>3
  <1>6. ReadsAreCurrent'
    <2> SUFFICES ASSUME NEW t \in Threads, pc'[t] = "store", NEW a \in asked'[t],
                        data'[t][a] # None, scores'[t][a] = score'[a], score'[a] \notin past'[a],
                        online'[a] # None, ~ Flushing(a)'
                 PROVE  data'[t][a] = online'[a]
      BY DEF ReadsAreCurrent
    <2>1. /\ pc[t] = "store" /\ a \in asked[t] /\ scores'[t] = scores[t] /\ data'[t] = data[t]
          /\ a \in Agents /\ Held(a)' /\ scores[t][a] \in Times
      BY <1>2 DEF TypeOK
    <2>2. scores[t][a] # Never /\ scores[t][a] \in past[a] \cup {score[a]}
      BY <2>1 DEF CopyInv, ScoresKnown
    <2>3. /\ score[a] = scores[t][a] /\ score[a] \notin past[a] /\ ~ Flushing(a)
          /\ online'[a] = online[a]
      BY <1>5, <2>1, <2>2
    <2> QED
      BY <2>1, <2>3 DEF CopyInv, ReadsAreCurrent
  <1>7. TrustedCopiesAreCurrent'
    <2> SUFFICES ASSUME NEW a \in Agents, cache'[a] # NoCopy, cache'[a].base = score'[a],
                        score'[a] \notin past'[a], online'[a] # None, ~ Flushing(a)'
                 PROVE  cache'[a].data = online'[a]
      BY DEF TrustedCopiesAreCurrent, Flushing
    <2>1. cache'[a] = cache[a] /\ Held(a)' /\ cache[a].base \in Times
      BY <1>1 DEF TypeOK
    <2>2. cache[a].base # Never /\ cache[a].base \in past[a] \cup {score[a]}
      BY <2>1 DEF CopyInv, ScoresKnown
    <2>3. /\ score[a] = cache[a].base /\ score[a] \notin past[a] /\ ~ Flushing(a)
          /\ online'[a] = online[a]
      BY <1>5, <2>1, <2>2
    <2> QED
      BY <2>1, <2>3 DEF CopyInv, TrustedCopiesAreCurrent, Flushing
  <1> QED
    BY <1>4, <1>6, <1>7 DEF CopyInv

\* What is true of the set and the rows stays so in every step that writes neither, of
\* threads that neither fill nor add nor have deleted, if the locks are right after it.
LEMMA ListKept ==
    ASSUME TypeOK, ListInv, UNCHANGED <<row, score, stub, ghosts, lost>>,
           AgentFits', WholeFits',
           \A t \in Threads :
              \/ pc'[t] = pc[t] /\ agent'[t] = agent[t] /\ asked'[t] = asked[t]
              \/ pc[t] \notin {"fill", "add", "deleted"} /\ pc'[t] \notin {"fill", "add", "deleted"},
           \A t \in Threads : pc'[t] = "deleted" /\ t \notin robbed' => t \notin robbed
    PROVE  ListInv'
  <1>1. Listed' = Listed /\ Live' = Live
    BY DEF Listed, Live
  <1>2. FillFits'
    <2> SUFFICES ASSUME NEW t \in Threads, pc'[t] = "fill"
                 PROVE  /\ Live \subseteq asked'[t]
                        /\ \A a \in asked'[t] \ Live :
                              a \in ghosts \/ \E u \in Threads : pc'[u] = "deleted" /\ agent'[u] = a
      BY <1>1 DEF FillFits
    <2>1. pc[t] = "fill" /\ asked'[t] = asked[t]
      OBVIOUS
    <2> QED
      BY <2>1 DEF ListInv, FillFits
  <1>3. AddFits' /\ DeletedFits'
    BY DEF ListInv, AddFits, DeletedFits
  <1>4. EveryAgentIsListed'
    BY <1>1 DEF ListInv, EveryAgentIsListed
  <1>5. ListedAgentsExist'
    BY <1>1 DEF ListInv, ListedAgentsExist
  <1> QED
    BY <1>2, <1>3, <1>4, <1>5 DEF ListInv

\* The locks stay right when nobody locks or unlocks, begins a deletion, or goes where the
\* lock of all agents is needed.
LEMMA LocksKept ==
    ASSUME WholeFits, UNCHANGED <<whole, marks, robbed>>,
           \A t \in Threads :
              /\ pc'[t] \in {"fill", "add", "onlines"} => pc'[t] = pc[t]
              /\ Deleting(t)' => Deleting(t) /\ agent'[t] = agent[t]
    PROVE  WholeFits'
  BY DEF WholeFits, Deleting

\* A release robs whoever else deletes one of the ids, and nobody besides.
LEMMA UnmarkFits ==
    ASSUME TypeOK, WholeFits, NEW t \in Threads, NEW ids \in SUBSET Agents, Unmark(t, ids),
           pc[t] \notin {"fill", "add", "onlines"}, pc'[t] = "idle", OthersKept(t)
    PROVE  /\ WholeFits' /\ marks' \subseteq Agents /\ robbed' \subseteq Threads
           /\ \A u \in Threads : Deleting(u)' /\ u \notin robbed' => u \notin robbed
           /\ robbed \subseteq robbed' \cup {t}
           /\ whole' = whole
  BY DEF TypeOK, WholeFits, Unmark, Deleting, OthersKept

-----------------------------------------------------------------------------
\* The locks of ids.
LEMMA LockAgentsInv == ASSUME DirectoryInv, NEW t \in Threads, LockAgents(t) PROVE DirectoryInv'
  <1>1. PICK ids \in SUBSET Agents :
           /\ Mark(ids) /\ Begin(t, "hold", NoAgent) /\ asked' = [asked EXCEPT ![t] = ids]
    BY DEF LockAgents, Listed
  <1>2. /\ TypeOK /\ UNCHANGED <<row, score, past, stub, ghosts, lost, online, cache, scores, data>>
        /\ whole = None /\ marks' = marks \cup ids /\ whole' = whole /\ robbed' = robbed
    BY <1>1 DEF DirectoryInv, LockAgents, listVars, Mark
  <1>3. /\ pc' \in [Threads -> Places] /\ agent' \in [Threads -> Agents \cup {NoAgent}]
        /\ pc[t] = "idle" /\ pc'[t] = "hold"
        /\ \A u \in Threads \ {t} : pc'[u] = pc[u] /\ agent'[u] = agent[u]
    BY <1>1, <1>2, BeginEffect DEF Places
  <1>4. /\ asked' \in [Threads -> SUBSET Agents] /\ \A u \in Threads \ {t} : asked'[u] = asked[u]
    BY <1>1, <1>2 DEF TypeOK
  <1>5. TypeOK'
    BY <1>2, <1>3, <1>4 DEF TypeOK, Places
  <1>6. AgentFits' /\ WholeFits'
    BY <1>2, <1>3 DEF DirectoryInv, ListInv, AgentFits, WholeFits, Deleting
  <1>7. ListInv'
    BY <1>2, <1>3, <1>4, <1>6, ListKept DEF DirectoryInv
  <1>8. CopyInv'
    BY <1>2, <1>3, <1>4, <1>5, CopiesStep DEF DirectoryInv, Flushing
  <1> QED
    BY <1>5, <1>7, <1>8 DEF DirectoryInv

LEMMA UnlockAgentsInv ==
    ASSUME DirectoryInv, NEW t \in Threads,
           UnlockAgents(t) \/ DeleteFails(t)
    PROVE  DirectoryInv'
  <1>1. PICK ids \in SUBSET Agents : Unmark(t, ids)
    BY DEF UnlockAgents, DeleteFails, DirectoryInv, TypeOK, ListInv, AgentFits
  <1>2. /\ TypeOK /\ Done(t) /\ pc[t] \in {"hold", "locked", "found"}
        /\ UNCHANGED <<row, score, past, stub, ghosts, lost, online, cache>>
    BY DEF DirectoryInv, UnlockAgents, DeleteFails, listVars
  <1>3. CallsTyped /\ pc'[t] = "idle" /\ OthersKept(t)
    BY <1>2, DoneEffect
  <1>4. /\ WholeFits' /\ marks' \subseteq Agents /\ robbed' \subseteq Threads
        /\ \A u \in Threads : Deleting(u)' /\ u \notin robbed' => u \notin robbed
        /\ whole' = whole
    BY <1>1, <1>2, <1>3, UnmarkFits DEF DirectoryInv, ListInv
  <1>5. TypeOK'
    BY <1>2, <1>3, <1>4 DEF TypeOK, CallsTyped, Places
  <1>6. AgentFits'
    BY <1>3 DEF DirectoryInv, ListInv, AgentFits, OthersKept
  <1>7. ListInv'
    BY <1>2, <1>3, <1>4, <1>6, ListKept DEF DirectoryInv, OthersKept, Deleting
  <1>8. CopyInv'
    BY <1>2, <1>3, <1>5, CopiesStep DEF DirectoryInv, OthersKept, Flushing
  <1> QED
    BY <1>5, <1>7, <1>8 DEF DirectoryInv

\* all_agents.
LEMMA FillReadsInv == ASSUME DirectoryInv, NEW t \in Threads, FillReads(t) PROVE DirectoryInv'
  <1>1. /\ TypeOK /\ whole = None /\ marks = {} /\ whole' = t
        /\ Begin(t, "fill", NoAgent) /\ asked' = [asked EXCEPT ![t] = Live]
        /\ UNCHANGED <<row, score, past, stub, ghosts, lost, online, cache, marks, robbed, scores, data>>
    BY DEF DirectoryInv, FillReads, LockAll, NothingLocked, listVars
  <1>2. /\ pc' \in [Threads -> Places] /\ agent' \in [Threads -> Agents \cup {NoAgent}]
        /\ pc[t] = "idle" /\ pc'[t] = "fill"
        /\ \A u \in Threads \ {t} : pc'[u] = pc[u] /\ agent'[u] = agent[u]
    BY <1>1, BeginEffect DEF Places
  <1>3. /\ asked' \in [Threads -> SUBSET Agents] /\ asked'[t] = Live
        /\ \A u \in Threads \ {t} : asked'[u] = asked[u]
    BY <1>1 DEF TypeOK, Live
  <1>4. TypeOK'
    BY <1>1, <1>2, <1>3 DEF TypeOK, Places
  <1>5. Listed' = Listed /\ Live' = Live
    BY <1>1 DEF Listed, Live
  <1>6. \A u \in Threads : pc[u] \notin {"fill", "add", "onlines"}
    BY <1>1, DirectoryAssumption DEF DirectoryInv, ListInv, WholeFits
  <1>7. AgentFits' /\ WholeFits'
    BY <1>1, <1>2, <1>6 DEF DirectoryInv, ListInv, AgentFits, WholeFits, Deleting
  <1>8. FillFits'
    BY <1>2, <1>3, <1>5, <1>6 DEF FillFits
  <1>9. AddFits' /\ DeletedFits'
    BY <1>1, <1>2 DEF DirectoryInv, ListInv, AddFits, DeletedFits
  <1>10. EveryAgentIsListed'
    BY <1>1, <1>5 DEF DirectoryInv, ListInv, EveryAgentIsListed
  <1>11. ListedAgentsExist'
    BY <1>1, <1>2, <1>5 DEF DirectoryInv, ListInv, ListedAgentsExist
  <1>12. CopyInv'
    BY <1>1, <1>2, <1>3, <1>4, CopiesStep DEF DirectoryInv, Flushing
  <1> QED
    BY <1>4, <1>7, <1>8, <1>9, <1>10, <1>11, <1>12 DEF DirectoryInv, ListInv

LEMMA FillWritesInv == ASSUME DirectoryInv, NEW t \in Threads, FillWrites(t) PROVE DirectoryInv'
  <1>1. /\ TypeOK /\ pc[t] = "fill" /\ ZAdd(asked[t]) /\ stub' = FALSE /\ whole' = None /\ Done(t)
        /\ UNCHANGED <<row, ghosts, online, cache, marks, robbed>> /\ Leave(asked[t])
        /\ asked[t] \in SUBSET Agents
    BY DEF DirectoryInv, FillWrites, UnlockAll, TypeOK
  <1>2. CallsTyped /\ pc'[t] = "idle" /\ OthersKept(t)
    BY <1>1, DoneEffect
  <1>3. /\ score' \in [Agents -> Times] /\ lost' = lost \ asked[t] /\ lost' \subseteq Agents
        /\ \A a \in asked[t] : score'[a] # Never
        /\ \A a \in Agents \ asked[t] : score'[a] = score[a]
        /\ Listed' = Listed \cup asked[t]
    BY <1>1, ZAddEffect
  <1>4. /\ past' \in [Agents -> SUBSET Seconds]
        /\ \A a \in Agents : Held(a)' =>
              (a \in asked[t] => Left(a)) /\ (a \notin asked[t] => past'[a] = past[a])
    BY <1>1, LeaveEffect
  <1>5. TypeOK'
    BY <1>1, <1>2, <1>3, <1>4 DEF TypeOK, CallsTyped, Places
  <1>6. Live' = Live /\ Live \subseteq asked[t] /\ whole = t
    BY <1>1 DEF Live, DirectoryInv, ListInv, FillFits, WholeFits
  <1>7. \A u \in Threads : pc'[u] \notin {"fill", "add", "onlines"}
    BY <1>2, <1>6 DEF DirectoryInv, ListInv, WholeFits, OthersKept
  <1>8. AgentFits' /\ WholeFits'
    BY <1>1, <1>2, <1>7 DEF DirectoryInv, ListInv, AgentFits, WholeFits, Deleting, OthersKept
  <1>9. FillFits' /\ AddFits'
    BY <1>7 DEF FillFits, AddFits
  <1>10. DeletedFits'
    BY <1>1, <1>2 DEF DirectoryInv, ListInv, DeletedFits, OthersKept
  <1>11. EveryAgentIsListed'
    BY <1>3, <1>6 DEF EveryAgentIsListed
  <1>12. ListedAgentsExist'
    <2> SUFFICES ASSUME NEW a \in Listed', a \notin ghosts
                 PROVE  row[a] = "live" \/ \E u \in Threads : pc'[u] \in {"add", "deleted"} /\ agent'[u] = a
      BY <1>1 DEF ListedAgentsExist
    <2>1. a \in Agents /\ (a \in Listed \/ a \in asked[t])
      BY <1>1, <1>3 DEF Listed
    <2>2. row[a] = "live" \/ \E u \in Threads : pc[u] \in {"add", "deleted"} /\ agent[u] = a
      <3>1. CASE a \in Listed
        BY <3>1 DEF DirectoryInv, ListInv, ListedAgentsExist
      <3>2. CASE a \in asked[t]
        BY <1>1, <2>1, <3>2 DEF DirectoryInv, ListInv, FillFits, Live
      <3> QED
        BY <2>1, <3>1, <3>2
    <2> QED
      BY <1>1, <1>2, <2>2 DEF OthersKept
  <1>13. CopyInv'
    BY <1>1, <1>2, <1>3, <1>4, <1>5, CopiesStep DEF DirectoryInv, OthersKept, Flushing
  <1> QED
    BY <1>5, <1>8, <1>9, <1>10, <1>11, <1>12, <1>13 DEF DirectoryInv, ListInv

\* add_agent.
LEMMA AddWritesInv == ASSUME DirectoryInv, NEW t \in Threads, AddWrites(t) PROVE DirectoryInv'
  <1>1. PICK a \in Agents :
           /\ score[a] = Never /\ Begin(t, "add", a) /\ ZAdd({a}) /\ Leave({a})
           /\ stub' = (stub \/ (Listed = {} /\ Live # {})) /\ ghosts' = ghosts \ {a}
    BY DEF AddWrites
  <1>2. /\ TypeOK /\ whole = None /\ marks = {} /\ whole' = t
        /\ UNCHANGED <<row, online, cache, marks, robbed, asked, scores, data>>
    BY DEF DirectoryInv, AddWrites, LockAll, NothingLocked
  <1>3. /\ pc' \in [Threads -> Places] /\ agent' \in [Threads -> Agents \cup {NoAgent}]
        /\ pc[t] = "idle" /\ pc'[t] = "add" /\ agent'[t] = a
        /\ \A u \in Threads \ {t} : pc'[u] = pc[u] /\ agent'[u] = agent[u]
    BY <1>1, <1>2, BeginEffect DEF Places
  <1>4. /\ score' \in [Agents -> Times] /\ lost' = lost \ {a} /\ lost' \subseteq Agents
        /\ score'[a] # Never
        /\ \A b \in Agents \ {a} : score'[b] = score[b]
        /\ Listed' = Listed \cup {a}
    BY <1>1, <1>2, ZAddEffect
  <1>5. /\ past' \in [Agents -> SUBSET Seconds]
        /\ \A b \in Agents : Held(b)' =>
              (b \in {a} => Left(b)) /\ (b \notin {a} => past'[b] = past[b])
    BY <1>1, <1>2, LeaveEffect
  <1>6. stub' \in BOOLEAN /\ ghosts' \subseteq Agents
    BY <1>1, <1>2 DEF TypeOK
  <1>7. TypeOK'
    BY <1>2, <1>3, <1>4, <1>5, <1>6 DEF TypeOK, Places
  <1>8. Live' = Live
    BY <1>2 DEF Live
  <1>9. \A u \in Threads : pc[u] \notin {"fill", "add", "onlines"}
    BY <1>2, DirectoryAssumption DEF DirectoryInv, ListInv, WholeFits
  <1>10. AgentFits' /\ WholeFits'
    BY <1>2, <1>3, <1>9 DEF DirectoryInv, ListInv, AgentFits, WholeFits, Deleting
  <1>11. FillFits' /\ AddFits'
    BY <1>3, <1>4, <1>9 DEF FillFits, AddFits
  <1>12. DeletedFits'
    BY <1>2, <1>3 DEF DirectoryInv, ListInv, DeletedFits
  <1>13. EveryAgentIsListed'
    <2> SUFFICES ASSUME ~ stub' PROVE Live \ lost' \subseteq Listed'
      BY <1>8 DEF EveryAgentIsListed
    <2>1. CASE Listed = {}
      BY <1>1, <2>1
    <2>2. CASE Listed # {}
      <3>1. Live \ lost \subseteq Listed
        BY <1>1, <2>2 DEF DirectoryInv, ListInv, EveryAgentIsListed
      <3> QED
        BY <1>4, <3>1
    <2> QED
      BY <2>1, <2>2
  <1>14. ListedAgentsExist'
    BY <1>1, <1>2, <1>3, <1>4 DEF DirectoryInv, ListInv, ListedAgentsExist
  <1>15. CopyInv'
    BY <1>2, <1>3, <1>4, <1>5, <1>7, CopiesStep DEF DirectoryInv, Flushing
  <1> QED
    BY <1>7, <1>10, <1>11, <1>12, <1>13, <1>14, <1>15 DEF DirectoryInv, ListInv

LEMMA AddRefusedInv == ASSUME DirectoryInv, AddRefused PROVE DirectoryInv'
  <1>1. PICK a \in Listed : ZAdd({a}) /\ Leave({a})
    BY DEF AddRefused
  <1>2. /\ TypeOK /\ a \in Agents /\ whole = None
        /\ UNCHANGED <<row, stub, ghosts, online, cache, whole, marks, robbed,
                       pc, agent, asked, scores, data>>
    BY DEF DirectoryInv, AddRefused, NothingLocked, Listed, lockVars, threadVars
  <1>3. /\ score' \in [Agents -> Times] /\ lost' = lost \ {a} /\ lost' \subseteq Agents
        /\ score'[a] # Never
        /\ \A b \in Agents \ {a} : score'[b] = score[b]
        /\ Listed' = Listed \cup {a}
    BY <1>1, <1>2, ZAddEffect
  <1>4. /\ past' \in [Agents -> SUBSET Seconds]
        /\ \A b \in Agents : Held(b)' =>
              (b \in {a} => Left(b)) /\ (b \notin {a} => past'[b] = past[b])
    BY <1>1, <1>2, LeaveEffect
  <1>5. TypeOK'
    BY <1>2, <1>3, <1>4 DEF TypeOK
  <1>6. Listed' = Listed /\ Live' = Live
    BY <1>2, <1>3 DEF Live
  <1>7. \A u \in Threads : pc[u] \notin {"fill", "add", "onlines"}
    BY <1>2, DirectoryAssumption DEF DirectoryInv, ListInv, WholeFits
  <1>8. AgentFits' /\ WholeFits' /\ FillFits' /\ AddFits' /\ DeletedFits'
    BY <1>2, <1>7
       DEF DirectoryInv, ListInv, AgentFits, WholeFits, FillFits, AddFits, DeletedFits, Deleting
  <1>9. EveryAgentIsListed' /\ ListedAgentsExist'
    BY <1>1, <1>2, <1>3, <1>6 DEF DirectoryInv, ListInv, EveryAgentIsListed, ListedAgentsExist
  <1>10. CopyInv'
    BY <1>2, <1>3, <1>4, <1>5, CopiesStep DEF DirectoryInv, Flushing
  <1> QED
    BY <1>5, <1>8, <1>9, <1>10 DEF DirectoryInv, ListInv

LEMMA AddEndsInv ==
    ASSUME DirectoryInv, NEW t \in Threads, AddCommits(t) \/ AddFails(t) PROVE DirectoryInv'
  <1> DEFINE a == agent[t]
  <1>1. /\ TypeOK /\ pc[t] = "add" /\ whole' = None /\ Done(t)
        /\ UNCHANGED <<score, past, stub, lost, online, cache, marks, robbed>>
        /\ \/ row' = [row EXCEPT ![a] = "live"] /\ ghosts' = ghosts
           \/ row' = row /\ ghosts' = ghosts \cup {a}
    BY DEF DirectoryInv, AddCommits, AddFails, listVars, UnlockAll
  <1>2. CallsTyped /\ pc'[t] = "idle" /\ OthersKept(t)
    BY <1>1, DoneEffect
  <1>3. a \in Agents /\ (score[a] # Never \/ a \in lost) /\ whole = t /\ marks = {}
    BY <1>1, DirectoryAssumption DEF DirectoryInv, ListInv, AgentFits, AddFits, WholeFits
  <1>4. row' \in [Agents -> {None, "live", "deleted"}] /\ ghosts' \subseteq Agents
    <2> HIDE DEF a
    <2>1. /\ row \in [Agents -> {None, "live", "deleted"}] /\ ghosts \subseteq Agents
          /\ row' = [row EXCEPT ![a] = "live"] \/ row' = row
          /\ ghosts' = ghosts \/ ghosts' = ghosts \cup {a}
      BY <1>1 DEF TypeOK
    <2> QED
      BY <1>3, <2>1
  <1>5. TypeOK'
    BY <1>1, <1>2, <1>4 DEF TypeOK, CallsTyped, Places
  <1>6. /\ Listed' = Listed /\ a \in Listed \cup lost
        /\ Live' \subseteq Live \cup {a}
        /\ \A b \in Agents \ {a} : row'[b] = row[b]
    BY <1>1, <1>3 DEF TypeOK, Listed, Live
  <1>7. /\ \A u \in Threads : pc'[u] \notin {"fill", "add", "onlines"}
        /\ \A u \in Threads : Deleting(u) => u \in robbed
    BY <1>2, <1>3 DEF DirectoryInv, ListInv, WholeFits, OthersKept
  <1>8. AgentFits' /\ WholeFits'
    BY <1>1, <1>2, <1>7 DEF DirectoryInv, ListInv, AgentFits, WholeFits, OthersKept, Deleting
  <1>9. FillFits' /\ AddFits' /\ DeletedFits'
    BY <1>1, <1>2, <1>7 DEF FillFits, AddFits, DeletedFits, OthersKept, Deleting
  <1>10. EveryAgentIsListed'
    BY <1>1, <1>6 DEF DirectoryInv, ListInv, EveryAgentIsListed
  <1>11. ListedAgentsExist'
    <2> SUFFICES ASSUME NEW b \in Listed, b \notin ghosts'
                 PROVE  row'[b] = "live" \/ \E u \in Threads : pc'[u] \in {"add", "deleted"} /\ agent'[u] = b
      BY <1>6 DEF ListedAgentsExist
    <2>1. CASE b = a
      BY <1>1, <1>3, <2>1 DEF TypeOK
    <2>2. CASE b # a
      <3>1. row'[b] = row[b] /\ b \notin ghosts
        BY <1>1, <1>6, <2>2 DEF Listed
      <3>2. row[b] = "live" \/ \E u \in Threads : pc[u] \in {"add", "deleted"} /\ agent[u] = b
        BY <3>1 DEF DirectoryInv, ListInv, ListedAgentsExist
      <3> QED
        BY <1>2, <2>2, <3>1, <3>2 DEF OthersKept
    <2> QED
      BY <2>1, <2>2
  <1>12. CopyInv'
    BY <1>1, <1>2, <1>5, CopiesStep DEF DirectoryInv, OthersKept, Flushing
  <1> QED
    BY <1>5, <1>8, <1>9, <1>10, <1>11, <1>12 DEF DirectoryInv, ListInv

\* delete_agent and clean.
LEMMA DeleteLocksInv ==
    ASSUME DirectoryInv, NEW t \in Threads, NEW a \in Agents, DeleteLocks(t, a) PROVE DirectoryInv'
  <1>1. /\ TypeOK /\ whole = None /\ Begin(t, "locked", a) /\ marks' = marks \cup {a}
        /\ UNCHANGED <<row, score, past, stub, ghosts, lost, online, cache, whole, robbed,
                       asked, scores, data>>
    BY DEF DirectoryInv, DeleteLocks, Mark, listVars
  <1>2. /\ pc' \in [Threads -> Places] /\ agent' \in [Threads -> Agents \cup {NoAgent}]
        /\ pc[t] = "idle" /\ pc'[t] = "locked" /\ agent'[t] = a
        /\ \A u \in Threads \ {t} : pc'[u] = pc[u] /\ agent'[u] = agent[u]
    BY <1>1, BeginEffect DEF Places
  <1>3. TypeOK'
    BY <1>1, <1>2 DEF TypeOK, Places
  <1>4. AgentFits' /\ WholeFits'
    BY <1>1, <1>2 DEF DirectoryInv, ListInv, AgentFits, WholeFits, Deleting
  <1>5. ListInv'
    BY <1>1, <1>2, <1>4, ListKept DEF DirectoryInv
  <1>6. CopyInv'
    BY <1>1, <1>2, <1>3, CopiesStep DEF DirectoryInv, Flushing
  <1> QED
    BY <1>3, <1>5, <1>6 DEF DirectoryInv

LEMMA DeleteFindsInv ==
    ASSUME DirectoryInv, NEW t \in Threads, DeleteFinds(t) PROVE DirectoryInv'
  <1>1. /\ TypeOK /\ pc[t] = "locked" /\ pc' = [pc EXCEPT ![t] = "found"]
        /\ UNCHANGED <<row, score, past, stub, ghosts, lost, online, cache, whole, marks, robbed,
                       agent, asked, scores, data>>
    BY DEF DirectoryInv, DeleteFinds, Goto, listVars, lockVars
  <1>2. /\ pc' \in [Threads -> Places] /\ pc'[t] = "found"
        /\ \A u \in Threads \ {t} : pc'[u] = pc[u]
    BY <1>1 DEF TypeOK, Places
  <1>3. TypeOK'
    BY <1>1, <1>2 DEF TypeOK, Places
  <1>4. AgentFits'
    BY <1>1, <1>2 DEF DirectoryInv, ListInv, AgentFits
  <1>5. WholeFits'
    BY <1>1, <1>2, LocksKept DEF DirectoryInv, ListInv, Deleting
  <1>6. ListInv'
    BY <1>1, <1>2, <1>4, <1>5, ListKept DEF DirectoryInv
  <1>7. CopyInv'
    BY <1>1, <1>2, <1>3, CopiesStep DEF DirectoryInv, Flushing
  <1> QED
    BY <1>3, <1>6, <1>7 DEF DirectoryInv

LEMMA DeleteCommitsInv ==
    ASSUME DirectoryInv, NEW t \in Threads, DeleteCommits(t) PROVE DirectoryInv'
  <1> DEFINE a == agent[t]
  <1>1. /\ TypeOK /\ pc[t] = "found" /\ pc' = [pc EXCEPT ![t] = "deleted"]
        /\ row' = [row EXCEPT ![a] = IF @ = "live" THEN "deleted" ELSE @]
        /\ cache' = [cache EXCEPT ![a] = NoCopy] /\ Leave({})
        /\ UNCHANGED <<score, stub, ghosts, lost, online, whole, marks, robbed,
                       agent, asked, scores, data>>
    BY DEF DirectoryInv, DeleteCommits, Goto, lockVars
  <1>2. a \in Agents
    BY <1>1 DEF DirectoryInv, ListInv, AgentFits
  <1> HIDE DEF a
  <1>3. /\ row' \in [Agents -> {None, "live", "deleted"}] /\ row'[a] # "live"
        /\ \A b \in Agents \ {a} : row'[b] = row[b]
    BY <1>1, <1>2 DEF TypeOK
  <1>4. NoCopy \in [base : Times, data : Metadata \cup {None}]
    BY DEF NoCopy, Times
  <1>5. /\ cache' \in [Agents -> [base : Times, data : Metadata \cup {None}]]
        /\ \A b \in Agents : cache'[b] \in {cache[b], NoCopy}
    BY <1>1, <1>2, <1>4 DEF TypeOK
  <1>6. /\ pc' \in [Threads -> Places] /\ pc'[t] = "deleted"
        /\ \A u \in Threads \ {t} : pc'[u] = pc[u]
    BY <1>1 DEF TypeOK, Places
  <1>7. /\ past' \in [Agents -> SUBSET Seconds]
        /\ \A b \in Agents : Held(b)' => past'[b] = past[b]
    BY <1>1, LeaveEffect
  <1>8. TypeOK'
    BY <1>1, <1>3, <1>5, <1>6, <1>7 DEF TypeOK, Places
  <1>9. Listed' = Listed /\ Live' = Live \ {a}
    BY <1>1, <1>2, <1>3 DEF Listed, Live
  <1>10. AgentFits'
    BY <1>1, <1>2, <1>6 DEF DirectoryInv, ListInv, AgentFits, a
  <1>11. WholeFits'
    BY <1>1, <1>6, LocksKept DEF DirectoryInv, ListInv, Deleting
  <1>12. FillFits'
    <2> SUFFICES ASSUME NEW u \in Threads, pc'[u] = "fill"
                 PROVE  /\ Live' \subseteq asked[u]
                        /\ \A b \in asked[u] \ Live' :
                              b \in ghosts \/ \E v \in Threads : pc'[v] = "deleted" /\ agent[v] = b
      BY <1>1 DEF FillFits
    <2>1. /\ Live \subseteq asked[u]
          /\ \A b \in asked[u] \ Live :
                b \in ghosts \/ \E v \in Threads : pc[v] = "deleted" /\ agent[v] = b
      BY <1>6 DEF DirectoryInv, ListInv, FillFits
    <2>2. pc'[t] = "deleted" /\ agent[t] = a
      BY <1>6 DEF a
    <2>3. ASSUME NEW b \in asked[u] \ Live'
          PROVE  b \in ghosts \/ \E v \in Threads : pc'[v] = "deleted" /\ agent[v] = b
      <3>1. CASE b = a
        BY <2>2, <3>1
      <3>2. CASE b # a
        <4>1. b \in asked[u] \ Live
          BY <1>9, <2>3, <3>2
        <4> QED
          BY <1>6, <2>1, <4>1
      <3> QED
        BY <3>1, <3>2
    <2> QED
      BY <1>9, <2>1, <2>3
  <1>13. AddFits'
    BY <1>1, <1>6 DEF DirectoryInv, ListInv, AddFits
  <1>14. DeletedFits'
    <2> SUFFICES ASSUME NEW u \in Threads, pc'[u] = "deleted", u \notin robbed
                 PROVE  row'[agent[u]] # "live"
      BY <1>1 DEF DeletedFits
    <2>1. CASE agent[u] = a
      BY <1>3, <2>1
    <2>2. CASE agent[u] # a
      <3>1. u # t /\ pc[u] = "deleted"
        BY <1>6, <2>2 DEF a
      <3>2. agent[u] \in Agents /\ row[agent[u]] # "live"
        BY <3>1 DEF DirectoryInv, ListInv, AgentFits, DeletedFits
      <3> QED
        BY <1>3, <2>2, <3>2
    <2> QED
      BY <2>1, <2>2
  <1>15. EveryAgentIsListed'
    BY <1>1, <1>9 DEF DirectoryInv, ListInv, EveryAgentIsListed
  <1>16. ListedAgentsExist'
    <2> SUFFICES ASSUME NEW b \in Listed, b \notin ghosts
                 PROVE  row'[b] = "live" \/ \E u \in Threads : pc'[u] \in {"add", "deleted"} /\ agent[u] = b
      BY <1>1, <1>9 DEF ListedAgentsExist
    <2>1. CASE b = a
      BY <1>6, <2>1 DEF a
    <2>2. CASE b # a
      BY <1>1, <1>3, <1>6, <2>2 DEF DirectoryInv, ListInv, ListedAgentsExist, Listed
    <2> QED
      BY <2>1, <2>2
  <1>17. CopyInv'
    BY <1>1, <1>5, <1>6, <1>7, <1>8, CopiesStep DEF DirectoryInv, Flushing
  <1> QED
    BY <1>8, <1>10, <1>11, <1>12, <1>13, <1>14, <1>15, <1>16, <1>17 DEF DirectoryInv, ListInv

LEMMA DeleteEndsInv ==
    ASSUME DirectoryInv, NEW t \in Threads, DeleteEnds(t) PROVE DirectoryInv'
  <1> DEFINE a == agent[t]
             filling == \E u \in Threads : pc[u] = "fill" /\ a \in asked[u]
  <1>1. /\ TypeOK /\ pc[t] = "deleted" /\ Done(t) /\ Unmark(t, {a}) /\ Leave({a})
        /\ score' = [score EXCEPT ![a] = Never]
        /\ stub' = (stub /\ Listed \ {a} # {})
        /\ lost' = IF t \in robbed THEN lost \cup {a} ELSE lost
        /\ ghosts' = IF filling THEN ghosts \cup {a} ELSE ghosts \ {a}
        /\ UNCHANGED <<row, online, cache>>
    BY DEF DirectoryInv, DeleteEnds, ZRem
  <1>2. a \in Agents /\ (t \notin robbed => a \notin Live)
    BY <1>1 DEF DirectoryInv, ListInv, AgentFits, DeletedFits, Live
  <1>3. CallsTyped /\ pc'[t] = "idle" /\ OthersKept(t)
    BY <1>1, DoneEffect
  <1>4. t \notin robbed => whole = None
    BY <1>1 DEF DirectoryInv, ListInv, WholeFits, Deleting
  <1>5. \A u \in Threads : pc[u] = "deleted" /\ u # t => pc'[u] = "deleted" /\ agent'[u] = agent[u]
    BY <1>3 DEF OthersKept
  <1> HIDE DEF a, filling
  <1>6. /\ WholeFits' /\ marks' \subseteq Agents /\ robbed' \subseteq Threads
        /\ \A u \in Threads : Deleting(u)' /\ u \notin robbed' => u \notin robbed
        /\ whole' = whole
    BY <1>1, <1>2, <1>3, UnmarkFits DEF DirectoryInv, ListInv
  <1>7. /\ past' \in [Agents -> SUBSET Seconds]
        /\ \A b \in Agents : Held(b)' =>
              (b \in {a} => Left(b)) /\ (b \notin {a} => past'[b] = past[b])
    BY <1>1, <1>2, LeaveEffect
  <1>8. /\ score' \in [Agents -> Times] /\ score'[a] = Never
        /\ \A b \in Agents \ {a} : score'[b] = score[b]
    <2>1. Never \in Times
      BY DEF Times
    <2> QED
      BY <1>1, <1>2, <2>1 DEF TypeOK
  <1>9. stub' \in BOOLEAN /\ ghosts' \subseteq Agents /\ lost' \subseteq Agents
    BY <1>1, <1>2 DEF TypeOK
  <1>10. TypeOK'
    BY <1>1, <1>3, <1>6, <1>7, <1>8, <1>9 DEF TypeOK, CallsTyped, Places
  <1>11. Live' = Live /\ Listed' = Listed \ {a} /\ lost \subseteq lost'
    BY <1>1, <1>2, <1>8 DEF Live, Listed
  <1>12. AgentFits'
    BY <1>3 DEF DirectoryInv, ListInv, AgentFits, OthersKept
  <1>13. FillFits'
    <2> SUFFICES ASSUME NEW u \in Threads, pc'[u] = "fill"
                 PROVE  /\ Live \subseteq asked'[u]
                        /\ \A b \in asked'[u] \ Live :
                              b \in ghosts' \/ \E v \in Threads : pc'[v] = "deleted" /\ agent'[v] = b
      BY <1>11 DEF FillFits
    <2>1. pc[u] = "fill" /\ asked'[u] = asked[u]
      BY <1>3 DEF OthersKept
    <2>2. /\ Live \subseteq asked[u]
          /\ \A b \in asked[u] \ Live :
                b \in ghosts \/ \E v \in Threads : pc[v] = "deleted" /\ agent[v] = b
      BY <2>1 DEF DirectoryInv, ListInv, FillFits
    <2>3. a \in asked[u] => a \in ghosts'
      BY <1>1, <2>1 DEF filling
    <2>4. \A b : b # a /\ b \in ghosts => b \in ghosts'
      BY <1>1
    <2>5. ASSUME NEW b \in asked[u] \ Live
          PROVE  b \in ghosts' \/ \E v \in Threads : pc'[v] = "deleted" /\ agent'[v] = b
      <3>1. CASE b = a
        BY <2>3, <3>1
      <3>2. CASE b # a /\ b \in ghosts
        BY <2>4, <3>2
      <3>3. CASE b # a /\ \E v \in Threads : pc[v] = "deleted" /\ agent[v] = b
        <4>1. PICK v \in Threads : pc[v] = "deleted" /\ agent[v] = b
          BY <3>3
        <4>2. v # t
          BY <3>3, <4>1 DEF a
        <4> QED
          BY <1>5, <4>1, <4>2
      <3> QED
        BY <2>2, <3>1, <3>2, <3>3
    <2> QED
      BY <2>1, <2>2, <2>5
  <1>14. AddFits'
    <2> SUFFICES ASSUME NEW u \in Threads, pc'[u] = "add"
                 PROVE  score'[agent'[u]] # Never \/ agent'[u] \in lost'
      BY DEF AddFits
    <2>1. pc[u] = "add" /\ agent'[u] = agent[u] /\ agent[u] \in Agents /\ whole = u
      BY <1>3 DEF OthersKept, DirectoryInv, ListInv, AgentFits, WholeFits
    <2>2. score[agent[u]] # Never \/ agent[u] \in lost
      BY <2>1 DEF DirectoryInv, ListInv, AddFits
    <2>3. t \in robbed /\ lost' = lost \cup {a}
      BY <1>1, <1>4, <2>1, DirectoryAssumption
    <2> QED
      BY <1>8, <2>1, <2>2, <2>3
  <1>15. DeletedFits'
    BY <1>1, <1>3, <1>6 DEF DirectoryInv, ListInv, DeletedFits, OthersKept, Deleting
  <1>16. EveryAgentIsListed'
    <2> SUFFICES ASSUME Listed' # {}, ~ stub' PROVE Live \ lost' \subseteq Listed'
      BY <1>11 DEF EveryAgentIsListed
    <2>1. Listed # {} /\ ~ stub
      BY <1>1, <1>11
    <2>2. Live \ lost \subseteq Listed
      BY <2>1 DEF DirectoryInv, ListInv, EveryAgentIsListed
    <2>3. a \notin Live \ lost'
      BY <1>1, <1>2
    <2> QED
      BY <1>11, <2>2, <2>3
  <1>17. ListedAgentsExist'
    <2> SUFFICES ASSUME NEW b \in Listed' \ ghosts'
                 PROVE  row[b] = "live" \/ \E u \in Threads : pc'[u] \in {"add", "deleted"} /\ agent'[u] = b
      BY <1>1 DEF ListedAgentsExist
    <2>1. b \in Listed /\ b # a /\ b \notin ghosts
      BY <1>1, <1>11
    <2>2. row[b] = "live" \/ \E u \in Threads : pc[u] \in {"add", "deleted"} /\ agent[u] = b
      BY <2>1 DEF DirectoryInv, ListInv, ListedAgentsExist
    <2>3. \A u \in Threads : agent[u] = b => u # t
      BY <2>1 DEF a
    <2> QED
      BY <1>3, <2>2, <2>3 DEF OthersKept
  <1>18. CopyInv'
    BY <1>1, <1>3, <1>7, <1>8, <1>10, CopiesStep DEF DirectoryInv, Flushing, OthersKept
  <1> QED
    BY <1>6, <1>10, <1>12, <1>13, <1>14, <1>15, <1>16, <1>17, <1>18 DEF DirectoryInv, ListInv

LEMMA CleanInv == ASSUME DirectoryInv, NEW a \in Agents, Clean(a) PROVE DirectoryInv'
  <1>1. /\ TypeOK /\ row[a] = "deleted" /\ row' = [row EXCEPT ![a] = None]
        /\ UNCHANGED <<score, past, stub, ghosts, lost, online, cache, whole, marks, robbed,
                       pc, agent, asked, scores, data>>
    BY DEF DirectoryInv, Clean, listVars, lockVars, threadVars
  <1>2. /\ row' \in [Agents -> {None, "live", "deleted"}]
        /\ \A b \in Agents : (row'[b] = "live") <=> (row[b] = "live")
    BY <1>1 DEF TypeOK, None
  <1>3. TypeOK'
    BY <1>1, <1>2 DEF TypeOK
  <1>4. Listed' = Listed /\ Live' = Live
    BY <1>1, <1>2 DEF Listed, Live
  <1>5. AgentFits' /\ WholeFits' /\ FillFits' /\ AddFits'
    BY <1>1, <1>4 DEF DirectoryInv, ListInv, AgentFits, WholeFits, FillFits, AddFits, Deleting
  <1>6. DeletedFits'
    BY <1>1, <1>2 DEF DirectoryInv, ListInv, DeletedFits, AgentFits
  <1>7. EveryAgentIsListed'
    BY <1>1, <1>4 DEF DirectoryInv, ListInv, EveryAgentIsListed
  <1>8. ListedAgentsExist'
    BY <1>1, <1>2, <1>4 DEF DirectoryInv, ListInv, ListedAgentsExist, Listed
  <1>9. CopyInv'
    BY <1>1, <1>3, CopiesStep DEF DirectoryInv, Flushing
  <1> QED
    BY <1>3, <1>5, <1>6, <1>7, <1>8, <1>9 DEF DirectoryInv, ListInv

\* The cache requests.
LEMMA FlushAllInv == ASSUME DirectoryInv, FlushAllAgents PROVE DirectoryInv'
  <1>1. /\ TypeOK /\ whole = None /\ marks = {}
        /\ score' = NoScores /\ stub' = FALSE /\ ghosts' = {} /\ lost' = {} /\ Leave(Agents)
        /\ UNCHANGED <<row, online, cache, whole, marks, robbed, pc, agent, asked, scores, data>>
    BY DEF DirectoryInv, FlushAllAgents, NothingLocked, lockVars, threadVars
  <1>2. /\ score' \in [Agents -> Times] /\ Listed' = {}
        /\ \A a \in Agents : score'[a] = Never
    BY <1>1 DEF NoScores, Times, Listed
  <1>3. /\ past' \in [Agents -> SUBSET Seconds]
        /\ \A a \in Agents : Held(a)' => Left(a)
    BY <1>1, LeaveEffect
  <1>4. TypeOK'
    BY <1>1, <1>2, <1>3 DEF TypeOK
  <1>5. \A t \in Threads : pc[t] \notin {"fill", "add", "onlines"}
    BY <1>1, DirectoryAssumption DEF DirectoryInv, ListInv, WholeFits
  <1>6. AgentFits' /\ WholeFits' /\ FillFits' /\ AddFits' /\ DeletedFits'
    BY <1>1, <1>5
       DEF DirectoryInv, ListInv, AgentFits, WholeFits, FillFits, AddFits, DeletedFits, Deleting
  <1>7. EveryAgentIsListed' /\ ListedAgentsExist'
    BY <1>2 DEF EveryAgentIsListed, ListedAgentsExist
  <1>8. CopyInv'
    BY <1>1, <1>2, <1>3, <1>4, CopiesStep DEF DirectoryInv, Flushing
  <1> QED
    BY <1>4, <1>6, <1>7, <1>8 DEF DirectoryInv, ListInv

LEMMA FlushOnlinesInv == ASSUME DirectoryInv, NEW t \in Threads, FlushOnlines(t) PROVE DirectoryInv'
  <1> DEFINE here == {a \in Agents : online[a] # None}
  <1>1. /\ TypeOK /\ whole = None /\ marks = {} /\ whole' = t /\ Leave({})
        /\ Begin(t, "onlines", NoAgent) /\ asked' = [asked EXCEPT ![t] = here]
        /\ cache' = [a \in Agents |-> NoCopy] /\ here \in SUBSET Agents
        /\ UNCHANGED <<row, score, stub, ghosts, lost, online, marks, robbed, scores, data>>
    BY DEF DirectoryInv, FlushOnlines, LockAll, NothingLocked
  <1> HIDE DEF here
  <1>2. /\ pc' \in [Threads -> Places] /\ agent' \in [Threads -> Agents \cup {NoAgent}]
        /\ pc[t] = "idle" /\ pc'[t] = "onlines"
        /\ \A u \in Threads \ {t} : pc'[u] = pc[u] /\ agent'[u] = agent[u]
    BY <1>1, BeginEffect DEF Places
  <1>3. /\ asked' \in [Threads -> SUBSET Agents]
        /\ \A u \in Threads \ {t} : asked'[u] = asked[u]
        /\ cache' \in [Agents -> [base : Times, data : Metadata \cup {None}]]
        /\ \A a \in Agents : cache'[a] = NoCopy
    BY <1>1 DEF TypeOK, NoCopy, Times
  <1>4. /\ past' \in [Agents -> SUBSET Seconds]
        /\ \A a \in Agents : Held(a)' => past'[a] = past[a]
    BY <1>1, LeaveEffect
  <1>5. TypeOK'
    BY <1>1, <1>2, <1>3, <1>4 DEF TypeOK, Places
  <1>6. \A u \in Threads : pc[u] \notin {"fill", "add", "onlines"}
    BY <1>1, DirectoryAssumption DEF DirectoryInv, ListInv, WholeFits
  <1>7. AgentFits' /\ WholeFits'
    BY <1>1, <1>2, <1>6 DEF DirectoryInv, ListInv, AgentFits, WholeFits, Deleting
  <1>8. ListInv'
    BY <1>1, <1>2, <1>3, <1>7, ListKept DEF DirectoryInv
  <1>9. CopyInv'
    BY <1>1, <1>2, <1>3, <1>4, <1>5, CopiesStep DEF DirectoryInv, Flushing
  <1> QED
    BY <1>5, <1>8, <1>9 DEF DirectoryInv

LEMMA DeleteOnlinesInv == ASSUME DirectoryInv, NEW t \in Threads, DeleteOnlines(t) PROVE DirectoryInv'
  <1>1. /\ TypeOK /\ pc[t] = "onlines" /\ whole' = None /\ Done(t)
        /\ online' = [a \in Agents |-> IF a \in asked[t] THEN None ELSE online[a]]
        /\ UNCHANGED <<row, score, past, stub, ghosts, lost, cache, marks, robbed>>
    BY DEF DirectoryInv, DeleteOnlines, listVars, UnlockAll
  <1>2. CallsTyped /\ pc'[t] = "idle" /\ OthersKept(t)
    BY <1>1, DoneEffect
  <1>3. /\ online' \in [Agents -> Metadata \cup {None}]
        /\ \A a \in Agents : online'[a] \in {online[a], None}
    BY <1>1 DEF TypeOK
  <1>4. TypeOK'
    BY <1>1, <1>2, <1>3 DEF TypeOK, CallsTyped, Places
  <1>5. AgentFits' /\ WholeFits'
    BY <1>1, <1>2 DEF DirectoryInv, ListInv, AgentFits, WholeFits, OthersKept, Deleting
  <1>6. ListInv'
    BY <1>1, <1>2, <1>5, ListKept DEF DirectoryInv, OthersKept
  <1>7. CopyInv'
    BY <1>1, <1>2, <1>3, <1>4, CopiesStep DEF DirectoryInv, OthersKept, Flushing
  <1> QED
    BY <1>4, <1>6, <1>7 DEF DirectoryInv

LEMMA OnlineExpiresInv ==
    ASSUME DirectoryInv, NEW a \in Agents, OnlineExpires(a) PROVE DirectoryInv'
  <1>1. /\ TypeOK /\ online' = [online EXCEPT ![a] = None]
        /\ UNCHANGED <<row, score, past, stub, ghosts, lost, cache, whole, marks, robbed,
                       pc, agent, asked, scores, data>>
    BY DEF DirectoryInv, OnlineExpires, listVars, lockVars, threadVars
  <1>2. /\ online' \in [Agents -> Metadata \cup {None}]
        /\ \A b \in Agents : online'[b] \in {online[b], None}
    BY <1>1 DEF TypeOK
  <1>3. TypeOK'
    BY <1>1, <1>2 DEF TypeOK
  <1>4. AgentFits' /\ WholeFits'
    BY <1>1 DEF DirectoryInv, ListInv, AgentFits, WholeFits, Deleting
  <1>5. ListInv'
    BY <1>1, <1>4, ListKept DEF DirectoryInv
  <1>6. CopyInv'
    BY <1>1, <1>2, <1>3, CopiesStep DEF DirectoryInv, Flushing
  <1> QED
    BY <1>3, <1>5, <1>6 DEF DirectoryInv

\* Reports: the key first, the score then.
LEMMA ReportInv == ASSUME DirectoryInv, NEW t \in Threads, NEW a \in Agents, Report(t, a) PROVE DirectoryInv'
  <1>1. /\ TypeOK /\ Begin(t, "report", a)
        /\ UNCHANGED <<row, score, past, stub, ghosts, lost, online, cache, whole, marks, robbed,
                       asked, scores, data>>
    BY DEF DirectoryInv, Report, listVars, lockVars
  <1>2. /\ pc' \in [Threads -> Places] /\ agent' \in [Threads -> Agents \cup {NoAgent}]
        /\ pc[t] = "idle" /\ pc'[t] = "report" /\ agent'[t] = a
        /\ \A u \in Threads \ {t} : pc'[u] = pc[u] /\ agent'[u] = agent[u]
    BY <1>1, BeginEffect DEF Places
  <1>3. TypeOK'
    BY <1>1, <1>2 DEF TypeOK, Places
  <1>4. AgentFits'
    BY <1>1, <1>2 DEF DirectoryInv, ListInv, AgentFits
  <1>5. WholeFits'
    BY <1>1, <1>2, LocksKept DEF DirectoryInv, ListInv, Deleting
  <1>6. ListInv'
    BY <1>1, <1>2, <1>4, <1>5, ListKept DEF DirectoryInv
  <1>7. CopyInv'
    BY <1>1, <1>2, <1>3, CopiesStep DEF DirectoryInv, Flushing
  <1> QED
    BY <1>3, <1>6, <1>7 DEF DirectoryInv

LEMMA FlushReadsInv == ASSUME DirectoryInv, NEW t \in Threads, FlushReads(t) PROVE DirectoryInv'
  <1>1. /\ TypeOK /\ pc[t] = "report" /\ agent[t] \in Agents
        /\ UNCHANGED <<row, score, past, stub, ghosts, lost, online, cache, whole, marks, robbed>>
    BY DEF DirectoryInv, ListInv, AgentFits, FlushReads, listVars, lockVars
  <1>2. /\ CallsTyped /\ OthersKept(t)
        /\ pc'[t] \in {"idle", "set"} /\ (pc'[t] = "set" => agent'[t] \in Agents)
    <2>1. CASE Done(t)
      BY <1>1, <2>1, DoneEffect
    <2>2. CASE \E m \in Metadata \ {online[agent[t]]} :
                  /\ data' = [data EXCEPT ![t][agent[t]] = m]
                  /\ asked' = [asked EXCEPT ![t] = IF online[agent[t]] = None THEN {} ELSE {agent[t]}]
                  /\ Goto(t, "set") /\ UNCHANGED <<agent, scores>>
      <3>1. PICK m \in Metadata :
               /\ data' = [data EXCEPT ![t][agent[t]] = m]
               /\ asked' = [asked EXCEPT ![t] = IF online[agent[t]] = None THEN {} ELSE {agent[t]}]
               /\ Goto(t, "set") /\ UNCHANGED <<agent, scores>>
        BY <2>2
      <3>2. pc' \in [Threads -> Places] /\ pc'[t] = "set" /\ \A u \in Threads \ {t} : pc'[u] = pc[u]
        BY <1>1, <3>1 DEF TypeOK, Goto, Places
      <3>3. asked' \in [Threads -> SUBSET Agents] /\ \A u \in Threads \ {t} : asked'[u] = asked[u]
        BY <1>1, <3>1 DEF TypeOK
      <3>4. data' \in [Threads -> [Agents -> Metadata \cup {None}]]
            /\ \A u \in Threads \ {t} : data'[u] = data[u]
        BY <1>1, <3>1 DEF TypeOK
      <3> QED
        BY <1>1, <3>1, <3>2, <3>3, <3>4 DEF TypeOK, CallsTyped, OthersKept
    <2> QED
      BY <2>1, <2>2 DEF FlushReads
  <1>3. TypeOK'
    BY <1>1, <1>2 DEF TypeOK, CallsTyped, Places
  <1>4. AgentFits'
    BY <1>1, <1>2 DEF DirectoryInv, ListInv, AgentFits, OthersKept
  <1>5. WholeFits'
    BY <1>1, <1>2, LocksKept DEF DirectoryInv, ListInv, OthersKept, Deleting
  <1>6. ListInv'
    BY <1>1, <1>2, <1>4, <1>5, ListKept DEF DirectoryInv, OthersKept
  <1>7. CopyInv'
    BY <1>1, <1>2, <1>3, CopiesStep DEF DirectoryInv, OthersKept, Flushing
  <1> QED
    BY <1>3, <1>6, <1>7 DEF DirectoryInv

LEMMA FlushSetsInv == ASSUME DirectoryInv, NEW t \in Threads, FlushSets(t) PROVE DirectoryInv'
  <1> DEFINE a == agent[t]
  <1>1. /\ TypeOK /\ pc[t] = "set" /\ a \in Agents
        /\ UNCHANGED <<row, score, past, stub, ghosts, lost, cache, whole, marks, robbed>>
    BY DEF DirectoryInv, ListInv, AgentFits, FlushSets, listVars, lockVars
  <1>2. CASE Done(t) /\ UNCHANGED online
    <2>1. CallsTyped /\ pc'[t] = "idle" /\ OthersKept(t)
      BY <1>1, <1>2, DoneEffect
    <2>2. TypeOK'
      BY <1>1, <1>2, <2>1 DEF TypeOK, CallsTyped, Places
    <2>3. AgentFits'
      BY <2>1 DEF DirectoryInv, ListInv, AgentFits, OthersKept
    <2>4. WholeFits'
      BY <1>1, <2>1, LocksKept DEF DirectoryInv, ListInv, OthersKept, Deleting
    <2>5. ListInv'
      BY <1>1, <2>1, <2>3, <2>4, ListKept DEF DirectoryInv, OthersKept
    <2>6. CopyInv'
      BY <1>1, <1>2, <2>1, <2>2, CopiesStep DEF DirectoryInv, OthersKept, Flushing
    <2> QED
      BY <2>2, <2>5, <2>6 DEF DirectoryInv
  <1>3. CASE /\ online' = [online EXCEPT ![a] = data[t][a]]
             /\ Goto(t, "zadd") /\ UNCHANGED <<agent, asked, scores, data>>
    <2>1. /\ pc' \in [Threads -> Places] /\ pc'[t] = "zadd"
          /\ \A u \in Threads \ {t} : pc'[u] = pc[u]
      BY <1>1, <1>3 DEF TypeOK, Goto, Places
    <2> HIDE DEF a
    <2>2. /\ online' \in [Agents -> Metadata \cup {None}]
          /\ \A b \in Agents \ {a} : online'[b] = online[b]
      <3>1. data[t][a] \in Metadata \cup {None}
        BY <1>1 DEF TypeOK
      <3> QED
        BY <1>1, <1>3, <3>1 DEF TypeOK
    <2>3. TypeOK'
      BY <1>1, <1>3, <2>1, <2>2 DEF TypeOK, Places
    <2>4. AgentFits'
      BY <1>1, <1>3, <2>1 DEF DirectoryInv, ListInv, AgentFits, a
    <2>5. WholeFits'
      BY <1>1, <1>3, <2>1, LocksKept DEF DirectoryInv, ListInv, Deleting
    <2>6. ListInv'
      BY <1>1, <1>3, <2>1, <2>4, <2>5, ListKept DEF DirectoryInv
    <2>7. pc'[t] = "zadd" /\ agent'[t] = a
      BY <1>3, <2>1 DEF a
    <2>8. \A b \in Agents : /\ online'[b] \in {online[b], None} \/ Flushing(b)'
                            /\ Flushing(b) => Flushing(b)'
      BY <1>3, <2>1, <2>2, <2>7 DEF Flushing
    <2>9. CopyInv'
      BY <1>1, <1>3, <2>1, <2>3, <2>8, CopiesStep DEF DirectoryInv
    <2> QED
      BY <2>3, <2>6, <2>9 DEF DirectoryInv
  <1> QED
    BY <1>2, <1>3 DEF FlushSets

LEMMA FlushScoresInv == ASSUME DirectoryInv, NEW t \in Threads, FlushScores(t) PROVE DirectoryInv'
  <1> DEFINE a == agent[t]
  <1>1. /\ TypeOK /\ pc[t] = "zadd" /\ a \in Agents /\ ZAdd({a}) /\ Done(t) /\ Leave({a})
        /\ stub' = (stub \/ (Listed = {} /\ Live \ {a} # {}))
        /\ ghosts' = IF row[a] = "live" THEN ghosts ELSE ghosts \cup {a}
        /\ UNCHANGED <<row, online, cache, whole, marks, robbed>>
    BY DEF DirectoryInv, ListInv, AgentFits, FlushScores, lockVars
  <1>2. CallsTyped /\ pc'[t] = "idle" /\ OthersKept(t)
    BY <1>1, DoneEffect
  <1>3. \A b \in Agents : b # a /\ Flushing(b) => Flushing(b)'
    BY <1>2 DEF Flushing, OthersKept
  <1> HIDE DEF a
  <1>5. /\ score' \in [Agents -> Times] /\ lost' = lost \ {a} /\ lost' \subseteq Agents
        /\ score'[a] # Never
        /\ \A b \in Agents \ {a} : score'[b] = score[b]
        /\ Listed' = Listed \cup {a}
    BY <1>1, ZAddEffect
  <1>6. /\ past' \in [Agents -> SUBSET Seconds]
        /\ \A b \in Agents : Held(b)' =>
              (b \in {a} => Left(b)) /\ (b \notin {a} => past'[b] = past[b])
    BY <1>1, LeaveEffect
  <1>7. stub' \in BOOLEAN /\ ghosts' \subseteq Agents /\ ghosts \subseteq ghosts'
    BY <1>1 DEF TypeOK
  <1>8. TypeOK'
    BY <1>1, <1>2, <1>5, <1>6, <1>7 DEF TypeOK, CallsTyped, Places
  <1>9. Live' = Live
    BY <1>1 DEF Live
  <1>10. AgentFits'
    BY <1>2 DEF DirectoryInv, ListInv, AgentFits, OthersKept
  <1>11. WholeFits'
    BY <1>1, <1>2, LocksKept DEF DirectoryInv, ListInv, OthersKept, Deleting
  <1>12. FillFits'
    <2> SUFFICES ASSUME NEW u \in Threads, pc'[u] = "fill"
                 PROVE  /\ Live \subseteq asked'[u]
                        /\ \A b \in asked'[u] \ Live :
                              b \in ghosts' \/ \E v \in Threads : pc'[v] = "deleted" /\ agent'[v] = b
      BY <1>9 DEF FillFits
    <2>1. pc[u] = "fill" /\ asked'[u] = asked[u]
      BY <1>2 DEF OthersKept
    <2>2. /\ Live \subseteq asked[u]
          /\ \A b \in asked[u] \ Live :
                b \in ghosts \/ \E v \in Threads : pc[v] = "deleted" /\ agent[v] = b
      BY <2>1 DEF DirectoryInv, ListInv, FillFits
    <2>3. \A v \in Threads : pc[v] = "deleted" => pc'[v] = "deleted" /\ agent'[v] = agent[v]
      BY <1>1, <1>2 DEF OthersKept
    <2> QED
      BY <1>7, <2>1, <2>2, <2>3
  <1>13. AddFits'
    <2> SUFFICES ASSUME NEW u \in Threads, pc'[u] = "add"
                 PROVE  score'[agent'[u]] # Never \/ agent'[u] \in lost'
      BY DEF AddFits
    <2>1. pc[u] = "add" /\ agent'[u] = agent[u]
      BY <1>2 DEF OthersKept
    <2>2. agent[u] \in Agents /\ (score[agent[u]] # Never \/ agent[u] \in lost)
      BY <2>1 DEF DirectoryInv, ListInv, AddFits, AgentFits
    <2> QED
      BY <1>5, <2>1, <2>2
  <1>14. DeletedFits'
    BY <1>1, <1>2 DEF DirectoryInv, ListInv, DeletedFits, OthersKept
  <1>15. EveryAgentIsListed'
    <2> SUFFICES ASSUME ~ stub' PROVE Live \ lost' \subseteq Listed'
      BY <1>9 DEF EveryAgentIsListed
    <2>1. CASE Listed = {}
      BY <1>1, <1>5, <2>1
    <2>2. CASE Listed # {}
      <3>1. Live \ lost \subseteq Listed
        BY <1>1, <2>2 DEF DirectoryInv, ListInv, EveryAgentIsListed
      <3> QED
        BY <1>5, <3>1
    <2> QED
      BY <2>1, <2>2
  <1>16. ListedAgentsExist'
    <2> SUFFICES ASSUME NEW b \in Listed', b \notin ghosts'
                 PROVE  row[b] = "live" \/ \E u \in Threads : pc'[u] \in {"add", "deleted"} /\ agent'[u] = b
      BY <1>1 DEF ListedAgentsExist
    <2>1. CASE b = a
      BY <1>1, <2>1
    <2>2. CASE b # a
      <3>1. row[b] = "live" \/ \E u \in Threads : pc[u] \in {"add", "deleted"} /\ agent[u] = b
        BY <1>5, <1>7, <2>2 DEF DirectoryInv, ListInv, ListedAgentsExist
      <3> QED
        BY <1>1, <1>2, <3>1 DEF OthersKept
    <2> QED
      BY <2>1, <2>2
  <1>17. CopyInv'
    BY <1>1, <1>2, <1>3, <1>5, <1>6, <1>8, CopiesStep DEF DirectoryInv, OthersKept
  <1> QED
    BY <1>8, <1>10, <1>11, <1>12, <1>13, <1>14, <1>15, <1>16, <1>17 DEF DirectoryInv, ListInv

LEMMA FlushFailsInv == ASSUME DirectoryInv, NEW t \in Threads, FlushFails(t) PROVE DirectoryInv'
  <1> DEFINE a == agent[t]
  <1>1. /\ TypeOK /\ pc[t] = "zadd" /\ a \in Agents /\ Done(t) /\ Leave({a})
        /\ UNCHANGED <<row, score, stub, ghosts, lost, online, cache, whole, marks, robbed>>
    BY DEF DirectoryInv, ListInv, AgentFits, FlushFails, lockVars
  <1>2. CallsTyped /\ pc'[t] = "idle" /\ OthersKept(t)
    BY <1>1, DoneEffect
  <1>3. \A b \in Agents : b # a /\ Flushing(b) => Flushing(b)'
    BY <1>2 DEF Flushing, OthersKept
  <1> HIDE DEF a
  <1>4. /\ past' \in [Agents -> SUBSET Seconds]
        /\ \A b \in Agents : Held(b)' =>
              (b \in {a} => Left(b)) /\ (b \notin {a} => past'[b] = past[b])
    BY <1>1, LeaveEffect
  <1>5. TypeOK'
    BY <1>1, <1>2, <1>4 DEF TypeOK, CallsTyped, Places
  <1>6. AgentFits'
    BY <1>2 DEF DirectoryInv, ListInv, AgentFits, OthersKept
  <1>7. WholeFits'
    BY <1>1, <1>2, LocksKept DEF DirectoryInv, ListInv, OthersKept, Deleting
  <1>8. ListInv'
    BY <1>1, <1>2, <1>6, <1>7, ListKept DEF DirectoryInv, OthersKept
  <1>9. CopyInv'
    BY <1>1, <1>2, <1>3, <1>4, <1>5, CopiesStep DEF DirectoryInv, OthersKept
  <1> QED
    BY <1>5, <1>8, <1>9 DEF DirectoryInv

-----------------------------------------------------------------------------
\* agents_metadata.
LEMMA MetadataReadsInv ==
    ASSUME DirectoryInv, NEW t \in Threads, MetadataReads(t) PROVE DirectoryInv'
  <1>1. /\ TypeOK /\ pc[t] = "idle" /\ Leave({})
        /\ UNCHANGED <<row, score, stub, ghosts, lost, online, whole, marks, robbed>>
    BY DEF DirectoryInv, MetadataReads, lockVars
  <1>2. PICK agents \in SUBSET Listed, young \in SUBSET Agents :
           /\ cache' = [a \in Agents |-> IF a \in agents THEN cache[a] ELSE NoCopy]
           /\ \/ agents = young /\ UNCHANGED threadVars
              \/ /\ agents # young /\ Goto(t, "get")
                 /\ asked' = [asked EXCEPT ![t] = agents \ young]
                 /\ scores' = [scores EXCEPT ![t] = [a \in Agents |->
                                  IF a \in agents \ young THEN score[a] ELSE Never]]
                 /\ UNCHANGED <<agent, data>>
    <2>1. PICK agents \in SUBSET Listed :
             LET cached == {a \in agents : cache[a] # NoCopy}
                 current == {a \in cached : cache[a].base = score[a]}
             IN
             /\ cache' = [a \in Agents |-> IF a \in agents THEN cache[a] ELSE NoCopy]
             /\ \E young \in SUBSET current :
                   \/ agents = young /\ UNCHANGED threadVars
                   \/ /\ agents # young /\ Goto(t, "get")
                      /\ asked' = [asked EXCEPT ![t] = agents \ young]
                      /\ scores' = [scores EXCEPT ![t] = [a \in Agents |->
                                       IF a \in agents \ young THEN score[a] ELSE Never]]
                      /\ UNCHANGED <<agent, data>>
      BY DEF MetadataReads
    <2> DEFINE current == {a \in {b \in agents : cache[b] # NoCopy} : cache[a].base = score[a]}
    <2>2. PICK young \in SUBSET current :
             \/ agents = young /\ UNCHANGED threadVars
             \/ /\ agents # young /\ Goto(t, "get")
                /\ asked' = [asked EXCEPT ![t] = agents \ young]
                /\ scores' = [scores EXCEPT ![t] = [a \in Agents |->
                                 IF a \in agents \ young THEN score[a] ELSE Never]]
                /\ UNCHANGED <<agent, data>>
      BY <2>1
    <2>3. young \in SUBSET Agents
      BY DEF Listed
    <2> HIDE DEF current
    <2> QED
      BY <2>1, <2>2, <2>3
  <1>3. /\ cache' \in [Agents -> [base : Times, data : Metadata \cup {None}]]
        /\ \A a \in Agents : cache'[a] \in {cache[a], NoCopy}
    BY <1>1, <1>2 DEF TypeOK, NoCopy, Times
  <1>4. /\ past' \in [Agents -> SUBSET Seconds]
        /\ \A a \in Agents : Held(a)' => past'[a] = past[a]
    BY <1>1, LeaveEffect
  <1>5. CASE agents = young /\ UNCHANGED threadVars
    <2>1. UNCHANGED <<pc, agent, asked, scores, data>>
      BY <1>5 DEF threadVars
    <2>2. TypeOK'
      BY <1>1, <1>3, <1>4, <2>1 DEF TypeOK
    <2>3. AgentFits' /\ WholeFits'
      BY <1>1, <2>1 DEF DirectoryInv, ListInv, AgentFits, WholeFits, Deleting
    <2>4. ListInv'
      BY <1>1, <2>1, <2>3, ListKept DEF DirectoryInv
    <2>5. CopyInv'
      BY <1>1, <1>3, <1>4, <2>1, <2>2, CopiesStep DEF DirectoryInv, Flushing
    <2> QED
      BY <2>2, <2>4, <2>5 DEF DirectoryInv
  <1>6. CASE /\ agents # young /\ Goto(t, "get")
             /\ asked' = [asked EXCEPT ![t] = agents \ young]
             /\ scores' = [scores EXCEPT ![t] = [a \in Agents |->
                              IF a \in agents \ young THEN score[a] ELSE Never]]
             /\ UNCHANGED <<agent, data>>
    <2>1. /\ pc' \in [Threads -> Places] /\ pc'[t] = "get"
          /\ \A u \in Threads \ {t} : pc'[u] = pc[u]
      BY <1>1, <1>6 DEF TypeOK, Goto, Places
    <2>2. /\ asked' \in [Threads -> SUBSET Agents] /\ asked'[t] = agents \ young
          /\ \A u \in Threads \ {t} : asked'[u] = asked[u]
      BY <1>1, <1>6 DEF TypeOK, Listed
    <2>3. [a \in Agents |-> IF a \in agents \ young THEN score[a] ELSE Never] \in [Agents -> Times]
      BY <1>1 DEF TypeOK, Times
    <2>4. /\ scores' \in [Threads -> [Agents -> Times]]
          /\ \A a \in Agents : scores'[t][a] = IF a \in agents \ young THEN score[a] ELSE Never
          /\ \A u \in Threads \ {t} : scores'[u] = scores[u]
      BY <1>1, <1>6, <2>3 DEF TypeOK
    <2>5. TypeOK'
      BY <1>1, <1>3, <1>4, <1>6, <2>1, <2>2, <2>4 DEF TypeOK, Places
    <2>6. AgentFits'
      BY <1>1, <1>6, <2>1 DEF DirectoryInv, ListInv, AgentFits
    <2>7. WholeFits'
      BY <1>1, <1>6, <2>1, LocksKept DEF DirectoryInv, ListInv, Deleting
    <2>8. ListInv'
      BY <1>1, <1>6, <2>1, <2>2, <2>6, <2>7, ListKept DEF DirectoryInv
    <2>9. ScoresKnown'
      <3>1. \A a \in Agents : cache'[a] # NoCopy =>
               cache'[a].base # Never /\ cache'[a].base \in past'[a] \cup {score'[a]}
        <4> SUFFICES ASSUME NEW a \in Agents, cache'[a] # NoCopy
                     PROVE  cache'[a].base # Never /\ cache'[a].base \in past'[a] \cup {score'[a]}
          OBVIOUS
        <4>1. cache'[a] = cache[a] /\ past'[a] = past[a]
          BY <1>3, <1>4 DEF Held
        <4> QED
          BY <1>1, <4>1 DEF DirectoryInv, CopyInv, ScoresKnown
      <3>2. ASSUME NEW u \in Threads, pc'[u] \in {"get", "store"}, NEW a \in asked'[u]
            PROVE  scores'[u][a] # Never /\ scores'[u][a] \in past'[a] \cup {score'[a]}
        <4>1. a \in Agents
          BY <3>2, <2>2
        <4>2. CASE u = t
          BY <1>1, <2>2, <2>4, <3>2, <4>1, <4>2 DEF Listed
        <4>3. CASE u # t
          <5>1. pc[u] \in {"get", "store"} /\ a \in asked[u] /\ scores'[u] = scores[u]
            BY <2>1, <2>2, <2>4, <3>2, <4>3
          <5>2. past'[a] = past[a]
            BY <1>4, <3>2, <4>1 DEF Held
          <5> QED
            BY <1>1, <5>1, <5>2 DEF DirectoryInv, CopyInv, ScoresKnown
        <4> QED
          BY <4>2, <4>3
      <3> QED
        BY <3>1, <3>2 DEF ScoresKnown
    <2>10. \A a : Flushing(a)' <=> Flushing(a)
      BY <1>1, <1>6, <2>1 DEF Flushing
    <2>11. ReadsAreCurrent'
      <3> SUFFICES ASSUME NEW u \in Threads, pc'[u] = "store", NEW a \in asked'[u],
                          data'[u][a] # None, scores'[u][a] = score'[a], score'[a] \notin past'[a],
                          online'[a] # None, ~ Flushing(a)'
                   PROVE  data'[u][a] = online'[a]
        BY DEF ReadsAreCurrent
      <3>1. /\ pc[u] = "store" /\ a \in asked[u] /\ scores'[u] = scores[u] /\ data'[u] = data[u]
            /\ a \in Agents
        BY <1>6, <2>1, <2>2, <2>4
      <3>2. past'[a] = past[a] /\ ~ Flushing(a)
        BY <1>4, <2>10, <3>1 DEF Held
      <3> QED
        BY <1>1, <3>1, <3>2 DEF DirectoryInv, CopyInv, ReadsAreCurrent
    <2>12. TrustedCopiesAreCurrent'
      <3> SUFFICES ASSUME NEW a \in Agents, cache'[a] # NoCopy, cache'[a].base = score'[a],
                          score'[a] \notin past'[a], online'[a] # None, ~ Flushing(a)'
                   PROVE  cache'[a].data = online'[a]
        BY DEF TrustedCopiesAreCurrent, Flushing
      <3>1. cache'[a] = cache[a] /\ past'[a] = past[a] /\ ~ Flushing(a)
        BY <1>3, <1>4, <2>10 DEF Held
      <3> QED
        BY <1>1, <3>1 DEF DirectoryInv, CopyInv, TrustedCopiesAreCurrent, Flushing
    <2> QED
      BY <2>5, <2>8, <2>9, <2>11, <2>12 DEF DirectoryInv, CopyInv
  <1> QED
    BY <1>2, <1>5, <1>6

LEMMA MetadataGetsInv ==
    ASSUME DirectoryInv, NEW t \in Threads, MetadataGets(t) PROVE DirectoryInv'
  <1>1. /\ TypeOK /\ pc[t] = "get" /\ pc' = [pc EXCEPT ![t] = "store"]
        /\ data' = [data EXCEPT ![t] = [a \in Agents |-> IF a \in asked[t] THEN online[a] ELSE None]]
        /\ UNCHANGED <<row, score, past, stub, ghosts, lost, online, cache, whole, marks, robbed,
                       agent, asked, scores>>
    BY DEF DirectoryInv, MetadataGets, Goto, listVars, lockVars
  <1>2. /\ pc' \in [Threads -> Places] /\ pc'[t] = "store"
        /\ \A u \in Threads \ {t} : pc'[u] = pc[u]
    BY <1>1 DEF TypeOK, Places
  <1>3. [a \in Agents |-> IF a \in asked[t] THEN online[a] ELSE None]
            \in [Agents -> Metadata \cup {None}]
    BY <1>1 DEF TypeOK
  <1>4. /\ data' \in [Threads -> [Agents -> Metadata \cup {None}]]
        /\ \A a \in asked[t] : data'[t][a] = online[a]
        /\ \A u \in Threads \ {t} : data'[u] = data[u]
    BY <1>1, <1>3 DEF TypeOK
  <1>5. TypeOK'
    BY <1>1, <1>2, <1>4 DEF TypeOK, Places
  <1>6. AgentFits'
    BY <1>1, <1>2 DEF DirectoryInv, ListInv, AgentFits
  <1>7. WholeFits'
    BY <1>1, <1>2, LocksKept DEF DirectoryInv, ListInv, Deleting
  <1>8. ListInv'
    BY <1>1, <1>2, <1>6, <1>7, ListKept DEF DirectoryInv
  <1>9. ScoresKnown'
    BY <1>1, <1>2 DEF DirectoryInv, CopyInv, ScoresKnown
  <1>10. \A a : Flushing(a)' <=> Flushing(a)
    BY <1>1, <1>2 DEF Flushing
  <1>11. ReadsAreCurrent'
    BY <1>1, <1>2, <1>4, <1>10 DEF DirectoryInv, CopyInv, ReadsAreCurrent
  <1>12. TrustedCopiesAreCurrent'
    BY <1>1, <1>10 DEF DirectoryInv, CopyInv, TrustedCopiesAreCurrent, Flushing
  <1> QED
    BY <1>5, <1>8, <1>9, <1>11, <1>12 DEF DirectoryInv, CopyInv

LEMMA MetadataStoresInv ==
    ASSUME DirectoryInv, NEW t \in Threads, MetadataStores(t) PROVE DirectoryInv'
  <1>1. /\ TypeOK /\ pc[t] = "store" /\ Done(t) /\ Leave({})
        /\ cache' = [a \in Agents |->
                        IF a \notin asked[t] THEN cache[a]
                        ELSE IF data[t][a] = None THEN NoCopy ELSE Copy(t, a)]
        /\ UNCHANGED <<row, score, stub, ghosts, lost, online, whole, marks, robbed>>
    BY DEF DirectoryInv, MetadataStores, lockVars
  <1>2. CallsTyped /\ pc'[t] = "idle" /\ OthersKept(t)
    BY <1>1, DoneEffect
  <1>3. \A a \in Agents :
           /\ Copy(t, a) \in [base : Times, data : Metadata \cup {None}]
           /\ Copy(t, a).base = scores[t][a] /\ Copy(t, a).data = data[t][a]
    BY <1>1 DEF TypeOK, Copy
  <1>4. /\ cache' \in [Agents -> [base : Times, data : Metadata \cup {None}]]
        /\ \A a \in Agents : \/ cache'[a] \in {cache[a], NoCopy}
                             \/ a \in asked[t] /\ data[t][a] # None /\ cache'[a] = Copy(t, a)
    BY <1>1, <1>3 DEF TypeOK, NoCopy, Times
  <1>5. /\ past' \in [Agents -> SUBSET Seconds]
        /\ \A a \in Agents : Held(a)' => past'[a] = past[a]
    BY <1>1, LeaveEffect
  <1>6. TypeOK'
    BY <1>1, <1>2, <1>4, <1>5 DEF TypeOK, CallsTyped, Places
  <1>7. AgentFits'
    BY <1>2 DEF DirectoryInv, ListInv, AgentFits, OthersKept
  <1>8. WholeFits'
    BY <1>1, <1>2, LocksKept DEF DirectoryInv, ListInv, OthersKept, Deleting
  <1>9. ListInv'
    BY <1>1, <1>2, <1>7, <1>8, ListKept DEF DirectoryInv, OthersKept
  <1>10. \A a \in Agents : cache'[a] # NoCopy => past'[a] = past[a]
    BY <1>5 DEF Held
  <1>11. ASSUME NEW u \in Threads, pc'[u] \in {"get", "store"}, NEW a \in asked'[u]
         PROVE  /\ pc[u] = pc'[u] /\ a \in asked[u] /\ a \in Agents
                /\ scores'[u] = scores[u] /\ data'[u] = data[u] /\ past'[a] = past[a]
    <2>1. /\ pc[u] = pc'[u] /\ a \in asked[u] /\ scores'[u] = scores[u] /\ data'[u] = data[u]
      BY <1>2, <1>11 DEF OthersKept
    <2>2. a \in Agents
      BY <1>1, <2>1 DEF TypeOK
    <2> QED
      BY <1>5, <1>11, <2>1, <2>2 DEF Held
  <1>12. ScoresKnown'
    <2>1. ASSUME NEW a \in Agents, cache'[a] # NoCopy
          PROVE  cache'[a].base # Never /\ cache'[a].base \in past'[a] \cup {score'[a]}
      <3>1. CASE cache'[a] = cache[a]
        BY <1>1, <1>10, <2>1, <3>1 DEF DirectoryInv, CopyInv, ScoresKnown
      <3>2. CASE a \in asked[t] /\ cache'[a] = Copy(t, a)
        BY <1>1, <1>3, <1>10, <2>1, <3>2 DEF DirectoryInv, CopyInv, ScoresKnown
      <3> QED
        BY <1>4, <2>1, <3>1, <3>2
    <2>2. ASSUME NEW u \in Threads, pc'[u] \in {"get", "store"}, NEW a \in asked'[u]
          PROVE  scores'[u][a] # Never /\ scores'[u][a] \in past'[a] \cup {score'[a]}
      BY <1>1, <1>11, <2>2 DEF DirectoryInv, CopyInv, ScoresKnown
    <2> QED
      BY <2>1, <2>2 DEF ScoresKnown
  <1>13. \A a : Flushing(a)' <=> Flushing(a)
    BY <1>1, <1>2 DEF Flushing, OthersKept
  <1>14. ReadsAreCurrent'
    <2> SUFFICES ASSUME NEW u \in Threads, pc'[u] = "store", NEW a \in asked'[u],
                        data'[u][a] # None, scores'[u][a] = score'[a], score'[a] \notin past'[a],
                        online'[a] # None, ~ Flushing(a)'
                 PROVE  data'[u][a] = online'[a]
      BY DEF ReadsAreCurrent
    <2>1. /\ pc[u] = "store" /\ a \in asked[u] /\ a \in Agents
          /\ scores'[u] = scores[u] /\ data'[u] = data[u] /\ past'[a] = past[a] /\ ~ Flushing(a)
      BY <1>11, <1>13
    <2> QED
      BY <1>1, <2>1 DEF DirectoryInv, CopyInv, ReadsAreCurrent
  <1>15. TrustedCopiesAreCurrent'
    <2> SUFFICES ASSUME NEW a \in Agents, cache'[a] # NoCopy, cache'[a].base = score'[a],
                        score'[a] \notin past'[a], online'[a] # None, ~ Flushing(a)'
                 PROVE  cache'[a].data = online'[a]
      BY DEF TrustedCopiesAreCurrent, Flushing
    <2>1. /\ score'[a] = score[a] /\ online'[a] = online[a] /\ ~ Flushing(a)
          /\ past'[a] = past[a]
      BY <1>1, <1>10, <1>13
    <2>2. CASE cache'[a] = cache[a]
      BY <2>1, <2>2 DEF DirectoryInv, CopyInv, TrustedCopiesAreCurrent, Flushing
    <2>3. CASE a \in asked[t] /\ data[t][a] # None /\ cache'[a] = Copy(t, a)
      BY <1>1, <1>3, <2>1, <2>3 DEF DirectoryInv, CopyInv, ReadsAreCurrent
    <2> QED
      BY <1>4, <2>2, <2>3
  <1> QED
    BY <1>6, <1>9, <1>12, <1>14, <1>15 DEF DirectoryInv, CopyInv

-----------------------------------------------------------------------------
LEMMA StutterInv == ASSUME DirectoryInv, UNCHANGED vars PROVE DirectoryInv'
  <1>1. /\ TypeOK
        /\ UNCHANGED <<row, score, past, stub, ghosts, lost, online, cache, whole, marks, robbed,
                       pc, agent, asked, scores, data>>
    BY DEF DirectoryInv, vars, listVars, lockVars, threadVars
  <1>2. TypeOK'
    BY <1>1 DEF TypeOK
  <1>3. AgentFits' /\ WholeFits'
    BY <1>1 DEF DirectoryInv, ListInv, AgentFits, WholeFits, Deleting
  <1>4. ListInv'
    BY <1>1, <1>3, ListKept DEF DirectoryInv
  <1>5. CopyInv'
    BY <1>1, <1>2, CopiesStep DEF DirectoryInv, Flushing
  <1> QED
    BY <1>2, <1>4, <1>5 DEF DirectoryInv

LEMMA StepInv == ASSUME DirectoryInv, [Next]_vars PROVE DirectoryInv'
  <1>1. ASSUME NEW t \in Threads, LockAgents(t) \/ UnlockAgents(t)
        PROVE  DirectoryInv'
    BY <1>1, LockAgentsInv, UnlockAgentsInv
  <1>2. ASSUME NEW t \in Threads,
               \/ FillReads(t) \/ FillWrites(t) \/ AddWrites(t) \/ AddCommits(t) \/ AddFails(t)
        PROVE  DirectoryInv'
    BY <1>2, FillReadsInv, FillWritesInv, AddWritesInv, AddEndsInv
  <1>3. ASSUME NEW t \in Threads,
               DeleteFinds(t) \/ DeleteCommits(t) \/ DeleteFails(t) \/ DeleteEnds(t)
        PROVE  DirectoryInv'
    BY <1>3, DeleteFindsInv, DeleteCommitsInv, UnlockAgentsInv, DeleteEndsInv
  <1>4. ASSUME NEW t \in Threads, FlushOnlines(t) \/ DeleteOnlines(t)
        PROVE  DirectoryInv'
    BY <1>4, FlushOnlinesInv, DeleteOnlinesInv
  <1>5. ASSUME NEW t \in Threads, FlushReads(t) \/ FlushSets(t) \/ FlushScores(t) \/ FlushFails(t)
        PROVE  DirectoryInv'
    BY <1>5, FlushReadsInv, FlushSetsInv, FlushScoresInv, FlushFailsInv
  <1>6. ASSUME NEW t \in Threads, MetadataReads(t) \/ MetadataGets(t) \/ MetadataStores(t)
        PROVE  DirectoryInv'
    BY <1>6, MetadataReadsInv, MetadataGetsInv, MetadataStoresInv
  <1>7. ASSUME NEW t \in Threads, NEW a \in Agents, DeleteLocks(t, a) \/ Report(t, a) \/ Online(t, a)
        PROVE  DirectoryInv'
    BY <1>7, DeleteLocksInv, ReportInv DEF Online
  <1>8. ASSUME NEW a \in Agents, Clean(a) \/ OnlineExpires(a) PROVE DirectoryInv'
    BY <1>8, CleanInv, OnlineExpiresInv
  <1>9. CASE AddRefused \/ FlushAllAgents
    BY <1>9, AddRefusedInv, FlushAllInv
  <1>10. CASE UNCHANGED vars
    BY <1>10, StutterInv
  <1> QED
    BY <1>1, <1>2, <1>3, <1>4, <1>5, <1>6, <1>7, <1>8, <1>9, <1>10 DEF Next

LEMMA AlwaysDirectoryInv == Spec => []DirectoryInv
  <1>1. Init => DirectoryInv
    BY InitInv
  <1>2. DirectoryInv /\ [Next]_vars => DirectoryInv'
    BY StepInv
  <1> QED
    BY <1>1, <1>2, PTL DEF Spec

\* The rows, the set, the keys, the locks and the copies keep their types (TypeOK).
THEOREM TypeCorrect == Spec => []TypeOK
  <1>1. DirectoryInv => TypeOK
    BY DEF DirectoryInv
  <1> QED
    BY <1>1, AlwaysDirectoryInv, PTL

\* No live agent is missing from a set that was not begun with one id, but for those that
\* a robbed deletion took (EveryAgentIsListed).
THEOREM EveryAgentIsListedHolds == Spec => []EveryAgentIsListed
  <1>1. DirectoryInv => EveryAgentIsListed
    BY DEF DirectoryInv, ListInv
  <1> QED
    BY <1>1, AlwaysDirectoryInv, PTL

\* Nobody is in the set without a row, or a reason (ListedAgentsExist).
THEOREM ListedAgentsExistHolds == Spec => []ListedAgentsExist
  <1>1. DirectoryInv => ListedAgentsExist
    BY DEF DirectoryInv, ListInv
  <1> QED
    BY <1>1, AlwaysDirectoryInv, PTL

\* A copy trusted for a score that did not come again is what the key holds
\* (TrustedCopiesAreCurrent).
THEOREM TrustedCopiesAreCurrentHolds == Spec => []TrustedCopiesAreCurrent
  <1>1. DirectoryInv => TrustedCopiesAreCurrent
    BY DEF DirectoryInv, CopyInv
  <1> QED
    BY <1>1, AlwaysDirectoryInv, PTL
=============================================================================
