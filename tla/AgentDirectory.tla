--------------------------- MODULE AgentDirectory ---------------------------
(***************************************************************************)
(* Which agents there are, and which are online.  The rows are in the      *)
(* database.  Redis keeps a sorted set of the ids, whose scores say when   *)
(* an agent's metadata last changed, and for each online agent a key with  *)
(* its metadata.  A gcenter process (GlobalData) keeps a copy of metadata, *)
(* which it trusts as long as the score is the one it has read with it.    *)
(*                                                                         *)
(* Adding an agent, filling the set from the database and emptying it take *)
(* the lock of all agents; deleting an agent, and other requests about it, *)
(* take the lock of its id; the reports of agents write the set and the    *)
(* keys and take no lock.  Any number of requests may hold the lock of one *)
(* id: it is one mark for all of them, and the first release removes it.   *)
(*                                                                         *)
(* The scores are seconds of the hosts' clocks, which may repeat.          *)
(***************************************************************************)
EXTENDS Naturals, FiniteSetsExt

None == "none"
NoAgent == 0
Never == 0

CONSTANTS
    Threads,    \* green threads of one gcenter process
    Agents,     \* ids an agent may get
    Reporters,  \* those whose agents run at all, and report
    Metadata,   \* what an agent may say of itself
    Seconds     \* what a host's clock may show when the set is written

ASSUME DirectoryAssumption ==
    /\ Agents \subseteq Nat \ {0} /\ Never \notin Seconds
    /\ None \notin Metadata \cup Threads

VARIABLES
    row,      \* the agents' rows
    score,    \* the sorted set: the second of each id, or Never when it is not in it
    past,     \* the scores an id has left, since the oldest that somebody still holds
    online,   \* the metadata keys
    cache,    \* the process's copies, with the score each was read under
    whole,    \* the thread that holds the lock of all agents
    marks,    \* the ids that are locked
    robbed,   \* the deletions under way whose mark the release of another removed
    pc, agent,  \* where each thread is, and the agent it works for
    asked,    \* the agents a thread asks about, or has read
    scores,   \* the scores it has read
    data,     \* the metadata it has read, or is to write
    stub,     \* the set was begun with the id of one agent, while there were others
    ghosts,   \* ids written without a row, or whose row was not committed
    lost      \* ids that a robbed deletion took from the set

lockVars == <<whole, marks, robbed>>
listVars == <<score, past, stub, ghosts, lost>>
threadVars == <<pc, agent, asked, scores, data>>
vars == <<row, listVars, online, cache, lockVars, threadVars>>

Times == Seconds \cup {Never}
NoCopy == [base |-> Never, data |-> None]
NoScores == [a \in Agents |-> Never]
NoData == [a \in Agents |-> None]

TypeOK ==
    /\ row \in [Agents -> {None, "live", "deleted"}]
    /\ score \in [Agents -> Times] /\ past \in [Agents -> SUBSET Seconds]
    /\ online \in [Agents -> Metadata \cup {None}]
    /\ cache \in [Agents -> [base : Times, data : Metadata \cup {None}]]
    /\ whole \in Threads \cup {None} /\ marks \subseteq Agents /\ robbed \subseteq Threads
    /\ pc \in [Threads -> {"idle", "fill", "add", "hold", "locked", "found", "deleted",
                           "onlines", "report", "set", "zadd", "get", "store"}]
    /\ agent \in [Threads -> Agents \cup {NoAgent}]
    /\ asked \in [Threads -> SUBSET Agents]
    /\ scores \in [Threads -> [Agents -> Times]]
    /\ data \in [Threads -> [Agents -> Metadata \cup {None}]]
    /\ stub \in BOOLEAN /\ ghosts \subseteq Agents /\ lost \subseteq Agents

Init ==
    /\ row = [a \in Agents |-> None]
    /\ score = NoScores /\ past = [a \in Agents |-> {}]
    /\ online = NoData /\ cache = [a \in Agents |-> NoCopy]
    /\ whole = None /\ marks = {} /\ robbed = {}
    /\ pc = [t \in Threads |-> "idle"] /\ agent = [t \in Threads |-> NoAgent]
    /\ asked = [t \in Threads |-> {}] /\ scores = [t \in Threads |-> NoScores]
    /\ data = [t \in Threads |-> NoData]
    /\ stub = FALSE /\ ghosts = {} /\ lost = {}

Listed == {a \in Agents : score[a] # Never}
Live == {a \in Agents : row[a] = "live"}

Goto(t, place) == pc' = [pc EXCEPT ![t] = place]
Done(t) ==
    /\ Goto(t, "idle") /\ agent' = [agent EXCEPT ![t] = NoAgent]
    /\ asked' = [asked EXCEPT ![t] = {}] /\ scores' = [scores EXCEPT ![t] = NoScores]
    /\ data' = [data EXCEPT ![t] = NoData]
Begin(t, place, a) ==
    /\ pc[t] = "idle"
    /\ Goto(t, place) /\ agent' = [agent EXCEPT ![t] = a]

Deleting(t) == pc[t] \in {"locked", "found", "deleted"}

(***************************************************************************)
(* The locks.                                                              *)
(***************************************************************************)
NothingLocked == whole = None /\ marks = {}

\* _lock_all_agents: the key must not be there.
LockAll(t) == NothingLocked /\ whole' = t /\ UNCHANGED <<marks, robbed>>
UnlockAll == whole' = None /\ UNCHANGED <<marks, robbed>>

\* _lock_agents: the key must not be the lock of all agents.  An id that is marked
\* already is marked again; the release takes it from whoever else has it.
Mark(ids) == whole = None /\ marks' = marks \cup ids /\ UNCHANGED <<whole, robbed>>
Unmark(t, ids) ==
    /\ marks' = marks \ ids
    /\ robbed' = {u \in Threads \ {t} : u \in robbed \/ (Deleting(u) /\ agent[u] \in ids)}
    /\ UNCHANGED whole

\* A request that neither adds nor deletes locks agents of the set.
LockAgents(t) ==
    /\ \E ids \in SUBSET Listed \ {{}} :
          /\ Mark(ids) /\ Begin(t, "hold", NoAgent) /\ asked' = [asked EXCEPT ![t] = ids]
    /\ UNCHANGED <<row, listVars, online, cache, scores, data>>

UnlockAgents(t) ==
    /\ pc[t] = "hold" /\ Unmark(t, asked[t]) /\ Done(t)
    /\ UNCHANGED <<row, listVars, online, cache>>

(***************************************************************************)
(* Writing the set of ids.                                                 *)
(***************************************************************************)
\* Somebody has a copy of a, or has read its score to make one.
Held(a) == cache[a] # NoCopy \/ \E t \in Threads : pc[t] \in {"get", "store"} /\ a \in asked[t]

\* The ids are written: their scores are past ones to whoever still holds them.
Leave(ids) ==
    past' = [a \in Agents |-> IF ~ Held(a)' THEN {}
                              ELSE IF a \in ids THEN past[a] \cup ({score[a]} \ {Never}) ELSE past[a]]

\* Whatever the second, it may be the one of an earlier write.
ZAdd(ids) ==
    /\ \E now \in Seconds : score' = [a \in Agents |-> IF a \in ids THEN now ELSE score[a]]
    /\ lost' = lost \ ids

(***************************************************************************)
(* all_agents: an empty set is filled from the database.                   *)
(***************************************************************************)
\* Mutant: the list is looked at without the lock.
FillReads_NoLock(t) ==
    /\ Listed = {} /\ Live # {} /\ UNCHANGED lockVars
    /\ Begin(t, "fill", NoAgent) /\ asked' = [asked EXCEPT ![t] = Live]
    /\ UNCHANGED <<row, listVars, online, cache, scores, data>>

\* The set is looked at again under the lock, then the rows are read.
FillReads(t) ==
    /\ Listed = {} /\ Live # {} /\ LockAll(t)
    /\ Begin(t, "fill", NoAgent) /\ asked' = [asked EXCEPT ![t] = Live]
    /\ UNCHANGED <<row, listVars, online, cache, scores, data>>

FillWrites(t) ==
    /\ pc[t] = "fill"
    /\ ZAdd(asked[t]) /\ stub' = FALSE /\ UNCHANGED ghosts
    /\ UnlockAll /\ Done(t)
    /\ UNCHANGED <<row, online, cache>> /\ Leave(asked[t])

(***************************************************************************)
(* add_agent, delete_agent, clean.                                         *)
(***************************************************************************)
\* model_autoincrement_id: an id whose row was cleaned may come again.
NextId == Max({a \in Agents : row[a] # None} \cup {0}) + 1

\* The id is written before the row is committed; an id that is in the set already is
\* refused (CacheStoneError).
AddWrites(t) ==
    /\ LockAll(t)
    /\ NextId \in Agents /\ score[NextId] = Never
    /\ Begin(t, "add", NextId)
    /\ ZAdd({NextId}) /\ stub' = (stub \/ (Listed = {} /\ Live # {}))
    /\ ghosts' = ghosts \ {NextId}
    /\ UNCHANGED <<row, online, cache, asked, scores, data>> /\ Leave({NextId})

\* The refusal comes after the set is written: the id has a new score.
AddRefused ==
    /\ NothingLocked
    /\ NextId \in Listed /\ ZAdd({NextId})
    /\ UNCHANGED <<row, stub, ghosts, online, cache, lockVars, threadVars>> /\ Leave({NextId})

AddCommits(t) ==
    /\ pc[t] = "add"
    /\ row' = [row EXCEPT ![agent[t]] = "live"]
    /\ UnlockAll /\ Done(t)
    /\ UNCHANGED <<listVars, online, cache>>

\* The transaction fails; the id stays in the set.
AddFails(t) ==
    /\ pc[t] = "add"
    /\ ghosts' = ghosts \cup {agent[t]}
    /\ UnlockAll /\ Done(t)
    /\ UNCHANGED <<row, score, past, stub, lost, online, cache>>

\* The id is looked for in the set and locked.
DeleteLocks(t, a) ==
    /\ a \in Listed /\ Mark({a})
    /\ Begin(t, "locked", a)
    /\ UNCHANGED <<row, listVars, online, cache, asked, scores, data>>

\* The row is found.
DeleteFinds(t) ==
    /\ pc[t] = "locked" /\ row[agent[t]] = "live"
    /\ Goto(t, "found")
    /\ UNCHANGED <<row, listVars, online, cache, lockVars, agent, asked, scores, data>>

\* The body of `with delete_agent' ends.  Another deletion may have been first, and the
\* row may even be of an agent that was added after it.
DeleteCommits(t) ==
    /\ pc[t] = "found"
    /\ row' = [row EXCEPT ![agent[t]] = IF @ = "live" THEN "deleted" ELSE @]
    /\ cache' = [cache EXCEPT ![agent[t]] = NoCopy]
    /\ Goto(t, "deleted")
    /\ UNCHANGED <<score, stub, ghosts, lost, online, lockVars, agent, asked, scores, data>> /\ Leave({})

\* There is no row, it has entities, or the body raises.
DeleteFails(t) ==
    /\ pc[t] \in {"locked", "found"}
    /\ Unmark(t, {agent[t]}) /\ Done(t)
    /\ UNCHANGED <<row, listVars, online, cache>>

\* Mutant: the set is left alone.
ZRem_Nothing(t, a) == UNCHANGED <<score, stub, ghosts, lost>>

\* The set of no ids is no set.  Who fills the set while a robbed deletion ends has read
\* the row before, and writes the id again.
ZRem(t, a) ==
    /\ score' = [score EXCEPT ![a] = Never]
    /\ stub' = (stub /\ Listed \ {a} # {})
    /\ lost' = IF t \in robbed THEN lost \cup {a} ELSE lost
    /\ ghosts' = IF \E u \in Threads : pc[u] = "fill" /\ a \in asked[u]
                 THEN ghosts \cup {a} ELSE ghosts \ {a}

DeleteEnds(t) ==
    /\ pc[t] = "deleted"
    /\ ZRem(t, agent[t])
    /\ Unmark(t, {agent[t]}) /\ Done(t)
    /\ UNCHANGED <<row, online, cache>> /\ Leave({agent[t]})

Clean(a) ==
    /\ row[a] = "deleted" /\ row' = [row EXCEPT ![a] = None]
    /\ UNCHANGED <<listVars, online, cache, lockVars, threadVars>>

(***************************************************************************)
(* The cache requests of an operator.                                      *)
(***************************************************************************)
\* flush_all_agents: the next who asks for all agents fills the set.
FlushAllAgents ==
    /\ NothingLocked /\ Listed # {}
    /\ score' = NoScores /\ stub' = FALSE /\ ghosts' = {} /\ lost' = {}
    /\ UNCHANGED <<row, online, cache, lockVars, threadVars>> /\ Leave(Agents)

\* flush_onlines: the keys are listed, the copies are dropped, the keys deleted.
FlushOnlines(t) ==
    /\ LockAll(t)
    /\ Begin(t, "onlines", NoAgent)
    /\ asked' = [asked EXCEPT ![t] = {a \in Agents : online[a] # None}]
    /\ cache' = [a \in Agents |-> NoCopy]
    /\ UNCHANGED <<row, score, stub, ghosts, lost, online, scores, data>> /\ Leave({})

DeleteOnlines(t) ==
    /\ pc[t] = "onlines"
    /\ online' = [a \in Agents |-> IF a \in asked[t] THEN None ELSE online[a]]
    /\ UnlockAll /\ Done(t)
    /\ UNCHANGED <<row, listVars, cache>>

(***************************************************************************)
(* online, report and agent_metadata_flush.                                *)
(***************************************************************************)
\* The key was not extended in time.
OnlineExpires(a) ==
    /\ online[a] # None /\ online' = [online EXCEPT ![a] = None]
    /\ UNCHANGED <<row, listVars, cache, lockVars, threadVars>>

\* An agent reports its metadata.  Only its id is looked for, in the set; the flush is
\* left to another thread.
Report(t, a) ==
    /\ a \in Listed \cap Reporters /\ Begin(t, "report", a)
    /\ UNCHANGED <<row, listVars, online, cache, lockVars, asked, scores, data>>

\* A process that starts asks for the id of its host's agent: the row must be there and
\* its id in the set.
Online(t, a) == row[a] = "live" /\ Report(t, a)

\* The key is read and extended; metadata that did not change is not written.
FlushReads(t) ==
    /\ pc[t] = "report"
    /\ \/ online[agent[t]] # None /\ Done(t)
       \/ \E m \in Metadata \ {online[agent[t]]} :
             /\ data' = [data EXCEPT ![t][agent[t]] = m]
             /\ asked' = [asked EXCEPT ![t] = IF online[agent[t]] = None THEN {} ELSE {agent[t]}]
             /\ Goto(t, "set") /\ UNCHANGED <<agent, scores>>
    /\ UNCHANGED <<row, listVars, online, cache, lockVars>>

\* A key that was there is replaced, one that was not is created (nx).
FlushSets(t) ==
    /\ pc[t] = "set"
    /\ IF asked[t] = {} /\ online[agent[t]] # None
       THEN Done(t) /\ UNCHANGED online
       ELSE /\ online' = [online EXCEPT ![agent[t]] = data[t][agent[t]]]
            /\ Goto(t, "zadd") /\ UNCHANGED <<agent, asked, scores, data>>
    /\ UNCHANGED <<row, listVars, cache, lockVars>>

\* The id gets a new score, and comes into the set if it was not in it.
FlushScores(t) ==
    /\ pc[t] = "zadd"
    /\ ZAdd({agent[t]})
    /\ stub' = (stub \/ (Listed = {} /\ Live \ {agent[t]} # {}))
    /\ ghosts' = IF row[agent[t]] = "live" THEN ghosts ELSE ghosts \cup {agent[t]}
    /\ Done(t)
    /\ UNCHANGED <<row, online, cache, lockVars>> /\ Leave({agent[t]})

\* The key was written, the write of the score fails.
FlushFails(t) ==
    /\ pc[t] = "zadd"
    /\ Done(t)
    /\ UNCHANGED <<row, score, stub, ghosts, lost, online, cache, lockVars>> /\ Leave({agent[t]})

(***************************************************************************)
(* agents_metadata.                                                        *)
(***************************************************************************)
\* The scores are read.  Copies of agents that are not asked about are dropped, those
\* that were read under another score, or are too old, are read again.
MetadataReads(t) ==
    /\ pc[t] = "idle"
    /\ \E agents \in SUBSET Listed \ {{}} :
          LET cached == {a \in agents : cache[a] # NoCopy}
              current == {a \in cached : cache[a].base = score[a]}
          IN
          /\ cache' = [a \in Agents |-> IF a \in agents THEN cache[a] ELSE NoCopy]
          /\ \E young \in SUBSET current :
                \/ agents = young /\ UNCHANGED threadVars
                \/ /\ agents # young /\ Goto(t, "get")
                   /\ asked' = [asked EXCEPT ![t] = agents \ young]
                   /\ scores' = [scores EXCEPT ![t] = [a \in Agents |->
                                    IF a \in agents \ young THEN score[a] ELSE Never]]
                   /\ UNCHANGED <<agent, data>>
    /\ UNCHANGED <<row, score, stub, ghosts, lost, online, lockVars>> /\ Leave({})

MetadataGets(t) ==
    /\ pc[t] = "get" /\ Goto(t, "store")
    /\ data' = [data EXCEPT ![t] = [a \in Agents |->
                                       IF a \in asked[t] THEN online[a] ELSE None]]
    /\ UNCHANGED <<row, listVars, online, cache, lockVars, agent, asked, scores>>

\* Mutant: what was read is stored under the score of now.
Copy_ScoreOfNow(t, a) == [base |-> score[a], data |-> data[t][a]]

\* Mutant: what was read is stored without its score.
Copy_NoScore(t, a) == [data |-> data[t][a]]

Copy(t, a) == [base |-> scores[t][a], data |-> data[t][a]]

MetadataStores(t) ==
    /\ pc[t] = "store"
    /\ cache' = [a \in Agents |->
                    IF a \notin asked[t] THEN cache[a]
                    ELSE IF data[t][a] = None THEN NoCopy ELSE Copy(t, a)]
    /\ Done(t)
    /\ UNCHANGED <<row, score, stub, ghosts, lost, online, lockVars>> /\ Leave({})

-----------------------------------------------------------------------------
Next ==
    \/ \E t \in Threads :
          \/ LockAgents(t) \/ UnlockAgents(t)
          \/ FillReads(t) \/ FillWrites(t) \/ AddWrites(t) \/ AddCommits(t) \/ AddFails(t)
          \/ DeleteFinds(t) \/ DeleteCommits(t) \/ DeleteFails(t) \/ DeleteEnds(t)
          \/ FlushOnlines(t) \/ DeleteOnlines(t)
          \/ FlushReads(t) \/ FlushSets(t) \/ FlushScores(t) \/ FlushFails(t)
          \/ MetadataReads(t) \/ MetadataGets(t) \/ MetadataStores(t)
          \/ \E a \in Agents : DeleteLocks(t, a) \/ Report(t, a) \/ Online(t, a)
    \/ \E a \in Agents : Clean(a) \/ OnlineExpires(a)
    \/ AddRefused \/ FlushAllAgents

Spec == Init /\ [][Next]_vars

-----------------------------------------------------------------------------
\* No agent is missing from the set, though it is filled, written and emptied while
\* agents come and go and deletions overlap: unless a single id was written to the empty
\* set, or a deletion that another release robbed of its mark took the id.
EveryAgentIsListed == Listed # {} /\ ~ stub => Live \ lost \subseteq Listed

\* Whoever is in the set has a row that is not deleted, is just being added or deleted,
\* or was written without either (ghosts).
ListedAgentsExist ==
    \A a \in Listed \ ghosts :
        row[a] = "live" \/ \E t \in Threads : pc[t] \in {"add", "deleted"} /\ agent[t] = a

\* A copy that the process trusts, because the score did not change, is what the agent's
\* key holds: unless a flush is between the key and the score, or the score is one the
\* agent has had before (two writes in one second).
TrustedCopiesAreCurrent ==
    \A a \in Agents :
        /\ cache[a] # NoCopy /\ cache[a].base = score[a] /\ online[a] # None
        /\ score[a] \notin past[a]
        /\ \A t \in Threads : pc[t] = "zadd" => agent[t] # a
        => cache[a].data = online[a]
=============================================================================
