---------------------------- MODULE AppFlowProofs ----------------------------
(***************************************************************************)
(* AppFlow for any databases, tries and accepted requests: its types and   *)
(* its two invariants.  The argument is about order: a task that has begun *)
(* has all those before it behind it, also while a part is being reverted  *)
(* to be run again (Ordered, RetryFits).                                   *)
(***************************************************************************)
EXTENDS AppFlow, TLAPS

Behind == {"done", "reverted", "stuck"}

\* Only what was asked for runs.
OnlyAsked == \A t \in Tasks : st[t] # "pending" => t \in conf.tasks

\* What comes before a task that has begun was done, and may be reverted since.
Ordered ==
    \A s, t \in conf.tasks : Before(s, t) /\ st[t] # "pending" => st[s] \in Behind

\* A part that will be run again has a task that failed, none that runs, nothing after
\* it has begun, and it has a try left.
RetryFits ==
    \A p \in retrying :
        /\ tries[p] <= MaxTries
        /\ \E s \in conf.tasks : Part(s) = p /\ st[s] \in {"failed", "reverted", "stuck"}
        /\ \A t \in Tasks : Part(t) = p => st[t] # "running"
        /\ \A s, t \in conf.tasks :
              Part(s) = p /\ Part(t) # p /\ Before(s, t) => st[t] = "pending"

\* What the mode of the engine says of the tasks.
ModeFits ==
    /\ mode = "run" => \A t \in Tasks : Prepares(t) => st[t] \in {"pending", "running", "done"}
    /\ mode = "prepare fails" => \A t \in Tasks : ~ Prepares(t) => st[t] = "pending"
    /\ mode = "revert" => \A t \in conf.tasks : Prepares(t) => st[t] = "done"
    /\ mode = "end" => \A t \in Tasks : st[t] \notin {"running", "failed"}

\* What was done, or reverted, is recorded.
Recorded == \A t \in Tasks : st[t] \in Behind => results[t] # None

Upgraded ==
    results[App("upgrade")] = "success" => files = "new" /\ st[App("upgrade")] \in Behind

Loads ==
    \A d \in Databases :
        results[<<"load", d>>] = "success" =>
            db[d] = "new" /\ st[<<"load", d>>] \in Behind /\ d \notin retrying

Dumps ==
    \A d \in Databases :
        results[<<"dump", d>>] = "success" => dumped[d] \in Contents \/ st[<<"dump", d>>] = "failed"

\* In the first try a database is what it was until it has been dumped.
FirstTry ==
    \A d \in Databases :
        HasDb("dump", d) /\ tries[d] = 1 =>
            /\ st[<<"dump", d>>] = "done" => dumped[d] = "old"
            /\ st[<<"load", d>>] # "pending" \/ Touched(d) =>
                  dumped[d] = "old" /\ st[<<"dump", d>>] \in Behind

FlowInv ==
    /\ TypeOK /\ Accepted
    /\ OnlyAsked /\ Ordered /\ RetryFits /\ ModeFits
    /\ Recorded /\ Upgraded /\ Loads /\ Dumps /\ FirstTry

-----------------------------------------------------------------------------
\* What a task is, and what the order of the flow is made of.
LEMMA TaskFacts ==
    /\ \A k \in AppKinds : App(k) \in Tasks
    /\ \A d \in Databases : {<<"dbcreate", d>>, <<"dump", d>>, <<"load", d>>} \subseteq Tasks
    /\ \A t \in Tasks : \/ t[2] = None /\ t[1] \in AppKinds /\ t = App(t[1])
                        \/ t[2] \in Databases /\ t[2] # None
                           /\ t[1] \in {"dbcreate", "dump", "load"} /\ t = <<t[1], t[2]>>
  BY FlowAssumption DEF Tasks, App

LEMMA PartFacts ==
    /\ \A t \in Tasks : Part(t) \in Databases <=> t[2] # None
    /\ \A t \in Tasks : Part(t) \in Databases => Part(t) = t[2]
    /\ \A t \in Tasks : Part(t) = "stop" <=> t = App("stop")
    /\ \A t \in Tasks : Prepares(t) => Part(t) \notin Parts
    /\ Part(App("create")) \notin Parts /\ Part(App("upgrade")) \notin Parts
    /\ Part(App("delete")) \notin Parts
    /\ \A d \in Databases : d \in Parts /\ Part(<<"load", d>>) = d /\ Part(<<"dump", d>>) = d
    /\ \A t \in Tasks : TriesLeft(t) => Part(t) \in Parts
    /\ "stop" \in Parts /\ "stop" \notin Databases
  <1> USE FlowAssumption
  <1>1. \A t \in Tasks : \/ t[2] = None /\ t[1] \in AppKinds /\ Part(t) = t[1]
                         \/ t[2] \in Databases /\ t[2] # None /\ Part(t) = t[2]
    BY TaskFacts DEF Part
  <1>2. \A k \in AppKinds : k \notin Databases
    OBVIOUS
  <1>3. \A t \in Tasks : Part(t) \in Databases <=> t[2] # None
    BY <1>1, <1>2
  <1>4. \A t \in Tasks : Part(t) \in Databases => Part(t) = t[2]
    BY <1>1, <1>2
  <1>5. "stop" \in AppKinds /\ "stop" \in Parts /\ "stop" \notin Databases
    BY <1>2 DEF AppKinds, Parts
  <1>6. \A t \in Tasks : Part(t) = "stop" <=> t = App("stop")
    BY <1>1, <1>5, TaskFacts DEF App, Part
  <1>7. \A t \in Tasks : Prepares(t) => t[1] \in {"get", "backup", "sqlget"} /\ t[2] = None
    BY TaskFacts DEF Prepares, Rank, AppKinds
  <1>8. \A t \in Tasks : Prepares(t) => Part(t) \notin Parts
    <2> SUFFICES ASSUME NEW t \in Tasks, Prepares(t) PROVE Part(t) \notin Parts
      OBVIOUS
    <2>1. Part(t) \in {"get", "backup", "sqlget"}
      BY <1>1, <1>7
    <2>2. {"get", "backup", "sqlget"} \cap Databases = {}
      BY <1>2 DEF AppKinds
    <2> QED
      BY <2>1, <2>2 DEF Parts
  <1>9. /\ Part(App("create")) \notin Parts /\ Part(App("upgrade")) \notin Parts
        /\ Part(App("delete")) \notin Parts
    BY <1>2 DEF Part, App, Parts, AppKinds, None
  <1>10. \A d \in Databases : d \in Parts /\ Part(<<"load", d>>) = d /\ Part(<<"dump", d>>) = d
    BY DEF Part, Parts
  <1>11. \A t \in Tasks : TriesLeft(t) => Part(t) \in Parts
    BY <1>1, <1>5 DEF TriesLeft, Parts
  <1> QED
    BY <1>3, <1>4, <1>5, <1>6, <1>8, <1>9, <1>10, <1>11

\* The kinds of tasks, by their rank in the flow.
LEMMA RankFacts ==
    \A t \in Tasks : /\ Rank(t[1]) \in 0..6 /\ (Prepares(t) <=> Rank(t[1]) = 0)
                     /\ (t[2] # None => Rank(t[1]) = 3)
  BY TaskFacts DEF Rank, Prepares, AppKinds

LEMMA BeforeFacts ==
    /\ \A s, t \in Tasks : Prepares(s) /\ ~ Prepares(t) => Before(s, t)
    /\ \A s, t \in Tasks : Before(s, t) => ~ Prepares(t)
    /\ \A t \in Tasks : ~ Before(t, t)
    /\ \A s, t \in Tasks : Part(s) = Part(t) /\ Part(s) \in Parts /\ s # t => Before(s, t) \/ Before(t, s)
    /\ \A r, s, t \in Tasks :
          Part(r) = Part(s) /\ Part(s) \in Parts /\ Part(t) # Part(s) /\ Before(s, t) => Before(r, t)
    /\ Before(App("create"), App("upgrade"))
    /\ \A d \in Databases : Before(<<"dump", d>>, <<"load", d>>)
  <1>1. \A s, t \in Tasks : Prepares(s) /\ ~ Prepares(t) => Before(s, t)
    BY RankFacts DEF Before
  <1>2. \A s, t \in Tasks : Before(s, t) => ~ Prepares(t)
    BY RankFacts DEF Before
  <1>3. \A t \in Tasks : DbRank(t[1]) \in Nat
    BY DEF DbRank
  <1>4. \A t \in Tasks : ~ Before(t, t)
    BY <1>3, RankFacts DEF Before
  <1>5. \A s, t \in Tasks : Part(s) = Part(t) /\ Part(s) \in Parts /\ s # t => Before(s, t) \/ Before(t, s)
    <2> SUFFICES ASSUME NEW s \in Tasks, NEW t \in Tasks, Part(s) = Part(t), Part(s) \in Parts, s # t
                 PROVE  Before(s, t) \/ Before(t, s)
      OBVIOUS
    <2>1. Part(s) \in Databases
      BY PartFacts DEF Parts
    <2>2. s[2] = t[2] /\ s[2] # None
      BY <2>1, PartFacts
    <2>3. s[1] \in {"dbcreate", "dump", "load"} /\ t[1] \in {"dbcreate", "dump", "load"} /\ s[1] # t[1]
      BY <2>2, TaskFacts
    <2>4. DbRank(s[1]) < DbRank(t[1]) \/ DbRank(t[1]) < DbRank(s[1])
      BY <2>3 DEF DbRank
    <2> QED
      BY <2>2, <2>4 DEF Before
  <1>6. ASSUME NEW r \in Tasks, NEW s \in Tasks, NEW t \in Tasks,
               Part(r) = Part(s), Part(s) \in Parts, Part(t) # Part(s), Before(s, t)
        PROVE  Before(r, t)
    <2>1. CASE Part(s) \in Databases
      <3>1. r[2] # None /\ s[2] # None /\ s[2] # t[2]
        BY <1>6, <2>1, PartFacts
      <3>2. Rank(r[1]) = Rank(s[1]) /\ Rank(s[1]) < Rank(t[1])
        BY <1>6, <3>1, RankFacts DEF Before
      <3> QED
        BY <3>2 DEF Before
    <2>2. CASE Part(s) \notin Databases
      <3>1. r = s
        BY <1>6, <2>2, PartFacts DEF Parts
      <3> QED
        BY <1>6, <3>1
    <2> QED
      BY <2>1, <2>2
  <1>7. Before(App("create"), App("upgrade"))
    BY DEF Before, App, Rank
  <1>8. \A d \in Databases : Before(<<"dump", d>>, <<"load", d>>)
    BY FlowAssumption DEF Before, DbRank, Rank
  <1> QED
    BY <1>1, <1>2, <1>4, <1>5, <1>6, <1>7, <1>8

-----------------------------------------------------------------------------
LEMMA InitInv == Init => FlowInv
  <1> SUFFICES ASSUME Init PROVE FlowInv
    OBVIOUS
  <1> USE FlowAssumption DEF Init
  <1>1. 1 \in 1..(MaxTries + 1)
    OBVIOUS
  <1>2. TypeOK
    BY <1>1 DEF TypeOK, Contents
  <1>3. OnlyAsked /\ Ordered /\ RetryFits /\ ModeFits /\ Recorded
    BY DEF OnlyAsked, Ordered, RetryFits, ModeFits, Recorded, Behind, Configs
  <1>4. \A t \in Tasks : results[t] = None /\ results[t] # "success" /\ st[t] = "pending"
    BY DEF None
  <1>5. Upgraded /\ Loads /\ Dumps
    BY <1>4, TaskFacts DEF Upgraded, Loads, Dumps, AppKinds
  <1>6. FirstTry
    BY <1>4, TaskFacts DEF FirstTry, Touched
  <1> QED
    BY <1>2, <1>3, <1>5, <1>6 DEF FlowInv

LEMMA ExecuteInv == ASSUME FlowInv, NEW t \in Tasks, Execute(t) PROVE FlowInv'
  <1>1. /\ TypeOK /\ mode = "run" /\ t \in conf.tasks /\ st[t] = "pending" /\ Part(t) \notin retrying
        /\ \A s \in conf.tasks : Before(s, t) => st[s] = "done"
        /\ st' = [st EXCEPT ![t] = "running"]
        /\ UNCHANGED <<conf, mode, tries, retrying, results, files, saved, running, db, dumped, executed>>
    BY DEF FlowInv, Execute, Set, worldVars
  <1>2. /\ st' \in [Tasks -> {"pending", "running", "done", "failed", "reverted", "stuck"}]
        /\ st'[t] = "running" /\ \A s \in Tasks : s # t => st'[s] = st[s]
        /\ conf.tasks \subseteq Tasks
    BY <1>1 DEF TypeOK, Configs
  <1>3. TypeOK' /\ Accepted'
    BY <1>1, <1>2 DEF FlowInv, TypeOK, Accepted, Has, HasDb
  <1>4. OnlyAsked'
    BY <1>1, <1>2 DEF FlowInv, OnlyAsked
  <1>5. Ordered'
    <2> SUFFICES ASSUME NEW s \in conf.tasks, NEW u \in conf.tasks, Before(s, u), st'[u] # "pending"
                 PROVE  st'[s] \in Behind
      BY <1>1 DEF Ordered
    <2>1. CASE u = t
      BY <1>1, <1>2, <2>1, BeforeFacts DEF Behind
    <2>2. CASE u # t
      BY <1>1, <1>2, <2>2 DEF FlowInv, Ordered, Behind
    <2> QED
      BY <2>1, <2>2
  <1>6. RetryFits'
    <2> SUFFICES ASSUME NEW p \in retrying
                 PROVE  /\ tries[p] <= MaxTries
                        /\ \E s \in conf.tasks : Part(s) = p /\ st'[s] \in {"failed", "reverted", "stuck"}
                        /\ \A u \in Tasks : Part(u) = p => st'[u] # "running"
                        /\ \A s, u \in conf.tasks :
                              Part(s) = p /\ Part(u) # p /\ Before(s, u) => st'[u] = "pending"
      BY <1>1 DEF RetryFits
    <2>1. /\ tries[p] <= MaxTries
          /\ \A u \in Tasks : Part(u) = p => st[u] # "running"
          /\ \A s, u \in conf.tasks :
                Part(s) = p /\ Part(u) # p /\ Before(s, u) => st[u] = "pending"
      BY DEF FlowInv, RetryFits
    <2>2. PICK s \in conf.tasks : Part(s) = p /\ st[s] \in {"failed", "reverted", "stuck"}
      BY DEF FlowInv, RetryFits
    <2>3. p \in Parts /\ Part(t) # p
      BY <1>1 DEF TypeOK
    <2>4. \A r \in conf.tasks : Part(r) = p => ~ Before(r, t)
      BY <1>1, <1>2, <2>2, <2>3, BeforeFacts
    <2>5. \E r \in conf.tasks : Part(r) = p /\ st'[r] \in {"failed", "reverted", "stuck"}
      BY <1>1, <1>2, <2>2
    <2>6. \A u \in Tasks : Part(u) = p => st'[u] # "running"
      BY <1>2, <2>1, <2>3
    <2>7. \A r, u \in conf.tasks : Part(r) = p /\ Part(u) # p /\ Before(r, u) => st'[u] = "pending"
      BY <1>2, <2>1, <2>4
    <2> QED
      BY <2>1, <2>5, <2>6, <2>7
  <1>7. ModeFits'
    BY <1>1, <1>2 DEF FlowInv, ModeFits, Prepares, Rank
  <1>8. Recorded'
    BY <1>1, <1>2 DEF FlowInv, Recorded, Behind
  <1>9. Upgraded'
    BY <1>1, <1>2, TaskFacts DEF FlowInv, Upgraded, Behind, AppKinds
  <1>10. Loads'
    BY <1>1, <1>2, TaskFacts DEF FlowInv, Loads, Behind
  <1>11. Dumps'
    BY <1>1, <1>2, TaskFacts DEF FlowInv, Dumps
  <1>12. FirstTry'
    <2> SUFFICES ASSUME NEW d \in Databases, HasDb("dump", d), tries[d] = 1
                 PROVE  /\ st'[<<"dump", d>>] = "done" => dumped[d] = "old"
                        /\ st'[<<"load", d>>] # "pending" \/ Touched(d) =>
                              dumped[d] = "old" /\ st'[<<"dump", d>>] \in Behind
      BY <1>1 DEF FirstTry, HasDb, Touched
    <2>1. <<"dump", d>> \in conf.tasks /\ <<"dump", d>> \in Tasks /\ <<"load", d>> \in Tasks
      BY TaskFacts DEF HasDb
    <2>2. /\ st[<<"dump", d>>] = "done" => dumped[d] = "old"
          /\ st[<<"load", d>>] # "pending" \/ Touched(d) =>
                dumped[d] = "old" /\ st[<<"dump", d>>] \in Behind
      BY DEF FlowInv, FirstTry
    <2>3. CASE t = <<"load", d>>
      <3>1. st[<<"dump", d>>] = "done" /\ t # <<"dump", d>>
        BY <1>1, <2>1, <2>3, BeforeFacts
      <3> QED
        BY <1>2, <2>1, <2>2, <3>1 DEF Behind
    <2>4. CASE t # <<"load", d>>
      BY <1>1, <1>2, <2>1, <2>2, <2>4 DEF Behind
    <2> QED
      BY <2>3, <2>4
  <1> QED
    BY <1>3, <1>4, <1>5, <1>6, <1>7, <1>8, <1>9, <1>10, <1>11, <1>12 DEF FlowInv

\* A task that has begun gets behind the others: the order stays.
LEMMA BehindStep ==
    ASSUME FlowInv, NEW t \in Tasks, NEW x \in Behind, st[t] # "pending",
           x = "done" => st[t] = "running", st' = [st EXCEPT ![t] = x],
           UNCHANGED <<conf, tries, retrying>>
    PROVE  /\ st' \in [Tasks -> {"pending", "running", "done", "failed", "reverted", "stuck"}]
           /\ st'[t] = x /\ \A s \in Tasks : s # t => st'[s] = st[s]
           /\ t \in conf.tasks /\ conf.tasks \subseteq Tasks
           /\ OnlyAsked' /\ Ordered' /\ RetryFits'
  <1>1. /\ TypeOK /\ conf.tasks \subseteq Tasks
        /\ st' \in [Tasks -> {"pending", "running", "done", "failed", "reverted", "stuck"}]
        /\ st'[t] = x /\ \A s \in Tasks : s # t => st'[s] = st[s]
    BY DEF FlowInv, TypeOK, Configs, Behind
  <1>2. t \in conf.tasks
    BY DEF FlowInv, OnlyAsked
  <1>3. OnlyAsked'
    BY <1>1, <1>2 DEF FlowInv, OnlyAsked
  <1>4. Ordered'
    <2> SUFFICES ASSUME NEW s \in conf.tasks, NEW u \in conf.tasks, Before(s, u), st'[u] # "pending"
                 PROVE  st'[s] \in Behind
      BY DEF Ordered
    <2>1. st[u] # "pending"
      BY <1>1
    <2>2. st[s] \in Behind
      BY <2>1 DEF FlowInv, Ordered
    <2> QED
      BY <1>1, <2>2
  <1>5. RetryFits'
    <2> SUFFICES ASSUME NEW p \in retrying
                 PROVE  /\ tries[p] <= MaxTries
                        /\ \E s \in conf.tasks : Part(s) = p /\ st'[s] \in {"failed", "reverted", "stuck"}
                        /\ \A u \in Tasks : Part(u) = p => st'[u] # "running"
                        /\ \A s, u \in conf.tasks :
                              Part(s) = p /\ Part(u) # p /\ Before(s, u) => st'[u] = "pending"
      BY DEF RetryFits
    <2>1. /\ tries[p] <= MaxTries
          /\ \A u \in Tasks : Part(u) = p => st[u] # "running"
          /\ \A s, u \in conf.tasks :
                Part(s) = p /\ Part(u) # p /\ Before(s, u) => st[u] = "pending"
      BY DEF FlowInv, RetryFits
    <2>2. PICK s \in conf.tasks : Part(s) = p /\ st[s] \in {"failed", "reverted", "stuck"}
      BY DEF FlowInv, RetryFits
    <2>3. st'[s] \in {"failed", "reverted", "stuck"}
      BY <1>1, <2>2 DEF Behind
    <2>4. \A u \in Tasks : Part(u) = p => st'[u] # "running"
      BY <1>1, <2>1 DEF Behind
    <2>5. \A r, u \in conf.tasks : Part(r) = p /\ Part(u) # p /\ Before(r, u) => st'[u] = "pending"
      BY <1>1, <2>1
    <2> QED
      BY <2>1, <2>2, <2>3, <2>4, <2>5
  <1> QED
    BY <1>1, <1>2, <1>3, <1>4, <1>5

LEMMA SucceedsInv == ASSUME FlowInv, NEW t \in Tasks, Succeeds(t) PROVE FlowInv'
  <1>1. /\ TypeOK /\ Accepted /\ st[t] = "running" /\ st' = [st EXCEPT ![t] = "done"]
        /\ results' = [results EXCEPT ![t] = "success"]
        /\ UNCHANGED <<conf, mode, tries, retrying>>
    BY DEF FlowInv, Succeeds, Set, Return
  <1>2. /\ files' = IF t[1] \in {"create", "upgrade"} THEN "new"
                    ELSE IF t[1] = "delete" THEN None ELSE files
        /\ saved' = (saved \/ t[1] = "backup")
        /\ running' = ((running \/ t[1] = "start") /\ t[1] # "stop")
        /\ db' = [d \in Databases |-> IF t = <<"load", d>> THEN "new" ELSE db[d]]
        /\ dumped' = [d \in Databases |-> IF t = <<"dump", d>> THEN db[d] ELSE dumped[d]]
        /\ executed' = [d \in Databases |-> executed[d] \/ t = <<"load", d>>]
    BY DEF Succeeds
  <1>3. "done" \in Behind
    BY DEF Behind
  <1>4. /\ st' \in [Tasks -> {"pending", "running", "done", "failed", "reverted", "stuck"}]
        /\ st'[t] = "done" /\ \A s \in Tasks : s # t => st'[s] = st[s]
        /\ t \in conf.tasks /\ conf.tasks \subseteq Tasks
        /\ OnlyAsked' /\ Ordered' /\ RetryFits'
    BY <1>1, <1>3, BehindStep
  <1>5. /\ results' \in [Tasks -> {None, "success", "failed", "reverted", "revert fail"}]
        /\ results'[t] = "success" /\ \A s \in Tasks : s # t => results'[s] = results[s]
    BY <1>1 DEF TypeOK
  <1>6. {saved, running}' \subseteq BOOLEAN
    BY <1>2
  <1>7. files' \in Contents \cup {None} /\ db' \in [Databases -> Contents]
        /\ dumped' \in [Databases -> Contents \cup {None, "broken"}]
        /\ executed' \in [Databases -> BOOLEAN]
    BY <1>1, <1>2 DEF TypeOK, Contents
  <1>8. TypeOK' /\ Accepted'
    <2>1. TypeOK'
      BY <1>1, <1>4, <1>5, <1>6, <1>7 DEF TypeOK
    <2>2. Accepted'
      BY <1>1 DEF Accepted, Has, HasDb
    <2> QED
      BY <2>1, <2>2
  <1>9. ModeFits'
    BY <1>1, <1>4 DEF FlowInv, ModeFits
  <1>10. Recorded'
    BY <1>1, <1>4, <1>5 DEF FlowInv, Recorded, None
  <1>11. Upgraded'
    <2> SUFFICES ASSUME results'[App("upgrade")] = "success"
                 PROVE  files' = "new" /\ st'[App("upgrade")] \in Behind
      BY DEF Upgraded
    <2>1. App("upgrade") \in Tasks /\ App("create") \in Tasks
      BY TaskFacts DEF AppKinds
    <2>2. CASE t = App("upgrade")
      BY <1>2, <1>3, <1>4, <2>2 DEF App
    <2>3. CASE t # App("upgrade")
      <3>1. files = "new" /\ st[App("upgrade")] \in Behind /\ st'[App("upgrade")] \in Behind
        BY <1>4, <1>5, <2>1, <2>3 DEF FlowInv, Upgraded
      <3>2. App("upgrade") \in conf.tasks
        BY <2>1, <3>1 DEF FlowInv, OnlyAsked, Behind
      <3>3. App("delete") \notin conf.tasks
        BY <1>1, <3>2 DEF Accepted, Has
      <3>4. t[1] # "delete"
        BY <1>4, <3>3, TaskFacts DEF App
      <3> QED
        BY <1>2, <3>1, <3>4
    <2> QED
      BY <2>2, <2>3
  <1>12. Loads'
    <2> SUFFICES ASSUME NEW d \in Databases, results'[<<"load", d>>] = "success"
                 PROVE  db'[d] = "new" /\ st'[<<"load", d>>] \in Behind /\ d \notin retrying
      BY <1>1 DEF Loads
    <2>1. <<"load", d>> \in Tasks /\ Part(<<"load", d>>) = d
      BY TaskFacts, PartFacts
    <2>2. CASE t = <<"load", d>>
      <3>1. d \notin retrying
        BY <1>1, <2>1, <2>2 DEF FlowInv, RetryFits
      <3> QED
        BY <1>2, <1>3, <1>4, <2>2, <3>1
    <2>3. CASE t # <<"load", d>>
      BY <1>2, <1>4, <1>5, <2>1, <2>3 DEF FlowInv, Loads
    <2> QED
      BY <2>2, <2>3
  <1>13. Dumps'
    <2> SUFFICES ASSUME NEW d \in Databases, results'[<<"dump", d>>] = "success"
                 PROVE  dumped'[d] \in Contents \/ st'[<<"dump", d>>] = "failed"
      BY DEF Dumps
    <2>1. <<"dump", d>> \in Tasks /\ db[d] \in Contents
      BY <1>1, TaskFacts DEF TypeOK
    <2>2. CASE t = <<"dump", d>>
      BY <1>2, <2>1, <2>2
    <2>3. CASE t # <<"dump", d>>
      BY <1>2, <1>4, <1>5, <2>1, <2>3 DEF FlowInv, Dumps
    <2> QED
      BY <2>2, <2>3
  <1>14. FirstTry'
    <2> SUFFICES ASSUME NEW d \in Databases, HasDb("dump", d), tries[d] = 1
                 PROVE  /\ st'[<<"dump", d>>] = "done" => dumped'[d] = "old"
                        /\ st'[<<"load", d>>] # "pending" \/ db'[d] # "old" =>
                              dumped'[d] = "old" /\ st'[<<"dump", d>>] \in Behind
      BY <1>1 DEF FirstTry, HasDb, Touched
    <2>1. <<"dump", d>> \in conf.tasks /\ <<"dump", d>> \in Tasks /\ <<"load", d>> \in Tasks
      BY TaskFacts DEF HasDb
    <2>2. /\ st[<<"dump", d>>] = "done" => dumped[d] = "old"
          /\ st[<<"load", d>>] # "pending" \/ db[d] # "old" =>
                dumped[d] = "old" /\ st[<<"dump", d>>] \in Behind
      BY DEF FlowInv, FirstTry, Touched
    <2>3. CASE t = <<"load", d>>
      <3>1. t # <<"dump", d>> /\ dumped'[d] = dumped[d]
        BY <1>2, <2>3
      <3>2. st'[<<"dump", d>>] = st[<<"dump", d>>] /\ st[<<"load", d>>] # "pending"
        BY <1>1, <1>4, <2>1, <2>3, <3>1
      <3> QED
        BY <2>2, <3>1, <3>2
    <2>4. CASE t = <<"dump", d>>
      <3>1. st[<<"load", d>>] = "pending" /\ db[d] = "old" /\ t # <<"load", d>>
        BY <1>1, <2>2, <2>4 DEF Behind
      <3>2. dumped'[d] = "old" /\ st'[<<"dump", d>>] \in Behind
        BY <1>2, <1>3, <1>4, <2>4, <3>1
      <3> QED
        BY <3>2
    <2>5. CASE t # <<"load", d>> /\ t # <<"dump", d>>
      <3>1. db'[d] = db[d] /\ dumped'[d] = dumped[d]
        BY <1>2, <2>5
      <3> QED
        BY <1>4, <2>1, <2>2, <2>5, <3>1
    <2> QED
      BY <2>3, <2>4, <2>5
  <1> QED
    BY <1>4, <1>8, <1>9, <1>10, <1>11, <1>12, <1>13, <1>14 DEF FlowInv


\* A load comes after everything else that is done to its database.
LEMMA LoadIsLast ==
    \A d \in Databases, t \in Tasks : Part(t) = d /\ t # <<"load", d>> => Before(t, <<"load", d>>)
  <1> SUFFICES ASSUME NEW d \in Databases, NEW t \in Tasks, Part(t) = d, t # <<"load", d>>
               PROVE  Before(t, <<"load", d>>)
    OBVIOUS
  <1>1. t[2] = d /\ t[2] # None /\ t[1] \in {"dbcreate", "dump"}
    BY PartFacts, TaskFacts
  <1>2. DbRank(t[1]) < DbRank("load")
    BY <1>1 DEF DbRank
  <1> QED
    BY <1>1, <1>2 DEF Before

\* A task that runs has nothing after it that has begun.
LEMMA NothingAfter ==
    ASSUME FlowInv, NEW t \in Tasks, st[t] \notin Behind, st[t] # "pending"
    PROVE  \A s \in Tasks : Before(t, s) => st[s] = "pending"
  BY DEF FlowInv, OnlyAsked, Ordered

\* What a failed execution leaves alone.
LEMMA DamageFacts ==
    ASSUME FlowInv, NEW t \in Tasks, Damage(t)
    PROVE  /\ files' \in Contents \cup {None} /\ {saved, running}' \subseteq BOOLEAN
           /\ db' \in [Databases -> Contents] /\ executed' \in [Databases -> BOOLEAN]
           /\ dumped' \in [Databases -> Contents \cup {None, "broken"}]
           /\ files' = files \/ t \in {App("create"), App("upgrade"), App("delete")}
           /\ \A d \in Databases : /\ db'[d] = db[d] \/ t = <<"load", d>>
                                   /\ dumped'[d] = dumped[d] \/ t = <<"dump", d>>
  <1> USE DEF Damage
  <1>1. TypeOK
    BY DEF FlowInv
  <1>2. files' \in Contents \cup {None}
    BY <1>1 DEF TypeOK, Contents
  <1>3. saved' \in BOOLEAN
    BY <1>1 DEF TypeOK
  <1>4. running' \in BOOLEAN
    BY <1>1 DEF TypeOK
  <1>5. /\ dumped' \in [Databases -> Contents \cup {None, "broken"}]
        /\ \A d \in Databases : dumped'[d] = dumped[d] \/ t = <<"dump", d>>
    <2>1. CASE t[1] # "dump"
      BY <1>1, <2>1 DEF TypeOK
    <2>2. CASE t[1] = "dump"
      <3>1. t[2] \in Databases /\ t = <<"dump", t[2]>>
        BY <2>2, TaskFacts DEF AppKinds
      <3>2. dumped' = [dumped EXCEPT ![t[2]] = "broken"]
        BY <2>2
      <3>3. dumped' \in [Databases -> Contents \cup {None, "broken"}]
        BY <1>1, <3>2 DEF TypeOK
      <3>4. \A d \in Databases : dumped'[d] = dumped[d] \/ d = t[2]
        BY <1>1, <3>2 DEF TypeOK
      <3> QED
        BY <3>1, <3>3, <3>4
    <2> QED
      BY <2>1, <2>2
  <1>6. /\ db' \in [Databases -> Contents] /\ executed' \in [Databases -> BOOLEAN]
        /\ \A d \in Databases : db'[d] = db[d] \/ t = <<"load", d>>
    <2>1. CASE t[1] # "load"
      BY <1>1, <2>1 DEF TypeOK
    <2>2. CASE t[1] = "load"
      <3>1. t[2] \in Databases /\ t = <<"load", t[2]>>
        BY <2>2, TaskFacts DEF AppKinds
      <3>2. LoadFails(t[2])
        BY <2>2
      <3>3. PICK c \in {db[t[2]], "part"} : db' = [db EXCEPT ![t[2]] = c]
        BY <3>2 DEF LoadFails
      <3>4. c \in Contents
        BY <1>1, <3>1 DEF TypeOK, Contents
      <3>5. db' \in [Databases -> Contents]
        BY <1>1, <3>3, <3>4 DEF TypeOK
      <3>6. \A d \in Databases : db'[d] = db[d] \/ d = t[2]
        BY <1>1, <3>3 DEF TypeOK
      <3>7. executed' = [executed EXCEPT ![t[2]] = @ \/ t[2] \notin conf.byrow \/ db'[t[2]] # db[t[2]]]
        BY <3>2 DEF LoadFails
      <3>8. executed' \in [Databases -> BOOLEAN]
        BY <1>1, <3>7 DEF TypeOK
      <3> QED
        BY <3>1, <3>5, <3>6, <3>8
    <2> QED
      BY <2>1, <2>2
  <1>7. files' = files \/ t \in {App("create"), App("upgrade"), App("delete")}
    <2>1. CASE t[1] \in {"create", "upgrade", "delete"}
      BY <2>1, TaskFacts DEF AppKinds
    <2>2. CASE t[1] \notin {"create", "upgrade", "delete"}
      BY <2>2
    <2> QED
      BY <2>1, <2>2
  <1> QED
    BY <1>2, <1>3, <1>4, <1>5, <1>6, <1>7

LEMMA FailsInv == ASSUME FlowInv, NEW t \in Tasks, Fails(t) PROVE FlowInv'
  <1>1. /\ TypeOK /\ Accepted /\ st[t] = "running" /\ st' = [st EXCEPT ![t] = "failed"]
        /\ Damage(t) /\ UNCHANGED <<conf, tries, results>>
    BY DEF FlowInv, Fails, Set
  <1>2. \/ mode = "run" /\ TriesLeft(t) /\ retrying' = retrying \cup {Part(t)} /\ mode' = mode
        \/ retrying' = retrying /\ mode' = IF Prepares(t) THEN "prepare fails" ELSE "revert"
    BY DEF Fails
  <1>3. /\ st' \in [Tasks -> {"pending", "running", "done", "failed", "reverted", "stuck"}]
        /\ st'[t] = "failed" /\ \A s \in Tasks : s # t => st'[s] = st[s]
        /\ conf.tasks \subseteq Tasks
    BY <1>1 DEF TypeOK, Configs
  <1>4. t \in conf.tasks /\ st[t] \notin Behind
    BY <1>1 DEF FlowInv, OnlyAsked, Behind
  <1>5. \A s \in Tasks : Before(t, s) => st[s] = "pending"
    BY <1>1, <1>4, NothingAfter
  <1>6. \A s \in conf.tasks : Before(s, t) => st[s] \in Behind
    BY <1>1, <1>4 DEF FlowInv, Ordered
  <1>7. /\ files' \in Contents \cup {None} /\ {saved, running}' \subseteq BOOLEAN
        /\ db' \in [Databases -> Contents] /\ executed' \in [Databases -> BOOLEAN]
        /\ dumped' \in [Databases -> Contents \cup {None, "broken"}]
        /\ files' = files \/ t \in {App("create"), App("upgrade"), App("delete")}
        /\ \A d \in Databases : /\ db'[d] = db[d] \/ t = <<"load", d>>
                                /\ dumped'[d] = dumped[d] \/ t = <<"dump", d>>
    BY <1>1, DamageFacts
  <1>8. retrying' \subseteq Parts /\ mode' \in {"run", "prepare fails", "revert", "end"}
    BY <1>1, <1>2, PartFacts DEF TypeOK
  <1>9. TypeOK' /\ Accepted'
    <2>1. TypeOK'
      BY <1>1, <1>3, <1>7, <1>8 DEF TypeOK
    <2>2. Accepted'
      BY <1>1 DEF Accepted, Has, HasDb
    <2> QED
      BY <2>1, <2>2
  <1>10. OnlyAsked'
    BY <1>1, <1>3, <1>4 DEF FlowInv, OnlyAsked
  <1>11. Ordered'
    <2> SUFFICES ASSUME NEW s \in conf.tasks, NEW u \in conf.tasks, Before(s, u), st'[u] # "pending"
                 PROVE  st'[s] \in Behind
      BY <1>1 DEF Ordered
    <2>1. st[u] # "pending"
      BY <1>1, <1>3
    <2>2. st[s] \in Behind
      BY <2>1 DEF FlowInv, Ordered
    <2> QED
      BY <1>3, <1>4, <2>2
  <1>12. RetryFits'
    <2> SUFFICES ASSUME NEW p \in retrying'
                 PROVE  /\ tries[p] <= MaxTries
                        /\ \E s \in conf.tasks : Part(s) = p /\ st'[s] \in {"failed", "reverted", "stuck"}
                        /\ \A u \in Tasks : Part(u) = p => st'[u] # "running"
                        /\ \A s, u \in conf.tasks :
                              Part(s) = p /\ Part(u) # p /\ Before(s, u) => st'[u] = "pending"
      BY <1>1 DEF RetryFits
    <2>1. CASE p \in retrying
      <3>1. /\ tries[p] <= MaxTries
            /\ \A u \in Tasks : Part(u) = p => st[u] # "running"
            /\ \A s, u \in conf.tasks :
                  Part(s) = p /\ Part(u) # p /\ Before(s, u) => st[u] = "pending"
        BY <2>1 DEF FlowInv, RetryFits
      <3>2. PICK s \in conf.tasks : Part(s) = p /\ st[s] \in {"failed", "reverted", "stuck"}
        BY <2>1 DEF FlowInv, RetryFits
      <3>3. Part(s) = p /\ st'[s] \in {"failed", "reverted", "stuck"}
        BY <1>1, <1>3, <3>2
      <3>4. \A u \in Tasks : Part(u) = p => st'[u] # "running"
        BY <1>1, <1>3, <3>1
      <3>5. \A r, u \in conf.tasks : Part(r) = p /\ Part(u) # p /\ Before(r, u) => st'[u] = "pending"
        BY <1>1, <1>3, <3>1
      <3> QED
        BY <3>1, <3>3, <3>4, <3>5
    <2>2. CASE p \notin retrying
      <3>1. p = Part(t) /\ p \in Parts /\ TriesLeft(t)
        <4>1. retrying' # retrying
          BY <2>2
        <4>2. TriesLeft(t) /\ retrying' = retrying \cup {Part(t)}
          BY <1>2, <4>1
        <4>3. p = Part(t)
          BY <2>2, <4>2
        <4> QED
          BY <4>2, <4>3, PartFacts
      <3>2. tries[p] <= MaxTries
        <4>1. CASE t[1] = "stop" /\ tries["stop"] < 2
          <5>1. tries["stop"] \in 1..(MaxTries + 1)
            BY <1>1, PartFacts DEF TypeOK
          <5>2. t = App("stop")
            BY <4>1, TaskFacts
          <5>3. p = "stop"
            BY <3>1, <5>2, PartFacts
          <5> QED
            BY <4>1, <5>1, <5>3, FlowAssumption
        <4>2. CASE t[2] # None /\ tries[t[2]] < conf.tries[t[2]]
          <5>1. p = t[2] /\ t[2] \in Databases
            BY <3>1, <4>2, TaskFacts, PartFacts
          <5>2. conf.tries[t[2]] \in 1..MaxTries
            <6>1. conf.tries \in [Databases -> 1..MaxTries]
              BY <1>1 DEF TypeOK, Configs
            <6> QED
              BY <5>1, <6>1
          <5>3. tries[t[2]] \in 1..(MaxTries + 1)
            BY <1>1, <3>1, <5>1 DEF TypeOK
          <5> QED
            BY <4>2, <5>1, <5>2, <5>3, FlowAssumption
        <4> QED
          BY <3>1, <4>1, <4>2 DEF TriesLeft
      <3>3. Part(t) = p /\ st'[t] \in {"failed", "reverted", "stuck"}
        BY <1>3, <3>1
      <3>4. ASSUME NEW u \in Tasks, Part(u) = p PROVE st'[u] # "running"
        <4>1. CASE u = t
          BY <1>3, <4>1
        <4>2. CASE u # t
          <5>1. Before(u, t) \/ Before(t, u)
            BY <3>1, <3>4, <4>2, BeforeFacts
          <5>2. st[u] # "running"
            BY <1>5, <1>6, <5>1 DEF FlowInv, OnlyAsked, Behind
          <5> QED
            BY <1>3, <4>2, <5>2
        <4> QED
          BY <4>1, <4>2
      <3>5. ASSUME NEW r \in conf.tasks, NEW u \in conf.tasks, Part(r) = p, Part(u) # p, Before(r, u)
            PROVE  st'[u] = "pending"
        <4>1. Before(t, u) /\ u # t
          BY <1>3, <3>1, <3>5, BeforeFacts
        <4> QED
          BY <1>3, <1>5, <4>1
      <3> QED
        BY <1>4, <3>2, <3>3, <3>4, <3>5
    <2> QED
      BY <2>1, <2>2
  <1>13. ModeFits'
    <2>1. CASE mode = "run" /\ TriesLeft(t) /\ mode' = mode
      <3>1. ~ Prepares(t)
        BY <2>1, PartFacts
      <3>2. \A s \in Tasks : Prepares(s) => st'[s] \in {"pending", "running", "done"}
        BY <1>3, <2>1, <3>1 DEF FlowInv, ModeFits
      <3> QED
        BY <2>1, <3>2 DEF ModeFits
    <2>2. CASE Prepares(t) /\ mode' = "prepare fails"
      <3>1. \A s \in Tasks : ~ Prepares(s) => st'[s] = "pending"
        BY <1>3, <1>5, <2>2, BeforeFacts
      <3> QED
        BY <2>2, <3>1 DEF ModeFits
    <2>3. CASE ~ Prepares(t) /\ mode' = "revert"
      <3>1. mode \in {"run", "revert"}
        BY <1>1, <2>3 DEF FlowInv, ModeFits, TypeOK
      <3>2. ASSUME NEW s \in conf.tasks, Prepares(s) PROVE st'[s] = "done"
        <4>1. st[s] \in Behind /\ s # t
          BY <1>3, <1>6, <2>3, <3>2, BeforeFacts
        <4>2. st[s] = "done"
          BY <1>3, <3>1, <3>2, <4>1 DEF FlowInv, ModeFits, Behind
        <4> QED
          BY <1>3, <4>1, <4>2
      <3> QED
        BY <1>1, <2>3, <3>2 DEF ModeFits
    <2> QED
      BY <1>2, <2>1, <2>2, <2>3
  <1>14. Recorded'
    BY <1>1, <1>3 DEF FlowInv, Recorded, Behind
  <1>15. Upgraded'
    <2> SUFFICES ASSUME results[App("upgrade")] = "success"
                 PROVE  files' = "new" /\ st'[App("upgrade")] \in Behind
      BY <1>1 DEF Upgraded
    <2>1. {App("upgrade"), App("create"), App("delete")} \subseteq Tasks
      BY TaskFacts DEF AppKinds
    <2>2. files = "new" /\ st[App("upgrade")] \in Behind
      BY DEF FlowInv, Upgraded
    <2>3. t # App("upgrade") /\ t # App("create")
      BY <1>4, <1>5, <2>1, <2>2, BeforeFacts DEF Behind
    <2>4. App("upgrade") \in conf.tasks
      BY <2>1, <2>2 DEF FlowInv, OnlyAsked, Behind
    <2>5. t # App("delete")
      BY <1>1, <1>4, <2>4 DEF Accepted, Has
    <2> QED
      BY <1>3, <1>7, <2>1, <2>2, <2>3, <2>5
  <1>16. Loads'
    <2> SUFFICES ASSUME NEW d \in Databases, results[<<"load", d>>] = "success"
                 PROVE  db'[d] = "new" /\ st'[<<"load", d>>] \in Behind /\ d \notin retrying'
      BY <1>1 DEF Loads
    <2>1. <<"load", d>> \in Tasks
      BY TaskFacts
    <2>2. db[d] = "new" /\ st[<<"load", d>>] \in Behind /\ d \notin retrying
      BY DEF FlowInv, Loads
    <2>3. t # <<"load", d>>
      BY <1>4, <2>2
    <2>4. Part(t) # d
      BY <1>5, <2>1, <2>2, <2>3, LoadIsLast DEF Behind
    <2> QED
      BY <1>2, <1>3, <1>7, <2>1, <2>2, <2>3, <2>4
  <1>17. Dumps'
    <2> SUFFICES ASSUME NEW d \in Databases, results[<<"dump", d>>] = "success"
                 PROVE  dumped'[d] \in Contents \/ st'[<<"dump", d>>] = "failed"
      BY <1>1 DEF Dumps
    <2>1. <<"dump", d>> \in Tasks
      BY TaskFacts
    <2> QED
      BY <1>3, <1>7, <2>1 DEF FlowInv, Dumps
  <1>18. FirstTry'
    <2> SUFFICES ASSUME NEW d \in Databases, HasDb("dump", d), tries[d] = 1
                 PROVE  /\ st'[<<"dump", d>>] = "done" => dumped'[d] = "old"
                        /\ st'[<<"load", d>>] # "pending" \/ db'[d] # "old" =>
                              dumped'[d] = "old" /\ st'[<<"dump", d>>] \in Behind
      BY <1>1 DEF FirstTry, HasDb, Touched
    <2>1. <<"dump", d>> \in Tasks /\ <<"load", d>> \in Tasks /\ <<"dump", d>> # <<"load", d>>
      BY TaskFacts
    <2>2. /\ st[<<"dump", d>>] = "done" => dumped[d] = "old"
          /\ st[<<"load", d>>] # "pending" \/ db[d] # "old" =>
                dumped[d] = "old" /\ st[<<"dump", d>>] \in Behind
      BY DEF FlowInv, FirstTry, Touched
    <2>3. CASE t = <<"load", d>>
      BY <1>1, <1>3, <1>7, <2>1, <2>2, <2>3
    <2>4. CASE t = <<"dump", d>>
      <3>1. st[<<"load", d>>] = "pending" /\ db[d] = "old"
        BY <1>4, <2>2, <2>4
      <3> QED
        BY <1>3, <1>7, <2>1, <2>4, <3>1
    <2>5. CASE t # <<"load", d>> /\ t # <<"dump", d>>
      BY <1>3, <1>7, <2>1, <2>2, <2>5
    <2> QED
      BY <2>3, <2>4, <2>5
  <1> QED
    BY <1>9, <1>10, <1>11, <1>12, <1>13, <1>14, <1>15, <1>16, <1>17, <1>18 DEF FlowInv

\* What the revert of a task changes: its own record; the files of an upgrade that failed,
\* the backup file of a dump that failed.
LEMMA RevertFacts ==
    ASSUME FlowInv, NEW t \in Tasks, Revert(t)
    PROVE  /\ \E x \in {"reverted", "stuck"} : st' = [st EXCEPT ![t] = x]
           /\ UNCHANGED <<conf, tries, retrying, saved, running, db, executed>>
           /\ files' \in Contents \cup {None}
           /\ files' = files \/ (t = App("upgrade") /\ st[t] = "failed")
           /\ dumped' \in [Databases -> Contents \cup {None, "broken"}]
           /\ \A d \in Databases : dumped'[d] = dumped[d] \/ (t = <<"dump", d>> /\ st[t] = "failed")
           /\ \/ results' = results /\ st[t] = "done"
              \/ \E r \in {"failed", "reverted", "revert fail"} : results' = [results EXCEPT ![t] = r]
  <1>1. /\ TypeOK /\ st[t] \in {"done", "failed"}
        /\ CASE Prepares(t) -> RevertPrepare(t)
             [] t[1] = "upgrade" -> RevertUpgrade(t)
             [] t[1] = "dump" -> RevertDump(t)
             [] t[1] = "load" -> RevertLoad(t)
             [] OTHER -> RevertOther(t)
        /\ UNCHANGED <<conf, tries, retrying>>
    BY DEF FlowInv, Revert, Turn
  <1>2. Prepares(t) => t[1] \in {"get", "backup", "sqlget"}
    BY TaskFacts DEF Prepares, Rank, AppKinds
  <1>3. \A d \in Databases : dumped[d] \in Contents \cup {None, "broken"}
    BY <1>1 DEF TypeOK
  <1>4. files \in Contents \cup {None} /\ dumped \in [Databases -> Contents \cup {None, "broken"}]
    BY <1>1 DEF TypeOK
  <1>5. CASE Prepares(t)
    <2>1. RevertPrepare(t)
      BY <1>1, <1>2, <1>5
    <2> QED
      BY <1>1, <1>4, <2>1 DEF RevertPrepare, Record, Set, Return, worldVars
  <1>6. CASE t[1] = "upgrade"
    <2>1. RevertUpgrade(t) /\ t = App("upgrade")
      BY <1>1, <1>2, <1>6, TaskFacts
    <2>2. files' \in Contents \cup {None}
      BY <1>4, <2>1 DEF RevertUpgrade, Contents
    <2> QED
      BY <1>1, <1>4, <2>1, <2>2 DEF RevertUpgrade, Set, Return
  <1>7. CASE t[1] = "dump"
    <2>1. RevertDump(t) /\ t[2] \in Databases /\ t = <<"dump", t[2]>>
      BY <1>1, <1>2, <1>7, TaskFacts DEF AppKinds
    <2>2. CASE st[t] = "failed"
      <3>1. dumped' = [dumped EXCEPT ![t[2]] = None]
        BY <2>1, <2>2 DEF RevertDump
      <3>2. \A d \in Databases : dumped'[d] = dumped[d] \/ d = t[2]
        BY <1>4, <3>1
      <3>3. dumped' \in [Databases -> Contents \cup {None, "broken"}]
        BY <1>4, <3>1
      <3> QED
        BY <1>1, <1>4, <2>1, <2>2, <3>2, <3>3 DEF RevertDump, Set, Return
    <2>3. CASE st[t] # "failed"
      BY <1>1, <1>4, <2>1, <2>3 DEF RevertDump, Set, Return
    <2> QED
      BY <2>2, <2>3
  <1>8. CASE t[1] = "load"
    <2>1. RevertLoad(t)
      BY <1>1, <1>2, <1>8
    <2>2. UNCHANGED worldVars
      BY <2>1 DEF RevertLoad
    <2>3. \E x \in {"reverted", "stuck"} : st' = [st EXCEPT ![t] = x]
      BY <2>1 DEF RevertLoad, Set
    <2>4. \/ results' = results /\ st[t] = "done"
          \/ \E r \in {"failed", "reverted", "revert fail"} : results' = [results EXCEPT ![t] = r]
      BY <1>1, <2>1 DEF RevertLoad, Record, Return
    <2> QED
      BY <1>1, <1>4, <2>2, <2>3, <2>4 DEF worldVars
  <1>9. CASE ~ Prepares(t) /\ t[1] \notin {"upgrade", "dump", "load"}
    <2>1. RevertOther(t)
      BY <1>1, <1>9
    <2> QED
      BY <1>1, <1>4, <2>1 DEF RevertOther, Record, Set, Return, worldVars
  <1> QED
    BY <1>5, <1>6, <1>7, <1>8, <1>9

LEMMA RevertInv == ASSUME FlowInv, NEW t \in Tasks, Revert(t) PROVE FlowInv'
  <1>1. /\ TypeOK /\ Accepted /\ st[t] \in {"done", "failed"} /\ Wanted(t)
        /\ mode' = IF st'[t] = "stuck" /\ mode = "run" THEN "revert" ELSE mode
    BY DEF FlowInv, Revert, Turn
  <1>2. /\ UNCHANGED <<conf, tries, retrying, saved, running, db, executed>>
        /\ files' \in Contents \cup {None}
        /\ files' = files \/ (t = App("upgrade") /\ st[t] = "failed")
        /\ dumped' \in [Databases -> Contents \cup {None, "broken"}]
        /\ \A d \in Databases : dumped'[d] = dumped[d] \/ (t = <<"dump", d>> /\ st[t] = "failed")
        /\ \/ results' = results /\ st[t] = "done"
           \/ \E r \in {"failed", "reverted", "revert fail"} : results' = [results EXCEPT ![t] = r]
    BY RevertFacts
  <1>3. PICK x \in {"reverted", "stuck"} : st' = [st EXCEPT ![t] = x]
    BY RevertFacts
  <1>4. /\ st' \in [Tasks -> {"pending", "running", "done", "failed", "reverted", "stuck"}]
        /\ st'[t] = x /\ \A s \in Tasks : s # t => st'[s] = st[s]
        /\ t \in conf.tasks /\ conf.tasks \subseteq Tasks
        /\ OnlyAsked' /\ Ordered' /\ RetryFits'
    <2>1. x \in Behind /\ x # "done" /\ st[t] # "pending"
      BY <1>1, <1>3 DEF Behind
    <2> QED
      BY <1>2, <1>3, <2>1, BehindStep
  <1>5. /\ results' \in [Tasks -> {None, "success", "failed", "reverted", "revert fail"}]
        /\ \A s \in Tasks : s # t => results'[s] = results[s]
        /\ results'[t] = "success" => results[t] = "success" /\ st[t] = "done"
        /\ results'[t] = None => results[t] = None /\ st[t] = "done"
    <2>1. results \in [Tasks -> {None, "success", "failed", "reverted", "revert fail"}]
      BY <1>1 DEF TypeOK
    <2>2. CASE results' = results /\ st[t] = "done"
      BY <2>1, <2>2
    <2>3. CASE \E r \in {"failed", "reverted", "revert fail"} : results' = [results EXCEPT ![t] = r]
      <3>1. PICK r \in {"failed", "reverted", "revert fail"} : results' = [results EXCEPT ![t] = r]
        BY <2>3
      <3> QED
        BY <2>1, <3>1 DEF None
    <2> QED
      BY <1>2, <2>2, <2>3
  <1>6. Part(t) \in retrying => ~ Prepares(t)
    BY <1>1, PartFacts DEF TypeOK
  <1>7. TypeOK' /\ Accepted'
    <2>1. mode' \in {"run", "prepare fails", "revert", "end"}
      BY <1>1 DEF TypeOK
    <2>2. {saved, running}' \subseteq BOOLEAN
      BY <1>1, <1>2 DEF TypeOK
    <2>3. TypeOK'
      BY <1>1, <1>2, <1>4, <1>5, <2>1, <2>2 DEF TypeOK
    <2>4. Accepted'
      BY <1>1, <1>2 DEF Accepted, Has, HasDb
    <2> QED
      BY <2>3, <2>4
  <1>8. ModeFits'
    <2>1. CASE mode' = "run"
      <3>1. mode = "run" /\ ~ Prepares(t)
        BY <1>1, <1>6, <2>1 DEF Wanted
      <3> QED
        BY <1>4, <2>1, <3>1 DEF FlowInv, ModeFits
    <2>2. CASE mode' = "prepare fails"
      <3>1. mode = "prepare fails"
        BY <1>1, <2>2
      <3>2. \A s \in Tasks : ~ Prepares(s) => st'[s] = "pending"
        BY <1>1, <1>4, <3>1 DEF FlowInv, ModeFits
      <3> QED
        BY <2>2, <3>2 DEF ModeFits
    <2>3. CASE mode' = "revert"
      <3>1. mode \in {"run", "revert"} /\ ~ Prepares(t)
        BY <1>1, <1>6, <2>3 DEF Wanted
      <3>2. ASSUME NEW s \in conf.tasks, Prepares(s) PROVE st'[s] = "done"
        <4>1. Before(s, t) /\ s # t
          BY <1>4, <3>1, <3>2, BeforeFacts
        <4>2. st[s] \in Behind
          BY <1>1, <1>4, <4>1 DEF FlowInv, Ordered
        <4>3. st[s] = "done"
          BY <1>4, <3>1, <3>2, <4>2 DEF FlowInv, ModeFits, Behind
        <4> QED
          BY <1>4, <4>1, <4>3
      <3> QED
        BY <1>2, <2>3, <3>2 DEF ModeFits
    <2>4. CASE mode' = "end"
      <3>1. mode = "end"
        BY <1>1, <2>4
      <3>2. \A s \in Tasks : st'[s] \notin {"running", "failed"}
        BY <1>3, <1>4, <3>1 DEF FlowInv, ModeFits
      <3> QED
        BY <2>4, <3>2 DEF ModeFits
    <2> QED
      BY <1>7, <2>1, <2>2, <2>3, <2>4 DEF TypeOK
  <1>9. Recorded'
    BY <1>4, <1>5 DEF FlowInv, Recorded, Behind
  <1>10. Upgraded'
    <2> SUFFICES ASSUME results'[App("upgrade")] = "success"
                 PROVE  files' = "new" /\ st'[App("upgrade")] \in Behind
      BY DEF Upgraded
    <2>1. App("upgrade") \in Tasks
      BY TaskFacts DEF AppKinds
    <2>2. results[App("upgrade")] = "success" /\ ~ (t = App("upgrade") /\ st[t] = "failed")
      BY <1>5, <2>1
    <2>3. files = "new" /\ st[App("upgrade")] \in Behind
      BY <2>2 DEF FlowInv, Upgraded
    <2> QED
      BY <1>2, <1>3, <1>4, <2>1, <2>2, <2>3 DEF Behind
  <1>11. Loads'
    <2> SUFFICES ASSUME NEW d \in Databases, results'[<<"load", d>>] = "success"
                 PROVE  db[d] = "new" /\ st'[<<"load", d>>] \in Behind /\ d \notin retrying
      BY <1>2 DEF Loads
    <2>1. <<"load", d>> \in Tasks
      BY TaskFacts
    <2>2. results[<<"load", d>>] = "success"
      BY <1>5, <2>1
    <2> QED
      BY <1>3, <1>4, <2>1, <2>2 DEF FlowInv, Loads, Behind
  <1>12. Dumps'
    <2> SUFFICES ASSUME NEW d \in Databases, results'[<<"dump", d>>] = "success"
                 PROVE  dumped'[d] \in Contents \/ st'[<<"dump", d>>] = "failed"
      BY DEF Dumps
    <2>1. <<"dump", d>> \in Tasks
      BY TaskFacts
    <2>2. results[<<"dump", d>>] = "success" /\ ~ (t = <<"dump", d>> /\ st[t] = "failed")
      BY <1>5, <2>1
    <2>3. dumped[d] \in Contents \/ st[<<"dump", d>>] = "failed"
      BY <2>2 DEF FlowInv, Dumps
    <2> QED
      BY <1>2, <1>4, <2>1, <2>2, <2>3
  <1>13. FirstTry'
    <2> SUFFICES ASSUME NEW d \in Databases, HasDb("dump", d), tries[d] = 1
                 PROVE  /\ st'[<<"dump", d>>] = "done" => dumped'[d] = "old"
                        /\ st'[<<"load", d>>] # "pending" \/ db[d] # "old" =>
                              dumped'[d] = "old" /\ st'[<<"dump", d>>] \in Behind
      BY <1>2 DEF FirstTry, HasDb, Touched
    <2>1. <<"dump", d>> \in Tasks /\ <<"load", d>> \in Tasks
      BY TaskFacts
    <2>2. /\ st[<<"dump", d>>] = "done" => dumped[d] = "old"
          /\ st[<<"load", d>>] # "pending" \/ db[d] # "old" =>
                dumped[d] = "old" /\ st[<<"dump", d>>] \in Behind
      BY DEF FlowInv, FirstTry, Touched
    <2>3. st'[<<"load", d>>] # "pending" => st[<<"load", d>>] # "pending"
      BY <1>1, <1>4, <2>1
    <2>4. ASSUME st'[<<"dump", d>>] = "done" PROVE dumped'[d] = "old"
      <3>1. t # <<"dump", d>> /\ st[<<"dump", d>>] = "done"
        BY <1>3, <1>4, <2>1, <2>4
      <3> QED
        BY <1>2, <2>2, <3>1
    <2>5. ASSUME st[<<"load", d>>] # "pending" \/ db[d] # "old"
          PROVE  dumped'[d] = "old" /\ st'[<<"dump", d>>] \in Behind
      <3>1. dumped[d] = "old" /\ st[<<"dump", d>>] \in Behind
        BY <2>2, <2>5
      <3>2. st'[<<"dump", d>>] \in Behind
        BY <1>3, <1>4, <2>1, <3>1 DEF Behind
      <3>3. dumped'[d] = dumped[d]
        BY <1>2, <3>1 DEF Behind
      <3> QED
        BY <3>1, <3>2, <3>3
    <2> QED
      BY <2>3, <2>4, <2>5
  <1> QED
    BY <1>4, <1>7, <1>8, <1>9, <1>10, <1>11, <1>12, <1>13 DEF FlowInv

LEMMA RetryInv == ASSUME FlowInv, NEW p \in Parts, Retry(p) PROVE FlowInv'
  <1>1. /\ TypeOK /\ Accepted /\ mode = "run" /\ p \in retrying
        /\ \A t \in Tasks : Part(t) = p => st[t] \in {"pending", "reverted"}
        /\ st' = [t \in Tasks |-> IF Part(t) = p THEN "pending" ELSE st[t]]
        /\ tries' = [tries EXCEPT ![p] = @ + 1] /\ retrying' = retrying \ {p}
        /\ UNCHANGED <<conf, mode, results, files, saved, running, db, dumped, executed>>
    BY DEF FlowInv, Retry, worldVars
  <1>2. /\ conf.tasks \subseteq Tasks
        /\ \A t \in Tasks : /\ Part(t) = p => st'[t] = "pending"
                            /\ Part(t) # p => st'[t] = st[t]
    BY <1>1 DEF TypeOK, Configs
  <1>3. /\ \A s, u \in conf.tasks :
              Part(s) = p /\ Part(u) # p /\ Before(s, u) => st[u] = "pending"
        /\ tries[p] <= MaxTries
    BY <1>1 DEF FlowInv, RetryFits
  <1>4. /\ tries \in [Parts -> 1..(MaxTries + 1)] /\ tries[p] \in 1..MaxTries
        /\ tries[p] + 1 \in 1..(MaxTries + 1)
    <2>1. tries \in [Parts -> 1..(MaxTries + 1)]
      BY <1>1 DEF TypeOK
    <2>2. tries[p] \in 1..(MaxTries + 1)
      BY <2>1
    <2> QED
      BY <1>3, <2>1, <2>2, FlowAssumption
  <1>5. /\ tries' \in [Parts -> 1..(MaxTries + 1)] /\ tries'[p] = tries[p] + 1
        /\ \A q \in Parts : q # p => tries'[q] = tries[q]
    BY <1>1, <1>4
  <1>6. TypeOK' /\ Accepted'
    <2>1. st' \in [Tasks -> {"pending", "running", "done", "failed", "reverted", "stuck"}]
      BY <1>1 DEF TypeOK
    <2>2. {saved, running}' \subseteq BOOLEAN
      BY <1>1 DEF TypeOK
    <2>3. TypeOK'
      BY <1>1, <1>5, <2>1, <2>2 DEF TypeOK
    <2>4. Accepted'
      BY <1>1 DEF Accepted, Has, HasDb
    <2> QED
      BY <2>3, <2>4
  <1>7. OnlyAsked'
    BY <1>1, <1>2 DEF FlowInv, OnlyAsked
  <1>8. Ordered'
    <2> SUFFICES ASSUME NEW s \in conf.tasks, NEW u \in conf.tasks, Before(s, u), st'[u] # "pending"
                 PROVE  st'[s] \in Behind
      BY <1>1 DEF Ordered
    <2>1. Part(u) # p /\ st[u] # "pending"
      BY <1>2
    <2>2. Part(s) # p
      BY <1>3, <2>1
    <2>3. st[s] \in Behind
      BY <2>1 DEF FlowInv, Ordered
    <2> QED
      BY <1>2, <2>2, <2>3
  <1>9. RetryFits'
    <2> SUFFICES ASSUME NEW q \in retrying, q # p
                 PROVE  /\ tries'[q] <= MaxTries
                        /\ \E s \in conf.tasks : Part(s) = q /\ st'[s] \in {"failed", "reverted", "stuck"}
                        /\ \A u \in Tasks : Part(u) = q => st'[u] # "running"
                        /\ \A s, u \in conf.tasks :
                              Part(s) = q /\ Part(u) # q /\ Before(s, u) => st'[u] = "pending"
      BY <1>1 DEF RetryFits
    <2>1. /\ tries[q] <= MaxTries
          /\ \A u \in Tasks : Part(u) = q => st[u] # "running"
          /\ \A s, u \in conf.tasks :
                Part(s) = q /\ Part(u) # q /\ Before(s, u) => st[u] = "pending"
      BY DEF FlowInv, RetryFits
    <2>2. PICK s \in conf.tasks : Part(s) = q /\ st[s] \in {"failed", "reverted", "stuck"}
      BY DEF FlowInv, RetryFits
    <2>3. Part(s) = q /\ st'[s] \in {"failed", "reverted", "stuck"}
      BY <1>2, <2>2
    <2>4. tries'[q] <= MaxTries
      BY <1>1, <1>5, <2>1 DEF TypeOK
    <2>5. \A u \in Tasks : Part(u) = q => st'[u] # "running"
      BY <1>2, <2>1
    <2>6. \A r, u \in conf.tasks : Part(r) = q /\ Part(u) # q /\ Before(r, u) => st'[u] = "pending"
      BY <1>2, <2>1
    <2> QED
      BY <2>3, <2>4, <2>5, <2>6
  <1>10. ModeFits'
    BY <1>1, <1>2, PartFacts DEF FlowInv, ModeFits
  <1>11. Recorded'
    BY <1>1, <1>2 DEF FlowInv, Recorded, Behind
  <1>12. Upgraded'
    <2>1. App("upgrade") \in Tasks /\ Part(App("upgrade")) # p
      BY TaskFacts, PartFacts DEF AppKinds
    <2> QED
      BY <1>1, <1>2, <2>1 DEF FlowInv, Upgraded
  <1>13. Loads'
    <2> SUFFICES ASSUME NEW d \in Databases, results[<<"load", d>>] = "success"
                 PROVE  db[d] = "new" /\ st'[<<"load", d>>] \in Behind /\ d \notin retrying'
      BY <1>1 DEF Loads
    <2>1. <<"load", d>> \in Tasks /\ Part(<<"load", d>>) = d
      BY TaskFacts, PartFacts
    <2>2. db[d] = "new" /\ st[<<"load", d>>] \in Behind /\ d \notin retrying
      BY DEF FlowInv, Loads
    <2> QED
      BY <1>1, <1>2, <2>1, <2>2
  <1>14. Dumps'
    <2> SUFFICES ASSUME NEW d \in Databases, results[<<"dump", d>>] = "success"
                 PROVE  dumped[d] \in Contents \/ st'[<<"dump", d>>] = "failed"
      BY <1>1 DEF Dumps
    <2>1. <<"dump", d>> \in Tasks /\ Part(<<"dump", d>>) = d
      BY TaskFacts, PartFacts
    <2>2. dumped[d] \in Contents \/ st[<<"dump", d>>] = "failed"
      BY DEF FlowInv, Dumps
    <2> QED
      BY <1>1, <1>2, <2>1, <2>2
  <1>15. FirstTry'
    <2> SUFFICES ASSUME NEW d \in Databases, HasDb("dump", d), tries'[d] = 1
                 PROVE  /\ st'[<<"dump", d>>] = "done" => dumped[d] = "old"
                        /\ st'[<<"load", d>>] # "pending" \/ db[d] # "old" =>
                              dumped[d] = "old" /\ st'[<<"dump", d>>] \in Behind
      BY <1>1 DEF FirstTry, HasDb, Touched
    <2>1. <<"dump", d>> \in Tasks /\ Part(<<"dump", d>>) = d
      BY TaskFacts, PartFacts
    <2>2. <<"load", d>> \in Tasks /\ Part(<<"load", d>>) = d /\ d \in Parts
      BY TaskFacts, PartFacts
    <2>3. d # p
      BY <1>4, <1>5
    <2>4. tries[d] = 1
      BY <1>5, <2>2, <2>3
    <2>5. st'[<<"dump", d>>] = st[<<"dump", d>>] /\ st'[<<"load", d>>] = st[<<"load", d>>]
      BY <1>2, <2>1, <2>2, <2>3
    <2> QED
      BY <2>4, <2>5 DEF FlowInv, FirstTry, Touched
  <1> QED
    BY <1>6, <1>7, <1>8, <1>9, <1>10, <1>11, <1>12, <1>13, <1>14, <1>15 DEF FlowInv

LEMMA EndInv == ASSUME FlowInv, End PROVE FlowInv'
  <1>1. /\ TypeOK /\ mode' = "end"
        /\ UNCHANGED <<conf, st, tries, retrying, results, files, saved, running, db, dumped, executed>>
    BY DEF FlowInv, End, worldVars
  <1>2. ASSUME NEW t \in Tasks PROVE st[t] \notin {"running", "failed"}
    <2>1. CASE mode = "run"
      <3>1. \A s \in conf.tasks : st[s] = "done"
        BY <2>1 DEF End
      <3> QED
        BY <3>1 DEF FlowInv, OnlyAsked
    <2>2. CASE mode \in {"prepare fails", "revert"}
      <3>1. \A s \in Tasks : st[s] # "running" /\ ~ Turn(s)
        BY <2>2 DEF End
      <3>2. ASSUME st[t] = "failed" PROVE FALSE
        <4>1. t \in conf.tasks
          BY <3>2 DEF FlowInv, OnlyAsked
        <4>2. Wanted(t)
          BY <2>2, <3>2, <4>1 DEF FlowInv, ModeFits, Wanted
        <4>3. \A s \in Tasks : Before(t, s) => st[s] \in {"pending", "reverted"}
          BY <3>2, NothingAfter DEF Behind
        <4>4. Turn(t)
          BY <3>1, <3>2, <4>2, <4>3 DEF Turn
        <4> QED
          BY <3>1, <4>4
      <3> QED
        BY <3>1, <3>2
    <2> QED
      BY <2>1, <2>2 DEF End
  <1>3. ModeFits'
    BY <1>1, <1>2 DEF ModeFits
  <1>4. TypeOK' /\ Accepted'
    BY <1>1 DEF FlowInv, TypeOK, Accepted, Has, HasDb
  <1>5. OnlyAsked' /\ Ordered' /\ RetryFits' /\ Recorded'
    BY <1>1 DEF FlowInv, OnlyAsked, Ordered, RetryFits, Recorded
  <1>6. Upgraded' /\ Loads' /\ Dumps' /\ FirstTry'
    BY <1>1 DEF FlowInv, Upgraded, Loads, Dumps, FirstTry, HasDb, Touched
  <1> QED
    BY <1>3, <1>4, <1>5, <1>6 DEF FlowInv

LEMMA StutterInv == FlowInv /\ UNCHANGED vars => FlowInv'
  <1> SUFFICES ASSUME FlowInv, UNCHANGED vars PROVE FlowInv'
    OBVIOUS
  <1>1. UNCHANGED <<conf, mode, st, tries, retrying, results>>
    BY DEF vars, engineVars
  <1>2. UNCHANGED <<files, saved, running, db, dumped, executed>>
    BY DEF vars, worldVars
  <1>3. TypeOK' /\ Accepted'
    BY <1>1, <1>2 DEF FlowInv, TypeOK, Accepted, Has, HasDb
  <1>4. OnlyAsked' /\ Ordered' /\ RetryFits' /\ Recorded' /\ ModeFits'
    BY <1>1 DEF FlowInv, OnlyAsked, Ordered, RetryFits, Recorded, ModeFits
  <1>5. Upgraded' /\ Loads' /\ Dumps' /\ FirstTry'
    BY <1>1, <1>2 DEF FlowInv, Upgraded, Loads, Dumps, FirstTry, HasDb, Touched
  <1> QED
    BY <1>3, <1>4, <1>5 DEF FlowInv

-----------------------------------------------------------------------------
LEMMA StepInv == FlowInv /\ [Next]_vars => FlowInv'
  <1> SUFFICES ASSUME FlowInv, [Next]_vars PROVE FlowInv'
    OBVIOUS
  <1>1. CASE \E t \in Tasks : Step(t)
    <2>1. PICK t \in Tasks : Step(t)
      BY <1>1
    <2> QED
      BY <2>1, ExecuteInv, SucceedsInv, FailsInv, RevertInv DEF Step
  <1>2. CASE \E p \in Parts : Retry(p)
    BY <1>2, RetryInv
  <1>3. CASE End
    BY <1>3, EndInv
  <1>4. CASE UNCHANGED vars
    BY <1>4, StutterInv
  <1> QED
    BY <1>1, <1>2, <1>3, <1>4 DEF Next

LEMMA AlwaysFlowInv == Spec => []FlowInv
  BY InitInv, StepInv, PTL DEF Spec

\* The types of the engine's state, of the results and of what the tasks work on.
THEOREM TypeCorrect == Spec => []TypeOK
  <1>1. FlowInv => TypeOK
    BY DEF FlowInv
  <1> QED
    BY <1>1, AlwaysFlowInv, PTL

\* A database that a load has touched has, in the first try of its part, a backup file of
\* what it held before (database.py: MysqlDump comes before MysqlUpdate).
THEOREM BackupIsOriginalHolds == Spec => []BackupIsOriginal
  <1>1. FlowInv => BackupIsOriginal
    BY DEF FlowInv, FirstTry, BackupIsOriginal
  <1> QED
    BY <1>1, AlwaysFlowInv, PTL

\* At the end of the flow, the results the caller reads agree with what became of the
\* files and of the databases (middleware.results, taskflow/base.py).
THEOREM ResultsTellTruthHolds == Spec => []ResultsTellTruth
  <1>1. ASSUME FlowInv PROVE ResultsTellTruth
    <2> SUFFICES ASSUME mode = "end"
                 PROVE  /\ results[App("upgrade")] = "success" => files = "new"
                        /\ \A d \in Databases :
                              /\ results[<<"load", d>>] = "success" => db[d] = "new"
                              /\ results[<<"dump", d>>] = "success" => dumped[d] \in Contents
                        /\ \A t \in Tasks : results[t] = None => st[t] = "pending"
      BY DEF ResultsTellTruth
    <2>1. \A t \in Tasks : st[t] \notin {"running", "failed"}
      BY <1>1 DEF FlowInv, ModeFits
    <2>2. results[App("upgrade")] = "success" => files = "new"
      BY <1>1 DEF FlowInv, Upgraded
    <2>3. \A d \in Databases : results[<<"load", d>>] = "success" => db[d] = "new"
      BY <1>1 DEF FlowInv, Loads
    <2>4. \A d \in Databases : results[<<"dump", d>>] = "success" => dumped[d] \in Contents
      BY <1>1, <2>1, TaskFacts DEF FlowInv, Dumps
    <2>5. \A t \in Tasks : results[t] = None => st[t] = "pending"
      <3>1. \A t \in Tasks : st[t] \in {"pending", "running", "done", "failed", "reverted", "stuck"}
        BY <1>1 DEF FlowInv, TypeOK
      <3> QED
        BY <1>1, <2>1, <3>1 DEF FlowInv, Recorded, Behind
    <2> QED
      BY <2>2, <2>3, <2>4, <2>5
  <1> QED
    BY <1>1, AlwaysFlowInv, PTL
=============================================================================
