------------------------------ MODULE AppFlow ------------------------------
(***************************************************************************)
(* The task flow of an application agent: files are fetched and the        *)
(* application is saved, in parallel; then, for each entity, it is created *)
(* or stopped, its files and its databases are changed in parallel, it is  *)
(* updated, started or deleted.  A database is created, dumped and loaded  *)
(* in a row, which is tried again as often as asked.                       *)
(*                                                                         *)
(* The engine (simpleflow) runs a task when those before it are done.      *)
(* When one fails, the ones under way end, and every task that was run is  *)
(* reverted when those after it are; a revert that raises leaves the ones  *)
(* before it alone.  A part with a retry is reverted, and run again.  Each *)
(* entity has an engine of its own, so one entity is modelled.             *)
(***************************************************************************)
EXTENDS Naturals, FiniteSets

None == "none"
AppKinds == {"get", "backup", "sqlget", "create", "stop", "upgrade", "update", "start", "delete"}

CONSTANTS
    Databases,   \* the databases of the application
    MaxTries     \* bound on database.retry

ASSUME FlowAssumption ==
    MaxTries \in Nat \ {0} /\ (AppKinds \cup {None}) \cap Databases = {}

Tasks == (AppKinds \X {None}) \cup ({"dbcreate", "dump", "load"} \X Databases)
App(kind) == <<kind, None>>

VARIABLES
    conf,      \* what the caller asks for: the tasks; by database, what its update says
               \* and how often its part is tried
    mode,      \* of the engine
    st,        \* the state of each task
    tries,     \* how often the part of each database, and the stop, was begun
    retrying,  \* the parts that are being reverted to be run again
    results,   \* middleware.results
    files,     \* the application's files
    saved,     \* backupfile
    running,   \* does the application run
    db,        \* what each database holds
    dumped,    \* what the backup file of each database holds
    executed   \* MysqlUpdate.executed

worldVars == <<files, saved, running, db, dumped, executed>>
engineVars == <<mode, st, tries, retrying>>
vars == <<conf, engineVars, results, worldVars>>

Parts == Databases \cup {"stop"}
Contents == {"old", "part", "new"}
Configs ==
    [tasks : SUBSET Tasks, rollback : SUBSET Databases, revertable : SUBSET Databases,
     byrow : SUBSET Databases, tries : [Databases -> 1..MaxTries]]

TypeOK ==
    /\ conf \in Configs
    /\ mode \in {"run", "prepare fails", "revert", "end"}
    /\ st \in [Tasks -> {"pending", "running", "done", "failed", "reverted", "stuck"}]
    /\ tries \in [Parts -> 1..(MaxTries + 1)]
    /\ retrying \subseteq Parts
    /\ results \in [Tasks -> {None, "success", "failed", "reverted", "revert fail"}]
    /\ files \in Contents \cup {None} /\ {saved, running} \subseteq BOOLEAN
    /\ db \in [Databases -> Contents]
    /\ dumped \in [Databases -> Contents \cup {None, "broken"}]
    /\ executed \in [Databases -> BOOLEAN]

(***************************************************************************)
(* What the constructors accept (Application, Database, DbUpdateFile), and *)
(* the flow that flow_factory makes of it.                                 *)
(***************************************************************************)
Has(kind) == App(kind) \in conf.tasks
HasDb(kind, d) == <<kind, d>> \in conf.tasks

Accepted ==
    /\ Has("create") => ~ Has("stop") /\ ~ Has("delete")
    /\ Has("delete") => ~ Has("upgrade") /\ ~ Has("update") /\ ~ Has("start")
    /\ Has("create") \/ Has("upgrade") => Has("get")
    /\ Has("sqlget") <=> \E d \in Databases : HasDb("load", d)
    /\ conf.rollback \subseteq conf.revertable
    /\ \A d \in conf.revertable : HasDb("load", d) /\ HasDb("dump", d)
    /\ \A d \in conf.byrow : HasDb("load", d)

Rank(kind) ==
    CASE kind \in {"get", "backup", "sqlget"} -> 0
      [] kind = "create" -> 1
      [] kind = "stop" -> 2
      [] kind \in {"upgrade", "dbcreate", "dump", "load"} -> 3
      [] kind = "update" -> 4
      [] kind = "start" -> 5
      [] kind = "delete" -> 6

\* Mutant: a database is dumped after it has been loaded.
DbRank_LoadFirst(kind) ==
    CASE kind = "dbcreate" -> 1 [] kind = "dump" -> 3 [] OTHER -> 2

DbRank(kind) == CASE kind = "dbcreate" -> 1 [] kind = "dump" -> 2 [] OTHER -> 3

Before(s, t) ==
    \/ Rank(s[1]) < Rank(t[1])
    \/ s[2] # None /\ s[2] = t[2] /\ DbRank(s[1]) < DbRank(t[1])

Part(t) == IF t[2] # None THEN t[2] ELSE t[1]
Prepares(t) == Rank(t[1]) = 0

Init ==
    /\ conf \in Configs /\ Accepted
    /\ mode = "run" /\ st = [t \in Tasks |-> "pending"]
    /\ tries = [p \in Parts |-> 1] /\ retrying = {}
    /\ results = [t \in Tasks |-> None]
    /\ files = IF Has("create") THEN None ELSE "old"
    /\ saved = FALSE /\ running = ~ Has("create")
    /\ db = [d \in Databases |-> "old"] /\ dumped = [d \in Databases |-> None]
    /\ executed = [d \in Databases |-> FALSE]

Set(t, state) == st' = [st EXCEPT ![t] = state]
Return(t, result) == results' = [results EXCEPT ![t] = result]

(***************************************************************************)
(* Tasks are executed.                                                     *)
(***************************************************************************)
Execute(t) ==
    /\ mode = "run" /\ t \in conf.tasks /\ st[t] = "pending" /\ Part(t) \notin retrying
    /\ \A s \in conf.tasks : Before(s, t) => st[s] = "done"
    /\ Set(t, "running")
    /\ UNCHANGED <<conf, mode, tries, retrying, results, worldVars>>

\* The execution ends well, and post_execute records it.  What the plugin's tasks do is
\* what their names say.
Succeeds(t) ==
    /\ st[t] = "running" /\ Set(t, "done") /\ Return(t, "success")
    /\ files' = IF t[1] \in {"create", "upgrade"} THEN "new"
                ELSE IF t[1] = "delete" THEN None ELSE files
    /\ saved' = (saved \/ t[1] = "backup")
    /\ running' = ((running \/ t[1] = "start") /\ t[1] # "stop")
    /\ db' = [d \in Databases |-> IF t = <<"load", d>> THEN "new" ELSE db[d]]
    /\ dumped' = [d \in Databases |-> IF t = <<"dump", d>> THEN db[d] ELSE dumped[d]]
    /\ executed' = [d \in Databases |-> executed[d] \/ t = <<"load", d>>]
    /\ UNCHANGED <<conf, mode, tries, retrying>>

\* A load that fails has changed the database or not; row by row, it counts what it has
\* executed, from a file it counts the attempt.
LoadFails(d) ==
    /\ db' \in {[db EXCEPT ![d] = c] : c \in {db[d], "part"}}
    /\ executed' = [executed EXCEPT ![d] = @ \/ d \notin conf.byrow \/ db'[d] # db[d]]

\* An execution that fails leaves what it works on as it was or in the middle.
Damage(t) ==
    /\ IF t[1] \in {"create", "upgrade", "delete"} THEN files' \in {files, "part"}
       ELSE UNCHANGED files
    /\ IF t[1] \in {"start", "stop"} THEN running' \in BOOLEAN ELSE UNCHANGED running
    /\ IF t[1] = "dump" THEN dumped' = [dumped EXCEPT ![t[2]] = "broken"]
       ELSE UNCHANGED dumped
    /\ IF t[1] = "load" THEN LoadFails(t[2]) ELSE UNCHANGED <<db, executed>>
    /\ UNCHANGED saved

\* Mutant: AppKill never gives up.
TriesLeft_Always(t) == t[1] = "stop" \/ (t[2] # None /\ tries[t[2]] < conf.tries[t[2]])

\* Times, and AppKill, which tries again at most once, or never: that depends on
\* whether the engine counts the attempt that has failed in the history.
TriesLeft(t) ==
    \/ t[1] = "stop" /\ tries["stop"] < 2
    \/ t[2] # None /\ tries[t[2]] < conf.tries[t[2]]

Fails(t) ==
    /\ st[t] = "running" /\ Set(t, "failed") /\ Damage(t)
    /\ \/ /\ mode = "run" /\ TriesLeft(t)
          /\ retrying' = retrying \cup {Part(t)} /\ UNCHANGED mode
       \/ /\ ~ (mode = "run" /\ t[2] # None /\ TriesLeft(t))
          /\ mode' = IF Prepares(t) THEN "prepare fails" ELSE "revert"
          /\ UNCHANGED retrying
    /\ UNCHANGED <<conf, tries, results>>

(***************************************************************************)
(* Tasks are reverted.                                                     *)
(***************************************************************************)
\* StandardTask.revert: a task that failed is recorded as such, another is not touched.
Record(t) == IF st[t] = "failed" THEN Return(t, "failed") ELSE UNCHANGED results

\* AppUpgradeFileGet, and AppBackUp, whose revert reads the error of a result that may
\* be none.
RevertPrepare(t) ==
    /\ IF st[t] = "failed" /\ t[1] # "sqlget" THEN Return(t, "reverted") ELSE Record(t)
    /\ Set(t, IF st[t] = "done" /\ t[1] = "backup" THEN "stuck" ELSE "reverted")
    /\ UNCHANGED worldVars

\* AppFileUpgradeByFile: only its own failure is reverted, from the backup file; that
\* there is none counts as reverted.
RevertUpgrade(t) ==
    /\ \/ st[t] = "done" /\ UNCHANGED <<results, files>>
       \/ st[t] = "failed" /\ ~ saved /\ Return(t, "reverted") /\ UNCHANGED files
       \/ st[t] = "failed" /\ saved /\ Return(t, "reverted") /\ files' = "old"
       \/ st[t] = "failed" /\ saved /\ Return(t, "revert fail") /\ files' \in {files, "part"}
    /\ Set(t, "reverted")
    /\ UNCHANGED <<saved, running, db, dumped, executed>>

\* Mutant: a dump that fails is removed, but not recorded.
RevertDump_NoRecord(t) ==
    /\ IF st[t] = "failed" THEN dumped' = [dumped EXCEPT ![t[2]] = None] ELSE UNCHANGED dumped
    /\ Set(t, "reverted")
    /\ UNCHANGED <<results, files, saved, running, db, executed>>

\* MysqlDump: what a dump that failed has written is removed.
RevertDump(t) ==
    /\ IF st[t] = "failed"
       THEN Return(t, "reverted") /\ dumped' = [dumped EXCEPT ![t[2]] = None]
       ELSE UNCHANGED <<results, dumped>>
    /\ Set(t, "reverted")
    /\ UNCHANGED <<files, saved, running, db, executed>>

\* MysqlUpdate: it is recorded as reverted before the backup file is looked for, under
\* a name that is no name (TypeError).
RevertLoad(t) ==
    /\ IF (st[t] = "failed" \/ t[2] \in conf.rollback) /\ t[2] \in conf.revertable
       THEN Return(t, "reverted") /\ Set(t, IF executed[t[2]] THEN "stuck" ELSE "reverted")
       ELSE Record(t) /\ Set(t, "reverted")
    /\ UNCHANGED worldVars

RevertOther(t) == Record(t) /\ Set(t, "reverted") /\ UNCHANGED worldVars

Wanted(t) ==
    \/ Part(t) \in retrying
    \/ mode = "prepare fails" /\ Prepares(t)
    \/ mode = "revert" /\ ~ Prepares(t)

\* Those after t in the flow have been reverted, or were never run.
Turn(t) ==
    /\ st[t] \in {"done", "failed"} /\ Wanted(t)
    /\ mode # "run" => \A s \in Tasks : st[s] # "running"
    /\ \A s \in Tasks : Before(t, s) => st[s] \in {"pending", "reverted"}

Revert(t) ==
    /\ Turn(t)
    /\ CASE Prepares(t) -> RevertPrepare(t)
         [] t[1] = "upgrade" -> RevertUpgrade(t)
         [] t[1] = "dump" -> RevertDump(t)
         [] t[1] = "load" -> RevertLoad(t)
         [] OTHER -> RevertOther(t)
    /\ mode' = IF st'[t] = "stuck" /\ mode = "run" THEN "revert" ELSE mode
    /\ UNCHANGED <<conf, tries, retrying>>

\* The part has been reverted, and is run again.
Retry(p) ==
    /\ mode = "run" /\ p \in retrying
    /\ \A t \in Tasks : Part(t) = p => st[t] \in {"pending", "reverted"}
    /\ st' = [t \in Tasks |-> IF Part(t) = p THEN "pending" ELSE st[t]]
    /\ tries' = [tries EXCEPT ![p] = @ + 1] /\ retrying' = retrying \ {p}
    /\ UNCHANGED <<conf, mode, results, worldVars>>

\* Mutant: the engine waits until everything is reverted.
End_WhenReverted ==
    /\ \/ mode = "run" /\ \A t \in conf.tasks : st[t] = "done"
       \/ /\ mode \in {"prepare fails", "revert"}
          /\ \A t \in Tasks : Wanted(t) => st[t] \in {"pending", "reverted"}
    /\ mode' = "end"
    /\ UNCHANGED <<conf, st, tries, retrying, results, worldVars>>

\* Nothing is left to run or to revert.  EntityTask swallows the error.
End ==
    /\ \/ mode = "run" /\ \A t \in conf.tasks : st[t] = "done"
       \/ /\ mode \in {"prepare fails", "revert"}
          /\ \A t \in Tasks : st[t] # "running" /\ ~ Turn(t)
    /\ mode' = "end"
    /\ UNCHANGED <<conf, st, tries, retrying, results, worldVars>>

Step(t) == Execute(t) \/ Succeeds(t) \/ Fails(t) \/ Revert(t)

Next ==
    \/ \E t \in Tasks : Step(t)
    \/ \E p \in Parts : Retry(p)
    \/ End

Spec == Init /\ [][Next]_vars

\* The engine goes on, and tasks that work on the application and its databases end: the
\* database clients are killed after their timeout, the plugin's tasks end by themselves.
\* A task that fetches a file need not: it waits in filemanager.get, whatever its timeout.
Progress ==
    \/ \E t \in Tasks :
          \/ Execute(t) \/ Revert(t)
          \/ ~ Prepares(t) /\ (Succeeds(t) \/ Fails(t))
    \/ \E p \in Parts : Retry(p)
    \/ End

FairSpec == Spec /\ WF_vars(Progress)

-----------------------------------------------------------------------------
Touched(d) == db[d] # "old"

\* Whenever a load has touched a database that is to be dumped, the backup file holds
\* what the database held before: the first time.  A second try dumps what the first has
\* left.
BackupIsOriginal ==
    \A d \in Databases :
        HasDb("dump", d) /\ Touched(d) /\ tries[d] = 1 => dumped[d] = "old"

\* The results the caller reads at the end: what is recorded as a success was done and
\* is still so, what is recorded as not executed never ran, and a failure is recorded.
ResultsTellTruth ==
    mode = "end" =>
        /\ results[App("upgrade")] = "success" => files = "new"
        /\ \A d \in Databases :
              /\ results[<<"load", d>>] = "success" => db[d] = "new"
              /\ results[<<"dump", d>>] = "success" => dumped[d] \in Contents
        /\ \A t \in Tasks : results[t] = None => st[t] = "pending"

\* The flow ends, whatever fails: unless a task waits for ever for the file it fetches.
FlowEnds ==
    \/ <>(mode = "end")
    \/ \E t \in Tasks : Prepares(t) /\ <>[](st[t] = "running")
=============================================================================
