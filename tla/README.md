# Goperation in TLA+

A verification development for Goperation, a framework to operate software on many
hosts. The modules are translated from the code under `src/goperation` (Python 2,
eventlet). Line numbers are those of this commit; `base.py` alone means
`manager/rpc/agent/base.py`, `gdata.py` `manager/gdata.py`, `controller.py` the controller
of the section's subject, `README.md:NN` the README under `src/`.

## 1. The system

Three kinds of processes share a MySQL database, a redis server and a rabbit broker.

* **gcenter-wsgi**, several worker processes, each with many green threads. A thread
  serves one HTTP request: it takes global locks in redis, opens a database
  transaction, calls or casts to agents, and commits.
* **gcenter-rpc**, the rpc server. It receives asynchronous requests and agents' loads
  by rpc, casts to agents and runs checkers and periodic tasks in green threads.
* **agents**, one per host and type (application, scheduler). An agent keeps the ids
  and ports of its entities in memory, runs the rpc methods of its endpoints (plugins)
  under locks, and answers by rpc or, for asynchronous requests, by HTTP to gcenter.

A green thread is preempted only where it blocks: a call to redis, the database, the
broker, HTTP, a semaphore or `eventlet.sleep`. These are the step boundaries of the
modules. Between them a handler is one action.

### Inventory

| component | state | operations | what is hard | correct when |
|---|---|---|---|---|
| asynchronous requests (`wsgi/contorller.py`, `rpc/server/__init__.py`, `utils/responeutils.py`, `wsgi/asyncrequest`) | the request row, the answers (database or redis), the checker's counters | send, record, cast, poll, bulk insertion of overtime records, verdict, answer, reserved `overtime` interface | sender, redelivered message, checker and late answers race; bulk insertion fails in part; workers die | the verdict is true, written once, and every silent agent has a record |
| global locks (`gdata.py` 40-246, `redis/client.py` 97-153) | two redis keys per endpoint, garbage lists per process | lock all, agents, entities, endpoint; release; garbage collection | optimistic locking, wrong-type errors as mutual exclusion, timeouts whose effect is unknown | holders exclude each other, releases remove what was taken, calls return |
| agent life cycle (`wsgi/agent`, `wsgi/entity`, `gdata.py` 325-343, `base.py`) | agent row, entity rows, row locks; agent status, frozen, entities | two-phase deletion, active, entity create and delete, start, upgrade, stop | a transaction around an rpc call; checks before transactions; refusal, timeouts, restarts | database and agent agree; a deleted agent is empty and stays deleted |
| agent ports (`base.py` 385-390, 454-460, 523-571, 604-659, 873-949) | `left_ports`, `allocked_ports`, websockets | load at start, allocate, free, websocket start and end | errors in the middle of an allocation; a child that ends late | each port is free or belongs to one owner |
| endpoint locks (`base.py` 305-360) | `frozen`, semaphores | lock, locks | `frozen` is both a mutex and a state; timeouts in a sequence of locks | an entity has one worker; failed `locks` release what they got |
| agent list and online cache (`gdata.py` 250-457, `wsgi/agent`, `wsgi/cache`) | agents' rows, redis sorted set of ids with scores, metadata keys, a process's copies | all_agents, add, delete, clean, flush, report, online, metadata | the set is filled from a read while agents come and go; reports write it without a lock; copies are trusted by a score that is written after the data | no live agent is missing, nobody else is listed, a trusted copy is current |
| port and endpoint requests (`wsgi/port`, `wsgi/endpoint`) | rows | create, delete | agent and database must agree on ports | rows match the agent's ports |
| agent loads and choice (`rpc/server/__init__.py` 81-95, 343-482) | dict of loads, expiry times | change, delete, expire, choose | green threads change the dictionary while it is used | an expired agent is not chosen |
| conditions, executers (`rpc/server/condition`, `executer`) | none of their own | before, after and check hooks of an asynchronous request | hooks run in the checker | hooks do not change a verdict's truth |
| file manager (`filemanager/__init__.py`) | files on disk, a sqlite table, a map, an event per download | scan, find, get, download, delete, expire, stop | many waiters on one download that may fail; downloads take no lock; deaths in the middle of a file | a file handed out is whole; who waits, waits on somebody |
| tokens and fernet keys (`manager/tokens.py`, `utils/fernet.py`) | key files, loaded keys, tokens in redis | initialise, rotate, load, reload; create, fetch, expire | a listing and single opens against renames; a rotation that dies; processes that reload at other times | a living token is read by every process |
| redis pool (`redis/connection.py`, `redis/client.py` 55-95, 155-176) | connections, heart beat, garbage | get, release, start, stop | the limit, broken connections | at most the limit is in use; the pool recovers |
| scheduler (`rpc/agent/scheduler`, `wsgi/agent/scheduler`) | jobs, their rows and loops | schedule, start, run, stop | a semaphore taken twice, times in the past | a job runs as often as asked |
| application agent, task flows (`rpc/agent/application`) | the application's files, databases, their backups, the results | get, backup, create, stop, upgrade, dump, load, update, start, delete; retry, revert | any task fails at any place and is reverted by a revert that may fail | the results are true, the backup is the original's, the flow ends |
| websocket helpers (`websocket`, `base.py` 861-971) | child processes, temporary and published files, the agent's count of readers | upload, readlog, kill, wait, notify | fork, handshake, timers, signals and client decide together how a process ends | a published file is whole, the observer is told the truth, every process is waited for |
| HTTP client, API, filters, routers, commands, configuration | none or read-only | plumbing | retries of posts | modelled as duplicate deliveries where they matter |

Interactions. The sender and the rpc server both write an asynchronous request's row;
answers reach the wsgi workers, which write the records the checker reads. Every
operation on agents or entities runs under a global lock; the agent's life cycle is
written with the protection the locks really give (section 3.2), which is the row
locks of the database and not more. The agent list is filled, extended and emptied under
the lock of all agents, shrunk under the lock of one, which another request may take too, and
extended by reports under none.
The life cycle and the ports share an agent's `allocked_ports`; log readers take a port
(AgentPorts) and a process (Websocket). An application's flow fetches its files through
the file manager. `PROJECT.json` lists the hazards line by line.

## 2. Plan and state

| module | subject | what it promises |
|---|---|---|
| `AsyncRequest`, `AsyncRequestProofs` | one request to its verdict | verdict and records agree; it implements `RequestPromise` |
| `RequestPromise` | what a client may rely on: verdict, awaited agents, records | one verdict, on what is kept |
| `GlobalLock`, `GlobalLockProofs` | the four locks on two keys | exclusion of whole and members |
| `AgentLifecycle`, `AgentLifecycleProofs` | an agent and the requests about it | a deleted agent runs nothing and has no entity it was told of, requests end |
| `EndpointLocks`, `AgentPorts`, composed by `AgentHost`; `AgentHostProofs` | an agent's handlers under its locks, and its ports | a block of ports is its entity's alone; an allocation is all or nothing |
| `FileManager`; `AgentFilesProofs` | the cache of downloaded files | known files are whole, waiters are served |
| `FernetKeys`, `FernetKeysProofs` | rotation, loading and reloading of keys | a living token is read |
| `AgentDirectory`, `AgentDirectoryProofs` | the list of agents and the online cache | nobody is missing, nobody is left, copies are current, but for named cases |
| `AppFlow`, `AppFlowProofs` | the task flow of an application | the results are true, the flow ends unless a fetch waits for ever |
| `Websocket`; `AgentFilesProofs` | upload and log processes | the outcome is true, calls end |

Each `MC...` module instantiates its module for TLC; its `.cfg` files are the runs. The
plan is carried out; what is left of the system is in section 5, with the reasons.

## 3. Modules and runs

### 3.1 AsyncRequest

One request. `sender` is `send_asyncrequest`; `Handlers` are deliveries of its message
to gcenter-rpc (`rpc_asyncrequest` and the checker thread it spawns), each with its
program counter; `row` is the `asyncrequests` row, `rec` the answer stored for each
agent, in the database (`Storage = "db"`, the request's `expire` is 0) or in redis.
`silent` and `left` are the checker's `no_response_agents` and `not_overtime`;
`posted` holds the answers agents have sent, which a wsgi thread may handle late,
twice or never; `overwriting` those that have read a record with the overtime code and
will overwrite it. `InsertRow` is an insertion refused by the primary key. The
`Bulk...` operators translate `bluk_insert`: which rows are duplicates, which are
written, what is left of the silent set, and when the second removal raises.

* `async_db`: two agents, two deliveries, workers that die. Verdicts tell the truth
  (`NeverSentNeverExecuted`, `SuccessMeansAllAnswered`) and are final (`FinishIsFinal`);
  every agent that is awaited has a record when not all succeeded
  (`EverySilentAgentRecorded`), although the bulk insertion may fail in part; no awaited
  agent starts after the verdict; a request that is polled is closed
  (`CheckedRequestFinishes`) unless its worker dies or the insertion raises. All of the
  request implements `RequestPromise` (`KeepsPromise`), which knows no sender, handler,
  checker or clock: a request is accepted once or declined before anyone is asked, agents
  work and answer, awaited ones not after the verdict, answers take the place of records,
  overtime records only that of nothing, and the verdict is given once, on the records
  there are. `Verdict` maps the row's status and code to it, `Heard` the posted answers.
  Where the records last (`Durable`, that is the database) the verdict speaks of records,
  else only of answers; the run has the database, the proof both.
* `async_redis`: redis with expiring answers, and the reserved interface as a second
  writer of the verdict. `OvertimeNeverReplacesAnswer` survives both: an answer may land
  between the last poll and the bulk insertion, and is never replaced.

Also visible in the model, and not kept as a run: with redis, or with two duplicates, the
checker dies of a `KeyError` in `bluk_insert` (responeutils.py:136) and the request stays
`UNFINISH`; `CheckedRequestFinishes` excepts it.

Bounds: the clock runs to 4 with finishtime 1 and deadline 2, so that work, deadline
and the checker's two extra seconds all lie inside; two agents give a first and
another silent agent, which is what `bluk_insert` distinguishes; two deliveries give
one redelivery. The proofs need none of them.

Fairness (`CheckerFairness`): the clock and the checker thread, since eventlet resumes
a thread whose sleep or call ended. Agents, broker and sender owe nothing.

### 3.2 GlobalLock

`key` holds the two redis keys, each absent, a string or a set of marks; every action
is one redis command or one atomic `MULTI`, `watching` is `WATCH`. A thread asks for
the whole agent list, some agents, an agent and then an endpoint (entity creation), or
an entity with its agent. `over` says that `alloctime` is over. `garbage` is the
collector's list. `robbed` is a history variable: whose marks another's release removed.

* `lock_exclusion`: three threads of two processes and all requests, without
  failures of redis. Whole locks exclude each other and, but for robbed marks, member
  locks; keys have holders.
* `lock_live`: with timeouts of redis, dying processes and what they leave,
  every call returns, by success or `AllocLockTimeout`.

Also visible in the model, and not kept as runs: two threads lock the same agent (the
loop's `continue` at gdata.py:149 goes on with the next id, and `locked = False` follows in
any case; `AgentLockExclusive`, stated in the module, is violated); marks of an entity
deletion that notifies its agent stay in redis (`agents.pop()` at entity/controller.py:217
empties the set that the release is given; `KeysHaveHolders` therefore leaves out the agents
with entities); two threads lock one entity (the marks are read before `WATCH`); the
collector deletes a key another thread of its process holds (all share one `locker`
string).

Bounds: three threads are needed for two holders and a third whose release robs one.
Two agents tell a lock on one from a lock on both. `Home`, the agent of an entity, is
fixed. What a deletion does after it lost its marks is in `AgentDirectory`;
`TargetCountUnequal` is not modelled; `_lock_autorelase` is unreachable.

Fairness: each thread's own steps and the clock, weakly: bodies end since their calls
have timeouts.

### 3.3 AgentLifecycle

One agent and the requests about it. `row`, `rows`, `xlock`, `slock` are the agent's
row, the entity rows and the row lock: an `UPDATE` is exclusive, an `INSERT` of an entity
shares the parent row (foreign key). Each request is a thread with a record `req` (kind,
argument, the status it has read), a place `pc` and the state of its rpc `call`. The
agent has `life`, `status`, `frozen`, `entitys`, `upgrading` and what `agent_show` told
it at its start. The actions named after a request's part (`DeleteCheck`,
`DeleteUpdate`, `DeleteRefused`, ...) are the code between two blocking calls;
`Precommit`, `Postcommit`, `Activate`, `CheckEndpoint` and `TakeLock` are the agent's
handlers. An entity may be created or deleted with `notify=False` (entity/controller.py:84, 140,
204, 225): the row is written and committed (`SilentCommit`) without a look at the agent's
metadata and without a call. `untold` is a history variable: the entities whose row was last
changed that way, of which the agent knows nothing. `Leave` is the end of a request whose call the agent may still handle.

Faults are counted (`faults`, at most `MaxFaults`): the agent's death and its later starts,
calls that time out while the agent works, casts and workers that are lost.

* `life_deletion`: three requests of all kinds and two entities, no faults.
  `DeletedAgentIsEmpty`: an agent that has agreed to go runs no entity and gets none, and no row
  outside `untold` names it, though creation and deletion each check before they lock.
  `EntitysAgree`: at rest the agent's entities are the database's, but for those of `untold`.
* `life_live`: two requests and two faults. Every request ends, also when the agent dies
  and restarts and when calls, casts and workers are lost; an accepted deletion stops the
  agent.

The exception is real. A silent creation that was committed between the deletion's count of
entities (gdata.py:333) and its `UPDATE` (338), or that read the active agent before and inserts
after, leaves a row with an agent that agrees to go, since the agent, the only one who looks again,
was never told of it; and at rest, without any fault, silent requests alone make the two differ.

The two invariants hold until the first fault, and say so: after a call that timed out while
it was handled, or a restart that reads the entities during a transaction, the model
reaches agents that lack an entity or have one too many.

Also visible in the model, and not kept as runs: the agent refuses its deletion and the
row is marked deleted nevertheless, since `return` leaves the `with` without an error
(agent/controller.py:200); an `active` request that had read the row before its deletion
brings the agent back (agent/controller.py:264); a refused deletion leaves `frozen` set
until the next restart or `locks()`, against README.md:67; a handler that waited for its
lock works after the agent became inactive, against README.md:89; an agent restarted
while an entity's transaction is open runs without that entity, against base.py:566;
a forced deletion may leave an entity row that refers to the deleted agent.

Bounds: three requests, so that a deletion, a creation and a third request overlap; two
entities where no liveness is checked; two faults, so that a death and a restart, or a
lost call and a lost cast, meet in one run. Silent requests are in `life_deletion` only: they wait
for nothing but the row. `CHECK_DEADLOCK FALSE`: a deleted agent is the end of its system.

Fairness (`FairSpec`): threads are scheduled and calls time out, so the life of the agent
is weakly fair; the row lock and the agent's message queue serve first come, first
served, hence strong fairness of a request's steps and of the handling of its messages.
Nothing in the repository restarts a dead agent but the script of an upgrade, so restarts
are bounded faults and no property needs one.

Outside the repository and assumed: an endpoint's `rpc_create_entity` and
`rpc_delete_entity` (the base class raises `NotImplementedError`) enter or remove their
entity and undo their change when they fail; the rpc call does not time out before
`finishtime`; two deletions of one entity exclude one another by its row lock; `ports`
of a creation are left out since entity/controller.py:137 fails on them.

### 3.4 EndpointLocks, AgentPorts, AgentHost

Inside one agent. `EndpointLocks` is `lock()` and `locks()`. `holds` gives each thread's
semaphores: they belong to the class and are shared by all endpoints, by entity id, while
`frozen` belongs to an endpoint. A call (`CallLock`) waits for the endpoint (`Begin`,
`FrozenTimeout`), then for its semaphores one at a time (`Acquire`, `AcquireTimeout`). The
code takes a free semaphore without a pause and the model may pause there, which only adds
behaviours. `FreezeAll` is what the deletion and the upgrade do; `ordered` remembers it.

`AgentPorts` has the manager's `left_ports` (`left`), `allocked_ports` (`entries`, the
keys; `alloc`, their ports) and the ports of websocket readers. It says what each call does
to the ports (`Placeholder`, `TakePorts`, `TakePortsFails`, `FreePorts`, `UndoTake`,
`OpenWebsocket`, `WebsocketEnds`), not who calls it. `AgentHost` says that: it extends the
locks, instantiates the ports for the slots `<<endpoint, entity>>`, and lets a thread in
the body of its lock reserve, allocate, fail or delete. `taken` and `new` are the locals
`allocked_port` and `is_new` of `frozen_ports`, which are held across the work.

* `host_ports`: `FrozenByOneLocks` and `SemaphoresHaveHolders` about the locks;
  `PortInOnePlace`: no port is lost or given twice by allocations that fail in the middle,
  work that raises, and entries that go; `BlockOwnsItsPorts`: why the undo of
  `frozen_ports`, which frees ports by number and drops a new entry with whatever it
  holds, frees only its own.

Bounds: three threads give a holder, one that waits and a `locks()`; two endpoints with two
entities give the same entity id at two endpoints, and a `locks()` with two semaphores;
`MaxLock` 3 is exceeded by three threads; two ports give an allocation that takes one and
fails on the next. `CHECK_DEADLOCK FALSE`: an agent that was frozen may stay so.

External: the handlers are plugins. They are taken to work on ports in the body of a lock
of the entity, to use `frozen_ports` under `lock()` of that entity, and to drop an entity's
entry when they delete it, after `free_ports`. That is what `BlockOwnsItsPorts` rests on,
as nothing in `frozen_ports` itself takes a lock. Left out: `locks()` of no entity, more
than one `frozen_ports` in one body, and readers that outlive a restart of the agent.

The types of this module and of `GlobalLock` are not checked by a run any more: they are
proved.

### 3.5 FileManager

The agent's cache of files. `disk` says what the path of each file holds (nothing, an empty
file, a part, the whole), `rows` is the sqlite table `FileDetail`, `localmd5` the map of the
files it knows, both by digest; `downloading` are the files that have an event, `writer` the
`__download` thread of each. `record` is the row of gcenter that describes a file: usable
(`good`), or answered with an error or in a form the schema refuses (`bad`). A thread of
`Threads` runs `get`, `delete_file`, `clean_expired` or `stop`, one step between two blocking
calls: `GetLocks` is the code under the lock up to `infoget`, which is called with the lock
held; `Download` is the thread without the lock, chunk by chunk (`Write`); `DeleteLocks` the
body of a deletion. `Die` and `Start` are the death of the process at any point and the next
`scanning`, `HandRemoves` somebody who removes a file.

* `files`: two threads, two files, one death and the hand. `KnownFilesAreWhole`: what
  `find` and `get` hand out is the whole file, unless it is just being downloaded again (a download
  writes under the name a known file may have); `RowsAreKnown`: the map and the table agree
  although a download changes both without the lock; `EventsAreServed`: whoever joins an
  event waits on a thread that will send it; `WritersHaveEvents`: a download never outlives
  the session that `stop` closes.

`EventsAreServed` excepts `broken` files: an error of `infoget` or of the schema comes after
the event was published (filemanager/__init__.py:227), and nobody sends that event. That is
real, and no property of it could hold.

Bounds: two threads are a waiter and a downloader, or a stop and a deletion; two files are
needed for two empty files of one digest (`StartFails`) and for a `stop` that waits for one
while another is queued; one death is a crash and the scan after it. Abstracted: a process
can remove what it has just written; the local path a caller may pass is not modelled, since
targets are md5s; two different contents never have one md5.

### 3.6 FernetKeys

The repository of key files, the daily rotation and the processes that load it. Keys are numbered
as they are made; `repo` maps file names to keys. `job` is where `gcenter-fernet` is: it renames
file 0 (`Promote`), opens and writes the next one (`OpenKey`, `WriteKey`) and removes the oldest
(`Purge`), and may die between any two of them (`RotationDies`) or fail to set the owner of a new
file, which it then removes (`ChownFails`). `--init` makes file 0 if there is none, and rotates
(`InitBegins`). A process lists the directory (`List`), then opens file by file (`Read`,
`ReadFails`), and ends with new keys or keeps its old ones (`LoadSucceeds`, `LoadFails`).

* `keys`: two processes, five keys, two rotations that die. `TokensAreRead`: a living token
  is read by every process, whichever made it, whatever rotations began since or were under
  way; `TokenKeysAreKept`: its key is not purged.

The exceptions are stated as the history variable `missed`: a process whose load saw file 0
change under it, one that has not loaded the keys since file 0 was made when it is promoted: for
a day, or because of an `--init`. An `--init` promotes a key nobody has seen, and one that
dies after it made file 0 leaves such a key to the next rotation, so that every load before it
counts for nothing (`current`). Without them the property is false.

Assumed: cron rotates once a day, and the hourly reload has been tried by then (`DayIsOver`);
a token lives at most `Life` rotations, fewer than `fernet_expire_days`. Cryptography is
external. Bounds: `Days` 2 and `Life` 1 make the purge remove keys (`Days + 2` are kept) within five
keys; two processes are the maker and the reader of a token; two deaths are a rotation that leaves no
file 0 and the `--init` that then dies, and after the second one key less is made
(`LastDeathIsEarly`). uuid tokens are not modelled:
each is one redis key with an expiry. `TokenProvider.expire` is reached with the checker as its
`expire`, so that extending a token always fails, before anything is changed.

### 3.7 AgentDirectory

Who is an agent and who is online, for one gcenter process. `row` are the agents' rows;
`score` is the sorted set in redis (a second, or `Never`), `online` the metadata keys, `cache` the
process's copies with the score each was read under. A score is `int(time.time())` of the host
that writes (gdata.py:269, 319, 445, 451): `ZAdd` writes any of `Seconds`, so that two writes may
have the same one, and clocks may differ or be set back. Threads fill the set (`FillReads`,
`FillWrites`), add (`AddWrites`, then commit or fail; `AddRefused` is the id that is in the set
already), delete (`DeleteLocks`, `DeleteFinds`, `DeleteCommits`, `DeleteEnds`), flush, report
(`FlushReads`, `FlushSets`, `FlushScores` or `FlushFails`, which take no lock) and read metadata
(`MetadataReads`, `MetadataGets`, `MetadataStores`).

The locks are here what `GlobalLock` shows of them. `whole` is the lock of all agents, which needs
an absent key (`NothingLocked`); `marks` are the ids in the key, which only the lock of all agents
keeps out (`Mark`). Two requests may mark one id, and the first release removes the mark of both
(`Unmark`). Besides deletions any request may lock agents (`LockAgents`, `UnlockAgents`). So the
lock of all agents may be taken during a deletion that has lost its mark; `robbed` remembers these
deletions. Waiting for a lock is a disabled action; a lock that is not had in time is a request that
did not begin. Failures of redis while a lock is held or released, and a `DEL` or `ZREM` that
is tried again, are left out: `GlobalLock` has those of the locks.

* `directory`: two threads, two ids, two metadata, two seconds. `EveryAgentIsListed`,
  `ListedAgentsExist`, `TrustedCopiesAreCurrent`.

Their exceptions are real, and without any one of them the run finds a violation:

* `stub`: a set begun with the single id of an add or a report while there are other agents
  is never filled, since it is not empty.
* `ghosts`: ids written before a transaction that failed, by a report after a deletion, or by a
  fill that had read the row which a robbed deletion took.
* `lost`: two deletions of one agent overlap, one ends and takes the other's mark, the row is
  cleaned, an add gets the id again; then the second deletion's late `zrem` (gdata.py:343)
  removes a live agent. It comes back with its next change of metadata, or the next fill.
* A flush between the write of the key and of the score; and `past`, the scores an id has left
  since the oldest that somebody holds: with two writes in one second a copy made between
  them has the score of both and stays trusted.

Bounds: two threads are enough for each pair of operations to interleave, and a third request may
come and go between their steps; two ids for a stub to have someone to miss, and for an id that
comes again beside one that stays; the agent of one of them reports (`Reporters`), since reports of
both double what one does and keys of different agents do not meet; two seconds for a score that
changes and one that repeats. Nothing counts upwards, so that no clock ends the run.

### 3.8 AppFlow

The flow `flow_factory` builds for one entity (each entity has an engine of its own). `conf`
is what the caller asks for, restricted to what the constructors accept (`Accepted`); every
such request is an initial state. `Before` is the order of the flow: files and backups in
parallel, then creation or stop, then the upgrade and, for each database, creation, dump
and load in a row, then update, start, delete. `st` is the state of each task in the engine
and `results` is `middleware.results`; `files`, `db`, `dumped`, `running`, `saved` are what
the tasks work on. `Succeeds` and `Fails` end an execution (a failure leaves things as they
were or in the middle), `Revert` is `revert` of each kind of task, `Retry` the part of a
database, or `AppKill`, that is run again.

* `flow`: `BackupIsOriginal`: in the first try, a database that a load has touched has a
  backup of what it held before; `ResultsTellTruth`: at the end, what is recorded as a success
  was done and still is, what has no result never ran; `FlowEnds`: the flow ends, unless a task
  that fetches a file waits for it for ever.

Also visible in the model, and not kept as runs: a load is recorded `REVERTED`, and then
nothing is restored, since the backup is looked for under an object that is no path
(database.py:311); a second try dumps what the first has left (`BackupIsOriginal` is about
`tries[d] = 1`); the revert of a backup that had succeeded raises.

The engine (simpleflow) is external: a task runs when those before it are done; after a
failure the running ones end and what was run is reverted, last first; a revert that raises
leaves the ones before it alone. Whether the failed attempt of `AppKill` counts in its
history is left open. Plugin tasks do what their names say. Bounds: one database and two
tries, every request and every place of failure; the invariants are proved for any number.
`CHECK_DEADLOCK FALSE`: the flow ends.

Fairness: `Progress`, weakly. It is the engine's own steps and the ends of all tasks but those
that fetch files (`Prepares`: `AppUpgradeFileGet`, `AppRemoteBackupFile`, `DbUpdateFile`). Those wait in
`filemanager.get`, whose wait for the event has no timeout (filemanager/__init__.py:213; the timeout
goes to the downloader, and is `None` if not given), and the event of a file that could not be
described is never sent (section 3.5): such a task, and with it its flow, waits for ever, and
`FlowEnds` excepts just that. The dump and the load run clients that are killed after
`database.timeout or 3600` seconds. That a plugin's tasks end is assumed.

### 3.9 Websocket

The processes an agent forks: a recver writes an upload to a temporary file, a reader sends a log.
`call` is the agent's thread, `proc` the process (`Exec` to the bind of the port, `Connect` for a
client, then the session and, for a recver, `Check`), `timer` the one that kills it, `tmp` and
`output` the temporary file and the file of the md5, `note` and `sent` the notification and what
the observer got. The waiting thread's branches are actions of their own: `RecverCrashed`,
`NothingReceived`, `SizeMismatch`, `Publish`, `ReaderEnds`.

* `upload`: two uploads of one file and two readers for one place. `OutcomeIsTrue`: a
  published file is whole, although the waiting thread looks at its size only, and what the
  observer is told is true; `EveryCallEnds`: every process is waited for, whatever clients do.

Also visible in the model: after a wrong size the temporary file stays, because
`notify & eventlet.spawn_n(...)` raises before the removal (launcher.py:141); a crash before
the first byte tells nobody, because `os.remove` raises.

Assumed: the timers run longer than fork and exec; the agent waits after each upload; the
agent itself does not die. websockify is external: its listener ends after 15 seconds or an
exception, with exit code 0. Fairness: a process starts or fails, the timer runs out, the
waiting thread sees the end; nothing is asked of clients. Bounds: two uploads of one md5 race
for its name, two readers for one place.

## 4. Proofs

All theorems hold for every value of the constants that satisfies the modules' ASSUMEs,
and for `Spec`, without fairness. In each module a lemma per action says that it keeps the
inductive invariant; `StepInv` joins them.

`AsyncRequestProofs`. `CastInv` (`TypeOK`, `RowGuardsCast`, `OneActiveHandler`,
`CountdownPositive`) says why the insertion of the row before the cast matters: at most one
handler is past it, and while the row says `none` nothing was cast. From it follow `TypeCorrect`,
`NeverSentNeverExecutedHolds` and, through a lemma on what the bulk insertion leaves alone,
`OvertimeNeverReplacesAnswerHolds`. `VerdictInv` adds that the row is open while a handler is
active, that a closed row has a verdict, that stored answers were posted, that the checker's
silent set is right, and when verdicts come; from it `FinishIsFinalHolds`,
`SuccessMeansAllAnsweredHolds` and `NoFirstExecutionAfterFinishHolds`. These three assume
`~ReservedApi`: the reserved interface may rewrite a verdict. `EverySilentAgentRecordedHolds` adds
`RecordsComplete`: with the rows in the database (`Storage = "db"`; redis records expire) the
checker's silent agents have records once the bulk insertion has passed them (`BulkRecordsAll`),
one that finds a row that an answer has inserted since leaves it, and no step removes a record
(`RecordsPersist`). `KeepsPromiseHolds` is the refinement: from `PromiseInv`, which joins these
and says that nobody has answered before the cast (`PostedInv`), a lemma for each action shows
which action of `RequestPromise` it is, or that it is none. The sender's failed row, a refusal and
a second delivery, for instance, either find no row and decline, or find one and change nothing
(`RefusalPromised`); the deadlines make an awaited agent's late start impossible (`NoLateWork`).
It assumes `~ReservedApi`, and holds for both storages. None of the properties is inductive by
itself: that a verdict is final, for instance, needs that no second handler can be about to write
one.

`GlobalLockProofs`. `LockInv` adds to `TypeOK` that a thread's place fits its request
(`OpOfPlace`), that it has something to lock (`SomethingToLock`), that a whole holder's key is a
string and a string has no marks (`WholeIsString`, `StringHasNoMarks`), and that a member holder's
marks are in the key unless robbed (`MarksKept`). Exclusion follows: two holders would need one
key to be both. `TypeCorrect` is unconditional; the exclusion theorems, and
`KeysHaveHoldersHolds`, assume `~Failures`, since a deletion that redis executed after it had
timed out may hit the next holder. `HoldersInv` is the argument that no key is left behind: a key
is a string only while its holder is between `SETNX` and `DEL` (`StringsHeld`), a mark is in it
only while the thread that added it has still to remove it (`MarksHeld`), and what a thread has to
delete are the keys it holds (`DeletesAtHome`).

`AgentHostProofs` goes in two layers. `LocksInv` is kept by every step of the locks
(`LocksStep`): a thread's place fits what it holds and has to do (`PlaceFits`), a `lock()`
is about one entity (`OneEntity`), no semaphore has two holders (`HoldsDisjoint`), and the
endpoint of a `locks()` under way is frozen (`FreezingIsFrozen`), without which
`FrozenByOneLocks` would not be inductive, since others write `frozen` too. `PortsFit` is
kept by every call about ports. `HostInv` joins them with `BlocksFit`, and `SlotStep` is
the argument of the composition: a thread that changes its slot's ports holds that entity's
semaphore, so that no other block is on that slot. The four properties of `host_ports` and
the types follow, for any threads, endpoints, entities and ports.

`AgentLifecycleProofs`. `TypeInv` holds always; `Safe` holds until the first fault. `Locked` says
who holds the row and how far a call can be where its request is, `Claims` that no two
creations or deletions are about one entity, `Booting` that an agent that starts has nothing to
do with entities yet. `EntitysFollow` is the argument for `EntitysAgree`: the agent's entities and
the rows differ by what handlers have done and transactions have not. `Emptied` is the one for
`DeletedAgentIsEmpty`: when the agent agrees, no creation that its check has let in is left,
since a creation shares the parent row, for which the deletion's update waits. Both leave out
`untold`, which a commit that tells the agent shrinks and a silent one extends.

`AgentFilesProofs`, on the two ways files come to an agent. For `FileManager`, `FileInv` adds to
the four properties what the semaphore is good for: who asks gcenter or stops holds it
(`HolderFits`), and who asks has published an event that nobody serves yet, in an open session
(`InfoFits`), so that `stop` cannot pass between event and thread; and that a manager that is down
has no session (`DownIsClosed`). For `Websocket`, `FileFollowsProcess` says what a temporary file
may hold by where its process is, so that a process that ends by itself leaves no file of the
announced size with another md5, and only a file of that size after such an end is published.
`NotesAreTrue` ties the notification to the published file, and `FewReaders` is the bound on
readers.

`AgentDirectoryProofs`. `ListInv` is about the set and the rows. `WholeFits` is what the locks are
good for: who fills, adds or flushes holds the lock of all agents, while it is held there are no
marks, and a deletion that was not robbed has its mark, so that only robbed ones overlap it. Who fills
the set knows all live agents, and what else it knows is being deleted or a ghost already
(`FillFits`); an id that is being added stays in the set until its row is there, or is `lost`
(`AddFits`); one that a deletion which was not robbed takes out has no live row (`DeletedFits`).
`CopyInv` is about the copies, which only the scores protect: a score that a copy or a reader holds
is the agent's or a past one (`ScoresKnown`), and what was read of a key is what it holds if the score
read before it is still the agent's and is not a past one (`ReadsAreCurrent`). `CopiesStep` is the
lemma all writers of the set share.

`AppFlowProofs`. The argument is order: what comes before a task that has begun is done or
reverted (`Ordered`), a part that waits for its next try has nothing after it that has begun
(`RetryFits`), and the engine's mode says what may be unfinished (`ModeFits`). With
`BehindStep`, success and revert share one proof. `FirstTry`, `Upgraded`, `Loads` and `Dumps`
are then the properties, strengthened by the states of the tasks.

`FernetKeysProofs`. The numbered files are an interval that ends with the primary key
(`Numbers`), and each promotion has used up a key or a death (`FilesInv`), so that names do not
run out. The heart is what a load under way may have read (`LoadInv`): all numbered files it
listed, and in file 0 the staged key or, after one rotation, the primary one (`Staged`); a load
without a rotation beside it has everything (`CalmLoad`). A process that missed nothing
therefore knows every numbered key, and the staged one once it has loaded calmly since the
rotation (`KnownInv`): the next promotion takes nothing from it. Tokens' keys are in files that
are younger than what is purged (`TokensInv`, `ExcessIsOld`). That a set of file names has a
greatest and a least member is proved from the well-founded order of the naturals (`NatMin`,
`NatMax`). That a load before an `--init` that dies may not count as current is needed here, and only
two deaths show it: hence the bound of the run.

So every invariant, action property and refinement of every run is proved. Only model-checked: all
liveness, since fairness and `ENABLED` are out of the prover's reach.

## 5. What is external, assumed, left out

* Rabbit, redis, SQLAlchemy and InnoDB, `simpleutil` locks, `simpleservice` rpc,
  `simpleflow`, `psutil` and `yum` are modelled from how the code uses them, never from
  their own sources.
* After a refused duplicate row the database session is taken to be usable, as the
  `continue` in `bluk_insert` expects.
* All hosts share one clock, though finishtime is compared across hosts.
* Formatting, logging, schema validation and HTTP routing are left out.
* Not modelled: the scheduler (a stored job's `start` is a datetime, from which `int(time.time())`
  cannot be taken, and `post_start` waits for a semaphore it holds itself, so that no job ever
  starts); agent loads and choice, and conditions and executers (a cache and evaluations
  without a protocol); the pool of redis connections (a client library's, apart from the
  collector of keys, which is in GlobalLock); port and endpoint requests (one transaction
  each around the agent's ports); the HTTP client, filters, routers, commands and
  configuration (plumbing; retries of posts are duplicate deliveries in AsyncRequest). Of the life cycle: edit
  and migration; of tokens: uuid tokens.
* Divergences between documents and code that need no model: README.md:74-75 says that
  `frozen_ports` and `free_ports` take `work_lock`, and they do not; README.md:83 says that an
  upgrade sets HARDBUSY, and it does not; `full()` at base.py:667 compares a module with a number.
