----------------------------- MODULE FernetKeys -----------------------------
(***************************************************************************)
(* The keys of fernet tokens.  A repository of key files is rotated once a *)
(* day: file 0, the staged key, is renamed to the next number and becomes  *)
(* the primary key, a new file 0 is made, and the oldest are purged.  Each *)
(* process of gcenter reads the repository when it starts and every hour,  *)
(* makes tokens with the primary key it knows and reads tokens with any.   *)
(*                                                                         *)
(* Reading is a listing followed by one open for each name, while another  *)
(* process may rename, create and remove files; a rotation may die between *)
(* any two of its steps.  Keys are numbered in the order they are made.    *)
(***************************************************************************)
EXTENDS Naturals, FiniteSets, FiniteSetsExt

CONSTANTS
    Procs,      \* processes of gcenter
    Days,       \* fernet_expire_days
    Life,       \* how many rotations begin at most during the life of a token
    MaxKeys,    \* bound on the keys made
    MaxDeaths   \* bound on the rotations that die or fail

ASSUME FernetAssumption ==
    /\ Days \in Nat \ {0} /\ Life \in Nat /\ Life < Days /\ MaxKeys \in Nat \ {0, 1} /\ MaxDeaths \in Nat

None == 0
Empty == MaxKeys + 1          \* the content of a file that is not yet written
Keys == 1..MaxKeys
Names == 0..(MaxKeys + MaxDeaths)

VARIABLES
    repo,      \* the key in each file
    made,      \* how many keys were made
    job,       \* where gcenter-fernet is
    day,       \* how many rotations have begun
    deaths,    \* how many have died or failed
    pc,        \* each process: down, starting, up, reloading
    todo,      \* the names it has listed and not read yet
    got,       \* what it has read
    keys,      \* the keys it reads tokens with
    primary,   \* the one it makes tokens with
    reloaded,  \* it has ended a load that began after the last rotation ended
    began,     \* the day the load under way began
    calm,      \* no rotation was under way then
    torn,      \* the file 0 it reads may not be the one it has listed
    current,   \* it has listed, and loaded, keys since the last rotation or init began
    missed,    \* it may lack the primary key: its load was torn, no load succeeded for
               \* a day, or since the key was staged
    tokens     \* living tokens of processes that missed nothing: their key and day

repoVars == <<repo, made, job, day, deaths>>
loadVars == <<pc, todo, got, reloaded, began, calm, torn>>
vars == <<repoVars, loadVars, keys, primary, current, missed, tokens>>

TypeOK ==
    /\ repo \in [Names -> Keys \cup {None, Empty}]
    /\ made \in 0..MaxKeys /\ day \in Nat /\ deaths \in 0..MaxDeaths
    /\ job \in {"idle", "init", "initialized", "renamed", "opened", "created", "purged"}
    /\ pc \in [Procs -> {"down", "starting", "up", "reloading"}]
    /\ todo \in [Procs -> SUBSET Names]
    /\ got \in [Procs -> [Names -> Keys \cup {None, Empty}]]
    /\ keys \in [Procs -> SUBSET Keys]
    /\ primary \in [Procs -> Keys \cup {None}]
    /\ began \in [Procs -> Nat]
    /\ {reloaded, calm, torn, current, missed} \subseteq [Procs -> BOOLEAN]
    /\ tokens \subseteq [key : Keys, day : Nat]

NoKeys == [n \in Names |-> None]

\* gcenter-fernet --init has run: one primary key and one staged.
Init ==
    /\ repo = [NoKeys EXCEPT ![0] = 2, ![1] = 1]
    /\ made = 2 /\ job = "idle" /\ day = 0 /\ deaths = 0
    /\ pc = [p \in Procs |-> "down"]
    /\ todo = [p \in Procs |-> {}] /\ got = [p \in Procs |-> NoKeys]
    /\ keys = [p \in Procs |-> {}] /\ primary = [p \in Procs |-> None]
    /\ began = [p \in Procs |-> 0] /\ calm = [p \in Procs |-> TRUE]
    /\ reloaded = [p \in Procs |-> FALSE] /\ torn = [p \in Procs |-> FALSE]
    /\ current = [p \in Procs |-> FALSE] /\ missed = [p \in Procs |-> FALSE]
    /\ tokens = {}

Files == {n \in Names : repo[n] # None}
Numbered == Files \ {0}
Loading(p) == pc[p] \in {"starting", "reloading"}
Running(p) == pc[p] \in {"up", "reloading"}
Alive(token, today) == today <= token.day + Life

(***************************************************************************)
(* gcenter-fernet: rotate_keys, and initialize_key_repository.             *)
(***************************************************************************)
\* cron runs it once a day: by then each process has loaded the keys, or tried to,
\* since the rotation before, or is just starting.
DayIsOver ==
    \A p \in Procs : \/ pc[p] = "down"
                       \/ reloaded[p]
                       \/ (pc[p] = "starting" /\ calm[p] /\ began[p] = day)

\* File 0 becomes the primary key.  Without one rename fails, and so does rotation.
\* Right after the first step of init the key that is promoted was never staged.
Promote ==
    /\ job = "initialized" \/ (job = "idle" /\ DayIsOver)
    /\ 0 \in Files /\ made < MaxKeys
    /\ repo' = [repo EXCEPT ![0] = None, ![Max(Files) + 1] = repo[0]]
    /\ job' = "renamed" /\ day' = day + 1
    /\ reloaded' = [p \in Procs |-> FALSE]
    /\ current' = [p \in Procs |-> FALSE]
    /\ missed' = [p \in Procs |->
                     missed[p] \/ (Running(p) /\ (job = "initialized" \/ ~ current[p]))]
    /\ torn' = [p \in Procs |-> torn[p] \/ (job = "initialized" /\ Loading(p))]
    /\ tokens' = {token \in tokens : Alive(token, day')}
    /\ UNCHANGED <<made, deaths, pc, todo, got, began, calm, keys, primary>>

\* create_new_key opens file 0, which empties it, and writes it when it closes it.
OpenKey ==
    /\ job = "renamed" /\ job' = "opened"
    /\ repo' = [repo EXCEPT ![0] = Empty]
    /\ UNCHANGED <<made, day, deaths, loadVars, keys, primary, current, missed, tokens>>

WriteKey(from, to) ==
    /\ job = from /\ job' = to
    /\ made' = made + 1 /\ repo' = [repo EXCEPT ![0] = made + 1]
    /\ UNCHANGED <<day, deaths, loadVars, keys, primary, current, missed, tokens>>

\* initialize_key_repository finds no file 0 and makes one, which no load so far has
\* seen: if init dies here, the next rotation promotes it.
InitBegins ==
    /\ job = "idle" /\ job' = "init"
    /\ 0 \notin Files /\ made + 1 < MaxKeys
    /\ repo' = [repo EXCEPT ![0] = Empty]
    /\ current' = [p \in Procs |-> FALSE]
    /\ torn' = [p \in Procs |-> torn[p] \/ Loading(p)]
    /\ UNCHANGED <<made, day, deaths, pc, todo, got, reloaded, began, calm, keys, primary,
                   missed, tokens>>

\* Mutant: as many keys are kept as tokens live days, file 0 among them.
Excess_TooMany == Cardinality(Numbered) > Days - 1

\* max_active_keys = Days + 2, file 0 not counted.
Excess == Cardinality(Numbered) > Days + 1

Purge ==
    /\ job \in {"created", "purged"}
    /\ IF Excess THEN repo' = [repo EXCEPT ![Min(Numbered)] = None] /\ job' = "purged"
       ELSE job' = "idle" /\ UNCHANGED repo
    /\ UNCHANGED <<made, day, deaths, loadVars, keys, primary, current, missed, tokens>>

RotationDies ==
    /\ job # "idle" /\ deaths < MaxDeaths
    /\ job' = "idle" /\ deaths' = deaths + 1
    /\ UNCHANGED <<repo, made, day, loadVars, keys, primary, current, missed, tokens>>

\* The owner of the new file 0 cannot be set: it is removed, and create_new_key raises.
ChownFails ==
    /\ job \in {"created", "initialized"} /\ deaths < MaxDeaths
    /\ job' = "idle" /\ deaths' = deaths + 1
    /\ repo' = [repo EXCEPT ![0] = None]
    /\ UNCHANGED <<made, day, loadVars, keys, primary, current, missed, tokens>>

Rotation ==
    \/ Promote \/ OpenKey \/ WriteKey("opened", "created") \/ Purge
    \/ InitBegins \/ WriteKey("init", "initialized")

(***************************************************************************)
(* FernetTokenFormatter: __init__ and _reload, both by load_keys.          *)
(***************************************************************************)
\* The directory is listed.
List(p) ==
    /\ \/ pc[p] = "down" /\ pc' = [pc EXCEPT ![p] = "starting"]
       \/ pc[p] = "up" /\ pc' = [pc EXCEPT ![p] = "reloading"]
    /\ todo' = [todo EXCEPT ![p] = Files]
    /\ got' = [got EXCEPT ![p] = NoKeys]
    /\ began' = [began EXCEPT ![p] = day] /\ calm' = [calm EXCEPT ![p] = job = "idle"]
    /\ torn' = [torn EXCEPT ![p] = FALSE]
    /\ UNCHANGED <<repoVars, keys, primary, reloaded, current, missed, tokens>>

\* File 0 is read, or the others, which never change until they are purged; a file that
\* is gone is passed over.  File 0 is another one, or gone, when a rotation has promoted
\* it since the listing.
Read(p) ==
    \E part \in {todo[p] \cap {0}, todo[p] \ {0}} \ {{}} :
        /\ todo' = [todo EXCEPT ![p] = @ \ part]
        /\ got' = [got EXCEPT ![p] = [n \in Names |-> IF n \in part THEN repo[n] ELSE @[n]]]
        /\ torn' = [torn EXCEPT ![p] = @ \/ (0 \in part /\ began[p] # day)]
        /\ UNCHANGED <<repoVars, pc, keys, primary, reloaded, began, calm, current, missed, tokens>>

\* open fails because the file goes between isfile and open.
ReadFails(p) ==
    /\ \E n \in todo[p] : n # 0 /\ repo[n] = None
    /\ todo' = [todo EXCEPT ![p] = {}] /\ got' = [got EXCEPT ![p] = NoKeys]
    /\ UNCHANGED <<repoVars, pc, keys, primary, reloaded, began, calm, torn, current, missed, tokens>>

\* Mutant: the staged key is left out.
Loaded_NoStaged(p) == {got[p][n] : n \in Names \ {0}} \ {None}

Loaded(p) == {got[p][n] : n \in Names} \ {None}
Ended(p, to) ==
    /\ Loading(p) /\ todo[p] = {}
    /\ pc' = [pc EXCEPT ![p] = to]
    /\ got' = [got EXCEPT ![p] = NoKeys]
    /\ reloaded' = [reloaded EXCEPT ![p] = @ \/ (calm[p] /\ began[p] = day)]
    /\ began' = [began EXCEPT ![p] = 0] /\ calm' = [calm EXCEPT ![p] = TRUE]
    /\ torn' = [torn EXCEPT ![p] = FALSE]
    /\ UNCHANGED <<repoVars, todo, tokens>>

\* Mutant: what was read is not looked at.
LoadSucceeds_AnyKey(p) ==
    /\ Loaded(p) # {}
    /\ Ended(p, "up")
    /\ keys' = [keys EXCEPT ![p] = Loaded(p)]
    /\ primary' = [primary EXCEPT ![p] = got[p][Max({n \in Names : got[p][n] # None})]]
    /\ missed' = [missed EXCEPT ![p] = torn[p]]
    /\ current' = [current EXCEPT ![p] = began[p] = day]

LoadSucceeds(p) ==
    /\ Loaded(p) # {} /\ Empty \notin Loaded(p)
    /\ Ended(p, "up")
    /\ keys' = [keys EXCEPT ![p] = Loaded(p)]
    /\ primary' = [primary EXCEPT ![p] = got[p][Max({n \in Names : got[p][n] # None})]]
    /\ missed' = [missed EXCEPT ![p] = torn[p]]
    /\ current' = [current EXCEPT ![p] = began[p] = day]

\* A key that is no key, or none at all: a process that runs keeps its keys, and tries
\* again in a minute; one that starts does not.
LoadFails(p) ==
    /\ Loaded(p) = {} \/ Empty \in Loaded(p)
    /\ Ended(p, IF pc[p] = "starting" THEN "down" ELSE "up")
    /\ UNCHANGED <<keys, primary, current, missed>>

ProcEnds(p) ==
    /\ Running(p)
    /\ pc' = [pc EXCEPT ![p] = "down"] /\ todo' = [todo EXCEPT ![p] = {}]
    /\ got' = [got EXCEPT ![p] = NoKeys]
    /\ keys' = [keys EXCEPT ![p] = {}] /\ primary' = [primary EXCEPT ![p] = None]
    /\ missed' = [missed EXCEPT ![p] = FALSE] /\ current' = [current EXCEPT ![p] = FALSE]
    /\ reloaded' = [reloaded EXCEPT ![p] = FALSE]
    /\ began' = [began EXCEPT ![p] = 0] /\ calm' = [calm EXCEPT ![p] = TRUE]
    /\ torn' = [torn EXCEPT ![p] = FALSE]
    /\ UNCHANGED <<repoVars, tokens>>

\* TokenProvider.create, for a login.
MakeToken(p) ==
    /\ Running(p) /\ ~ missed[p]
    /\ tokens' = tokens \cup {[key |-> primary[p], day |-> day]}
    /\ UNCHANGED <<repoVars, loadVars, keys, primary, current, missed>>

-----------------------------------------------------------------------------
Next ==
    \/ Rotation \/ RotationDies \/ ChownFails
    \/ \E p \in Procs : \/ List(p) \/ Read(p) \/ ReadFails(p) \/ LoadSucceeds(p) \/ LoadFails(p)
                        \/ ProcEnds(p) \/ MakeToken(p)

Spec == Init /\ [][Next]_vars

-----------------------------------------------------------------------------
\* A living token is read by every process, whichever made it and whatever rotations
\* began since, died, or were under way when a process loaded the keys.  Except by a
\* process whose load saw file 0 change, until its next load, and after an init that
\* promotes a key nobody has seen.
TokensAreRead ==
    \A p \in Procs, token \in tokens :
        Running(p) /\ ~ missed[p] => token.key \in keys[p]

\* The key of a living token is still in the repository, so that a process that starts
\* reads it too.
TokenKeysAreKept == \A token \in tokens : \E n \in Names : repo[n] = token.key
=============================================================================
