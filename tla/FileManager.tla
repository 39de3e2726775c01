---------------------------- MODULE FileManager ----------------------------
(***************************************************************************)
(* The cache of downloaded files an agent keeps (filemanager): the files   *)
(* on disk, a table of them in sqlite, a map of the files it knows, and    *)
(* one event for each download.  Handlers ask for files and delete them,   *)
(* a cleaner removes the expired ones, and the process stops, dies and     *)
(* starts again.                                                           *)
(*                                                                         *)
(* A file of md5 f is stored under the path named f.  What a path holds    *)
(* has a digest of its own: the file's when it is whole, one that belongs  *)
(* to nothing else when a part of it was written, and the digest of the    *)
(* empty file, the same for all, when nothing was.                         *)
(***************************************************************************)
EXTENDS Naturals

None == "none"

CONSTANTS
    Threads,      \* handlers, the cleaner's thread, the one that stops the manager
    Files,        \* md5s handlers ask for
    MaxDeaths,    \* bound on how often the process dies or ends
    Hands         \* does a hand remove files from the directory

ASSUME FileAssumption ==
    MaxDeaths \in Nat /\ Hands \in BOOLEAN /\ None \notin Files \cup Threads

Contents == {None, "empty", "part", "whole"}
Empty == <<None, "empty">>
Digests == (Files \X {"part", "whole"}) \cup {Empty}
Digest(f, content) == IF content = "empty" THEN Empty ELSE <<f, content>>
Md5(f) == Digest(f, "whole")
\* gcenter's table DownFile: no row, a row an agent can use, and one it cannot.
DownFile == {None, "good", "bad"}
LocalFiles == [md5 : Digests, path : Files \cup {None}]
\* Mutant: the fields in the wrong order.
LocalFile_Swapped(f) == [md5 |-> f, path |-> Md5(f)]

LocalFile(f) == [md5 |-> Md5(f), path |-> f]
NoFile == [md5 |-> Empty, path |-> None]

VARIABLES
    record,       \* gcenter's DownFile row of each file: none, good or bad
    disk,         \* what the path of each file holds
    rows,         \* FileDetail: the digests in sqlite
    localmd5,     \* digest -> path
    downloading,  \* the files that have an event
    writer,       \* the __download thread of each file
    lock,         \* the thread that holds the semaphore
    session,      \* is the sqlite session open
    up,           \* does the manager run
    pc, file,     \* where each thread is, and the file (LocalFile) it works for
    todo,         \* what the cleaner has still to look at
    broken,       \* files whose description failed after their event was published
    deaths        \* how often the process has died or ended

serverVars == <<record>>
diskVars == <<disk, rows>>
procVars == <<localmd5, downloading, writer, lock, session, up, todo, broken>>
threadVars == <<pc, file>>
vars == <<serverVars, diskVars, procVars, threadVars, deaths>>

TypeOK ==
    /\ record \in [Files -> DownFile]
    /\ disk \in [Files -> Contents] /\ rows \subseteq Digests
    /\ localmd5 \in [Digests -> Files \cup {None}]
    /\ downloading \subseteq Files
    /\ writer \in [Files -> {None, "queued", "asking", "writing", "unlinked"}]
    /\ lock \in Threads \cup {None} /\ {session, up} \subseteq BOOLEAN
    /\ pc \in [Threads -> {"idle", "get", "info", "wait", "woken", "delete", "clean",
                           "expired", "stop", "stopping", "stopwoken"}]
    /\ file \in [Threads -> LocalFiles]
    /\ todo \subseteq Digests /\ broken \subseteq Files
    /\ deaths \in 0..MaxDeaths

Init ==
    /\ record = [f \in Files |-> None]
    /\ disk = [f \in Files |-> None] /\ rows = {}
    /\ localmd5 = [d \in Digests |-> None]
    /\ downloading = {} /\ writer = [f \in Files |-> None]
    /\ lock = None /\ session = TRUE /\ up = TRUE
    /\ pc = [t \in Threads |-> "idle"] /\ file = [t \in Threads |-> NoFile]
    /\ todo = {} /\ broken = {} /\ deaths = 0

Known(d) == localmd5[d] # None
Present(d) == Known(d) /\ disk[localmd5[d]] # None
Goto(t, place) == pc' = [pc EXCEPT ![t] = place]
Done(t) == Goto(t, "idle") /\ file' = [file EXCEPT ![t] = NoFile]
Begin(t, place, localfile) ==
    /\ up /\ pc[t] = "idle"
    /\ Goto(t, place) /\ file' = [file EXCEPT ![t] = localfile]
Has(t, f) == file[t] = LocalFile(f)

(***************************************************************************)
(* gcenter: the rows that describe files (FileReuest).  A bad row is one   *)
(* show() answers with an error (its status is not FILEOK), or one whose   *)
(* adapter_args show() makes a string of, where the schema wants an array. *)
(***************************************************************************)
CreateRecord(f) ==
    /\ record[f] = None
    /\ \E r \in {"good", "bad"} : record' = [record EXCEPT ![f] = r]
    /\ UNCHANGED <<diskVars, procVars, threadVars, deaths>>

UpdateRecord(f) ==
    /\ record[f] # None
    /\ \E r \in {"good", "bad"} : record' = [record EXCEPT ![f] = r]
    /\ UNCHANGED <<diskVars, procVars, threadVars, deaths>>

DeleteRecord(f) ==
    /\ record' = [record EXCEPT ![f] = None]
    /\ UNCHANGED <<diskVars, procVars, threadVars, deaths>>

(***************************************************************************)
(* get                                                                     *)
(***************************************************************************)
\* The file is looked for; a known file is downloaded again, or checked, all the
\* same.  Without the download flag a missing file is deleted, an unknown one refused.
Get(t, f) ==
    /\ \/ Begin(t, "get", LocalFile(f))
       \/ Known(Md5(f)) /\ disk[f] = None /\ Begin(t, "delete", LocalFile(f))
    /\ UNCHANGED <<serverVars, diskVars, procVars, deaths>>

\* Under the lock: the event of the file is joined, or published.  The lock is then
\* held while gcenter is asked.
GetLocks(t) ==
    /\ pc[t] = "get" /\ lock = None
    /\ \E f \in Files :
          /\ Has(t, f)
          /\ \/ ~ session /\ Done(t) /\ UNCHANGED <<downloading, lock>>
             \/ /\ session /\ f \in downloading
                /\ Goto(t, "wait") /\ UNCHANGED <<file, downloading, lock>>
             \/ /\ session /\ f \notin downloading
                /\ downloading' = downloading \cup {f} /\ lock' = t
                /\ Goto(t, "info") /\ UNCHANGED file
    /\ UNCHANGED <<serverVars, diskVars, localmd5, writer, session, up, todo, broken, deaths>>

\* infoget and schema_validate.  Their errors, which may be the network's, leave the
\* event where it is.
InfoFails(t) ==
    /\ pc[t] = "info"
    /\ \E f \in Files : Has(t, f) /\ broken' = broken \cup {f}
    /\ lock' = None /\ Done(t)
    /\ UNCHANGED <<serverVars, diskVars, localmd5, downloading, writer, session, up, todo, deaths>>

InfoComes(t) ==
    /\ pc[t] = "info"
    /\ \E f \in Files : Has(t, f) /\ record[f] = "good" /\ writer' = [writer EXCEPT ![f] = "queued"]
    /\ lock' = None /\ Goto(t, "wait")
    /\ UNCHANGED <<serverVars, diskVars, localmd5, downloading, session, up, file, todo, broken,
                   deaths>>

\* th.wait() has returned, and get finds the file, or raises that it does not.
Woken(t) ==
    /\ pc[t] = "woken"
    /\ Done(t)
    /\ UNCHANGED <<serverVars, diskVars, procVars, deaths>>

(***************************************************************************)
(* __download, in a thread of its own and without the lock.                *)
(***************************************************************************)
\* The waiters of f go on, or get its error; stop() waits for either.
Wake(f, ok) ==
    /\ pc' = [t \in Threads |->
                 CASE pc[t] = "wait" /\ Has(t, f) -> IF ok THEN "woken" ELSE "idle"
                   [] pc[t] = "stopping" /\ Has(t, f) -> "stopwoken"
                   [] OTHER -> pc[t]]
    /\ file' = [t \in Threads |-> IF pc'[t] = "idle" THEN NoFile ELSE file[t]]

\* Mutant: the event is sent, and stays in the map.
Finish_KeepsEvent(f, ok) ==
    writer' = [writer EXCEPT ![f] = None] /\ UNCHANGED downloading /\ Wake(f, ok)

\* The event is taken from the map and sent.
Finish(f, ok) ==
    writer' = [writer EXCEPT ![f] = None] /\ downloading' = downloading \ {f} /\ Wake(f, ok)

\* The file matches its description.  A new one is written into the database; that
\* may fail (an uploadtime strptime cannot read), which leaves the file on disk.
Register(f) ==
    \/ /\ Finish(f, TRUE)
       /\ IF Known(Md5(f)) THEN UNCHANGED <<rows, localmd5>>
          ELSE /\ rows' = rows \cup {Md5(f)}
               /\ localmd5' = [localmd5 EXCEPT ![Md5(f)] = f]
    \/ Finish(f, FALSE) /\ UNCHANGED <<rows, localmd5>>

\* Mutant: what the path holds is not compared with the description.
CheckExisting_NoMd5(f) ==
    /\ writer[f] = "queued" /\ disk[f] # None
    /\ Register(f) /\ UNCHANGED disk
    /\ UNCHANGED <<serverVars, lock, session, up, todo, broken, deaths>>

\* The path exists: its md5 and size, when they can be read, are compared with the
\* description.
CheckExisting(f) ==
    /\ writer[f] = "queued" /\ disk[f] # None
    /\ \/ disk[f] = "whole" /\ Register(f) /\ UNCHANGED disk
       \/ /\ disk' = disk \/ (disk[f] # "whole" /\ disk' = [disk EXCEPT ![f] = None])
          /\ Finish(f, FALSE) /\ UNCHANGED <<rows, localmd5>>
    /\ UNCHANGED <<serverVars, lock, session, up, todo, broken, deaths>>

Ask(f) ==
    /\ writer[f] = "queued" /\ disk[f] = None
    /\ writer' = [writer EXCEPT ![f] = "asking"]
    /\ UNCHANGED <<serverVars, diskVars, localmd5, downloading, lock, session, up, todo, broken,
                   threadVars, deaths>>

\* _download_200: the path is opened, then written chunk by chunk.
Write(f) ==
    /\ \/ /\ writer[f] = "asking"
          /\ writer' = [writer EXCEPT ![f] = "writing"] /\ disk' = [disk EXCEPT ![f] = "empty"]
       \/ /\ writer[f] = "writing" /\ disk[f] = "empty"
          /\ disk' = [disk EXCEPT ![f] = "part"] /\ UNCHANGED writer
    /\ UNCHANGED <<serverVars, rows, localmd5, downloading, lock, session, up, todo, broken,
                   threadVars, deaths>>

\* Everything was written and matches; touch() needs the path to exist still.
Written(f) ==
    /\ writer[f] = "writing"
    /\ disk' = [disk EXCEPT ![f] = "whole"]
    /\ Register(f)
    /\ UNCHANGED <<serverVars, lock, session, up, todo, broken, deaths>>

\* An error, a timeout or another content: what was written is removed.  (The code
\* also goes on when that fails; a process can remove what it has just written.)
DownloadFails(f) ==
    /\ writer[f] \in {"asking", "writing", "unlinked"}
    /\ Finish(f, FALSE) /\ disk' = [disk EXCEPT ![f] = None]
    /\ UNCHANGED <<serverVars, rows, localmd5, lock, session, up, todo, broken, deaths>>

Download(f) ==
    \/ CheckExisting(f) \/ Ask(f) \/ Write(f) \/ Written(f) \/ DownloadFails(f)

(***************************************************************************)
(* delete and clean_expired                                                *)
(***************************************************************************)
\* The file at the path of f is unlinked; who writes it writes on.
Unlink(f) ==
    /\ disk' = [disk EXCEPT ![f] = None]
    /\ writer' = [writer EXCEPT ![f] = IF @ = "writing" THEN "unlinked" ELSE @]

\* A hand removes a file from the directory.
HandRemoves(f) ==
    /\ Hands /\ disk[f] # None /\ Unlink(f)
    /\ UNCHANGED <<serverVars, rows, localmd5, downloading, lock, session, up, todo, broken,
                   threadVars, deaths>>

Delete(t, f) ==
    /\ session /\ Known(Md5(f)) /\ Begin(t, "delete", LocalFile(f))
    /\ UNCHANGED <<serverVars, diskVars, procVars, deaths>>

\* Mutant: the row stays.
RemoveRow_KeepsRow(d) == UNCHANGED rows

RemoveRow(d) == rows' = rows \ {d}

\* Under the lock the row, the path and the entry are removed, in this order.  With
\* the session gone a row stops it; either way the entry goes.  The path is the one
\* that was read before the lock, whatever is there now.
DeleteLocks(t) ==
    /\ pc[t] \in {"delete", "expired"} /\ lock = None
    /\ LET d == file[t].md5 IN
       /\ IF session \/ d \notin rows
          THEN /\ RemoveRow(d)
               /\ \/ Unlink(file[t].path)
                  \/ UNCHANGED <<disk, writer>>       \* nothing there, or os.remove fails
          ELSE UNCHANGED <<rows, disk, writer>>
       /\ localmd5' = [localmd5 EXCEPT ![d] = None]
    /\ IF pc[t] = "expired" /\ (session \/ file[t].md5 \notin rows)
       THEN Goto(t, "clean") /\ file' = [file EXCEPT ![t] = NoFile] /\ UNCHANGED todo
       ELSE Done(t) /\ todo' = IF pc[t] = "expired" THEN {} ELSE todo
    /\ UNCHANGED <<serverVars, downloading, lock, session, up, broken, deaths>>

Clean(t) ==
    /\ \A u \in Threads : pc[u] \notin {"clean", "expired"}
    /\ Begin(t, "clean", NoFile) /\ todo' = {d \in Digests : Known(d)}
    /\ UNCHANGED <<serverVars, diskVars, localmd5, downloading, writer, lock, session, up, broken,
                   deaths>>

\* One md5 of those that were known at the beginning: gone (KeyError), its path gone
\* (OSError), expired or not.  An error ends the cleaning.
CleanNext(t) ==
    /\ pc[t] = "clean"
    /\ \/ todo = {} /\ Done(t) /\ UNCHANGED todo
       \/ \E d \in todo :
             \/ ~ Present(d) /\ Done(t) /\ todo' = {}
             \/ /\ Present(d) /\ todo' = todo \ {d}
                /\ \/ /\ Goto(t, "expired")
                      /\ file' = [file EXCEPT ![t] = [md5 |-> d, path |-> localmd5[d]]]
                   \/ UNCHANGED threadVars
    /\ UNCHANGED <<serverVars, diskVars, localmd5, downloading, writer, lock, session, up, broken,
                   deaths>>

(***************************************************************************)
(* The process stops, dies and starts.                                     *)
(***************************************************************************)
StopCalled(t) ==
    /\ session /\ \A u \in Threads : pc[u] \notin {"stop", "stopping", "stopwoken"}
    /\ Begin(t, "stop", NoFile)
    /\ UNCHANGED <<serverVars, diskVars, procVars, deaths>>

\* Mutant: the session is closed without a look at the downloads.
StopLocks_NoWait(t) ==
    /\ pc[t] = "stop" /\ lock = None
    /\ session' = FALSE /\ Done(t)
    /\ UNCHANGED <<serverVars, diskVars, localmd5, downloading, writer, lock, up, todo, broken,
                   deaths>>

\* stop takes the lock and waits for a download; without one it closes the session.
StopLocks(t) ==
    /\ pc[t] = "stop" /\ lock = None
    /\ \/ downloading = {} /\ session' = FALSE /\ Done(t) /\ UNCHANGED lock
       \/ \E f \in downloading :
             /\ lock' = t /\ Goto(t, "stopping") /\ file' = [file EXCEPT ![t] = LocalFile(f)]
             /\ UNCHANGED session
    /\ UNCHANGED <<serverVars, diskVars, localmd5, downloading, writer, up, todo, broken, deaths>>

\* The map that stop iterates over has lost an entry: RuntimeError, session open.
StopRaises(t) ==
    /\ pc[t] = "stopwoken"
    /\ lock' = None /\ Done(t)
    /\ UNCHANGED <<serverVars, diskVars, localmd5, downloading, writer, session, up, todo, broken,
                   deaths>>

\* The process ends, at whatever point its threads are.
Die ==
    /\ up /\ deaths < MaxDeaths
    /\ deaths' = deaths + 1 /\ up' = FALSE /\ session' = FALSE
    /\ localmd5' = [d \in Digests |-> None]
    /\ downloading' = {} /\ writer' = [f \in Files |-> None] /\ lock' = None
    /\ pc' = [t \in Threads |-> "idle"] /\ file' = [t \in Threads |-> NoFile]
    /\ todo' = {} /\ broken' = {}
    /\ UNCHANGED <<serverVars, diskVars>>

\* scanning(strict): a row whose file is there and has its size is kept, the others
\* are deleted; a file without a row is added under the md5 it has, and a file that
\* does not match its row is removed.
Kept == {f \in Files : Md5(f) \in rows /\ disk[f] = "whole"}
Mismatched == {f \in Files : Md5(f) \in rows /\ disk[f] \in {"empty", "part"}}
Unknown == {f \in Files : Md5(f) \notin rows /\ disk[f] # None}
Scanned(f) == Digest(f, disk[f])

Start ==
    /\ ~ up
    /\ \A f, g \in Unknown : Scanned(f) = Scanned(g) => f = g
    /\ rows' = {Scanned(f) : f \in Kept \cup Unknown}
    /\ localmd5' = [d \in Digests |->
                       IF d \in rows' THEN CHOOSE f \in Kept \cup Unknown : Scanned(f) = d
                       ELSE None]
    /\ disk' = [f \in Files |-> IF f \in Mismatched THEN None ELSE disk[f]]
    /\ up' = TRUE /\ session' = TRUE
    /\ UNCHANGED <<serverVars, downloading, writer, lock, todo, broken, threadVars, deaths>>

\* Two files were cut off before their first byte: the second does not go into the
\* table, and the agent does not start until a hand removes one.
StartFails ==
    /\ ~ up
    /\ \E f, g \in Unknown : f # g /\ Scanned(f) = Scanned(g)
    /\ rows' = {Md5(f) : f \in Kept}
    /\ UNCHANGED <<serverVars, disk, procVars, threadVars, deaths>>

-----------------------------------------------------------------------------
Next ==
    \/ \E t \in Threads :
          \/ GetLocks(t) \/ InfoFails(t) \/ InfoComes(t) \/ Woken(t)
          \/ DeleteLocks(t) \/ Clean(t) \/ CleanNext(t)
          \/ StopCalled(t) \/ StopLocks(t) \/ StopRaises(t)
          \/ \E f \in Files : Get(t, f) \/ Delete(t, f)
    \/ \E f \in Files : \/ CreateRecord(f) \/ UpdateRecord(f) \/ DeleteRecord(f)
                        \/ Download(f) \/ HandRemoves(f)
    \/ Die \/ Start \/ StartFails

Spec == Init /\ [][Next]_vars

-----------------------------------------------------------------------------
\* What find() and get() return for an md5 is that file, whole, unless it is just
\* being downloaded again: through failures, deletions, deaths and scans.
KnownFilesAreWhole ==
    \A f \in Files :
        Known(Md5(f)) /\ disk[f] # None /\ writer[f] # "writing" => disk[f] = "whole"

\* The map and the table in sqlite name the same files while the session is open,
\* though downloads change them without the lock that deletions take.
RowsAreKnown == session => rows = {d \in Digests : Known(d)}

\* Every event has a thread that will send it, unless the description of its file
\* failed: else all who ask for the file later, and stop(), wait for nobody.
EventsAreServed ==
    \A f \in downloading :
        \/ writer[f] # None \/ f \in broken
        \/ \E t \in Threads : pc[t] = "info" /\ Has(t, f)

\* A file has a download thread only while it has an event, and none when the
\* manager is stopped: the thread would find the session gone.
WritersHaveEvents ==
    \A f \in Files : writer[f] # None => f \in downloading /\ session
=============================================================================
