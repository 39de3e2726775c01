--------------------------- MODULE AgentFilesProofs ---------------------------
(***************************************************************************)
(* The two ways files come to an agent.  FileManager, for any threads and  *)
(* files: its types and its four invariants.  What makes them inductive is *)
(* what the semaphore of the manager is good for (HolderFits, InfoFits),   *)
(* and that a manager that is down has no session (DownIsClosed).  Then    *)
(* Websocket, for any uploads, readers and targets.                        *)
(***************************************************************************)
EXTENDS FileManager, Websocket, FiniteSetTheorems, TLAPS

\* Who asks gcenter under the lock, or stops, holds the lock.
HolderFits ==
    \A t \in Threads : pc[t] \in {"info", "stopping", "stopwoken"} => lock = t

\* Who asks gcenter for the description of f has published the event of f, which
\* nobody serves yet, and the session is open.
InfoFits ==
    \A t \in Threads, f \in Files :
        pc[t] = "info" /\ Has(t, f) => f \in downloading /\ session /\ writer[f] = None

DownIsClosed == ~ up => ~ session

FileInv ==
    /\ TypeOK
    /\ HolderFits /\ InfoFits /\ DownIsClosed
    /\ KnownFilesAreWhole /\ RowsAreKnown /\ EventsAreServed /\ WritersHaveEvents

-----------------------------------------------------------------------------
\* What the initial state satisfies.
LEMMA InitInv == Init => FileInv
  <1> SUFFICES ASSUME Init PROVE FileInv
    OBVIOUS
  <1> USE FileAssumption DEF Init
  <1>1. NoFile \in LocalFiles
    BY DEF NoFile, LocalFiles, Digests
  <1>2. TypeOK
    BY <1>1 DEF TypeOK, DownFile, Contents, None
  <1>3. HolderFits /\ InfoFits /\ DownIsClosed
    BY DEF HolderFits, InfoFits, DownIsClosed
  <1>4. KnownFilesAreWhole /\ EventsAreServed /\ WritersHaveEvents
    BY DEF KnownFilesAreWhole, EventsAreServed, WritersHaveEvents, Known
  <1>5. RowsAreKnown
    BY DEF RowsAreKnown, Known
  <1> QED
    BY <1>2, <1>3, <1>4, <1>5 DEF FileInv

\* The digests of whole files tell files apart, and so do their records.
LEMMA Digested ==
    /\ \A f \in Files : Md5(f) \in Digests /\ LocalFile(f) \in LocalFiles
    /\ \A f, g \in Files : Md5(f) = Md5(g) => f = g
    /\ \A f, g \in Files : LocalFile(f) = LocalFile(g) => f = g
    /\ NoFile \in LocalFiles
    /\ \A f \in Files : LocalFile(f).md5 = Md5(f) /\ LocalFile(f).path = f
    /\ \A l \in LocalFiles : l.md5 \in Digests
  <1>1. \A f \in Files : Md5(f) = <<f, "whole">>
    BY DEF Md5, Digest
  <1>2. \A f \in Files : LocalFile(f).md5 = Md5(f) /\ LocalFile(f).path = f
    BY DEF LocalFile
  <1>3. \A f, g \in Files : Md5(f) = Md5(g) => f = g
    BY <1>1
  <1>4. \A f \in Files : Md5(f) \in Digests
    BY <1>1 DEF Digests
  <1>5. \A f \in Files : LocalFile(f) \in LocalFiles
    BY <1>4 DEF LocalFile, LocalFiles
  <1>6. NoFile \in LocalFiles
    BY DEF NoFile, LocalFiles, Digests
  <1>7. \A l \in LocalFiles : l.md5 \in Digests
    BY DEF LocalFiles
  <1> QED
    BY <1>2, <1>3, <1>4, <1>5, <1>6, <1>7

-----------------------------------------------------------------------------
\* What the end of a download of f does to everyone: its thread and its event go,
\* and no thread comes to ask, to stop, or to hold anything.
LEMMA FinishEffect ==
    ASSUME FileInv, NEW f \in Files, NEW ok \in BOOLEAN, Finish(f, ok)
    PROVE  /\ writer' = [writer EXCEPT ![f] = None] /\ downloading' = downloading \ {f}
           /\ pc' \in [Threads -> {"idle", "get", "info", "wait", "woken", "delete", "clean",
                                   "expired", "stop", "stopping", "stopwoken"}]
           /\ file' \in [Threads -> LocalFiles]
           /\ \A t \in Threads :
                 /\ (pc'[t] = "info") <=> (pc[t] = "info")
                 /\ pc[t] = "info" => file'[t] = file[t]
                 /\ (pc'[t] \in {"stopping", "stopwoken"}) <=> (pc[t] \in {"stopping", "stopwoken"})
  <1>1. pc \in [Threads -> {"idle", "get", "info", "wait", "woken", "delete", "clean",
                           "expired", "stop", "stopping", "stopwoken"}]
        /\ file \in [Threads -> LocalFiles]
    BY DEF FileInv, TypeOK
  <1>2. writer' = [writer EXCEPT ![f] = None] /\ downloading' = downloading \ {f} /\ Wake(f, ok)
    BY DEF Finish
  <1>3. pc' \in [Threads -> {"idle", "get", "info", "wait", "woken", "delete", "clean",
                            "expired", "stop", "stopping", "stopwoken"}]
    BY <1>1, <1>2 DEF Wake
  <1>4. \A t \in Threads :
           /\ (pc'[t] = "info") <=> (pc[t] = "info")
           /\ (pc'[t] \in {"stopping", "stopwoken"}) <=> (pc[t] \in {"stopping", "stopwoken"})
    BY <1>1, <1>2 DEF Wake
  <1>5. file' = [t \in Threads |-> IF pc'[t] = "idle" THEN NoFile ELSE file[t]]
    BY <1>2 DEF Wake
  <1>6. file' \in [Threads -> LocalFiles]
    BY <1>1, <1>5, Digested
  <1>7. \A t \in Threads : pc[t] = "info" => file'[t] = file[t]
    BY <1>4, <1>5
  <1> QED
    BY <1>2, <1>3, <1>4, <1>6, <1>7

\* A step of one thread that touches neither the downloads nor the files, and after
\* which the thread neither asks nor stops, keeps the invariant if it keeps the types.
LEMMA ThreadStep ==
    ASSUME FileInv, TypeOK', NEW t \in Threads,
           pc'[t] \notin {"info", "stopping", "stopwoken"}, pc[t] # "info",
           \A u \in Threads \ {t} : pc'[u] = pc[u] /\ file'[u] = file[u],
           lock' = lock \/ pc[t] \in {"stopping", "stopwoken"},
           UNCHANGED <<diskVars, localmd5, downloading, writer, session, up, broken>>
    PROVE  FileInv'
  <1>1. HolderFits'
    BY DEF FileInv, HolderFits
  <1>2. InfoFits'
    BY DEF FileInv, InfoFits, Has
  <1>3. EventsAreServed'
    BY DEF FileInv, EventsAreServed, Has
  <1>4. DownIsClosed' /\ KnownFilesAreWhole' /\ RowsAreKnown' /\ WritersHaveEvents'
    BY DEF FileInv, DownIsClosed, KnownFilesAreWhole, RowsAreKnown, WritersHaveEvents,
           Known, diskVars
  <1> QED
    BY <1>1, <1>2, <1>3, <1>4 DEF FileInv

\* get under the lock.
LEMMA GetLocksInv == ASSUME FileInv, NEW t \in Threads, GetLocks(t) PROVE FileInv'
  <1> USE FileAssumption
  <1>1. PICK f \in Files :
           /\ Has(t, f)
           /\ \/ ~ session /\ Done(t) /\ UNCHANGED <<downloading, lock>>
              \/ /\ session /\ f \in downloading
                 /\ Goto(t, "wait") /\ UNCHANGED <<file, downloading, lock>>
              \/ /\ session /\ f \notin downloading
                 /\ downloading' = downloading \cup {f} /\ lock' = t
                 /\ Goto(t, "info") /\ UNCHANGED file
    BY DEF GetLocks
  <1>2. pc[t] = "get" /\ lock = None
        /\ UNCHANGED <<serverVars, diskVars, localmd5, writer, session, up, todo, broken, deaths>>
    BY DEF GetLocks
  <1>3. TypeOK
    BY DEF FileInv
  <1>4. CASE Done(t) /\ UNCHANGED <<downloading, lock>>
    <2>1. TypeOK'
      BY <1>2, <1>3, <1>4, Digested DEF TypeOK, Done, Goto, serverVars, diskVars
    <2> QED
      BY <1>2, <1>3, <1>4, <2>1, ThreadStep DEF TypeOK, Done, Goto, diskVars
  <1>5. CASE Goto(t, "wait") /\ UNCHANGED <<file, downloading, lock>>
    <2>1. TypeOK'
      BY <1>2, <1>3, <1>5 DEF TypeOK, Goto, serverVars, diskVars
    <2> QED
      BY <1>2, <1>3, <1>5, <2>1, ThreadStep DEF TypeOK, Goto, diskVars
  <1>6. CASE /\ session /\ f \notin downloading
             /\ downloading' = downloading \cup {f} /\ lock' = t
             /\ Goto(t, "info") /\ UNCHANGED file
    <2>1. TypeOK'
      BY <1>2, <1>3, <1>6 DEF TypeOK, Goto, serverVars, diskVars
    <2>2. pc' = [pc EXCEPT ![t] = "info"] /\ pc'[t] = "info"
      BY <1>3, <1>6 DEF TypeOK, Goto
    <2>3. HolderFits'
      BY <1>2, <1>3, <1>6, <2>2 DEF FileInv, HolderFits, TypeOK
    <2>4. writer[f] = None
      BY <1>6 DEF FileInv, WritersHaveEvents
    <2>5. \A g \in Files : Has(t, g) => g = f
      BY <1>1, Digested DEF Has
    <2>6. InfoFits'
      BY <1>2, <1>3, <1>6, <2>2, <2>4, <2>5 DEF FileInv, InfoFits, Has, TypeOK
    <2>7. EventsAreServed'
      BY <1>1, <1>2, <1>3, <1>6, <2>2 DEF FileInv, EventsAreServed, Has, TypeOK
    <2>8. DownIsClosed' /\ KnownFilesAreWhole' /\ RowsAreKnown' /\ WritersHaveEvents'
      BY <1>2, <1>6 DEF FileInv, DownIsClosed, KnownFilesAreWhole, RowsAreKnown,
         WritersHaveEvents, Known, diskVars
    <2> QED
      BY <2>1, <2>3, <2>6, <2>7, <2>8 DEF FileInv
  <1> QED
    BY <1>1, <1>4, <1>5, <1>6

\* gcenter's answer, or its absence.
LEMMA InfoInv ==
    ASSUME FileInv, NEW t \in Threads, InfoFails(t) \/ InfoComes(t) PROVE FileInv'
  <1> USE FileAssumption
  <1>1. pc[t] = "info" /\ lock' = None
        /\ UNCHANGED <<serverVars, diskVars, localmd5, downloading, session, up, todo, deaths>>
    BY DEF InfoFails, InfoComes
  <1>2. PICK f \in Files :
           /\ Has(t, f)
           /\ \/ broken' = broken \cup {f} /\ Done(t) /\ UNCHANGED writer
              \/ /\ writer' = [writer EXCEPT ![f] = "queued"] /\ Goto(t, "wait")
                 /\ UNCHANGED <<file, broken>>
    BY DEF InfoFails, InfoComes
  <1>3. TypeOK
    BY DEF FileInv
  <1>4. f \in downloading /\ session /\ writer[f] = None /\ lock = t
    BY <1>1, <1>2 DEF FileInv, InfoFits, HolderFits
  <1>5. pc' \in [Threads -> {"idle", "get", "info", "wait", "woken", "delete", "clean",
                            "expired", "stop", "stopping", "stopwoken"}]
        /\ file' \in [Threads -> LocalFiles]
        /\ pc'[t] \notin {"info", "stopping", "stopwoken"}
        /\ \A u \in Threads \ {t} : pc'[u] = pc[u] /\ file'[u] = file[u]
    BY <1>2, <1>3, Digested DEF TypeOK, Done, Goto
  <1>6. /\ writer' \in [Files -> {None, "queued", "asking", "writing", "unlinked"}]
        /\ \A g \in Files : writer[g] # None => writer'[g] = writer[g]
        /\ \A g \in Files : g # f => writer'[g] = writer[g]
        /\ broken' \subseteq Files /\ broken \subseteq broken'
        /\ (writer'[f] # None \/ f \in broken') /\ writer'[f] \in {None, "queued"}
    BY <1>2, <1>3, <1>4 DEF TypeOK, None
  <1>7. TypeOK'
    BY <1>1, <1>3, <1>5, <1>6 DEF TypeOK, serverVars, diskVars
  <1>8. \A u \in Threads : pc[u] \in {"info", "stopping", "stopwoken"} => u = t
    BY <1>4 DEF FileInv, HolderFits
  <1>9. \A u \in Threads : pc'[u] \notin {"info", "stopping", "stopwoken"}
    BY <1>5, <1>8
  <1>10. HolderFits' /\ InfoFits'
    BY <1>9 DEF HolderFits, InfoFits
  <1>11. \A g \in Files : Has(t, g) => g = f
    BY <1>2, Digested DEF Has
  <1>12. EventsAreServed'
    BY <1>1, <1>3, <1>5, <1>6, <1>8, <1>11 DEF FileInv, EventsAreServed, TypeOK
  <1>13. WritersHaveEvents'
    BY <1>1, <1>4, <1>6 DEF FileInv, WritersHaveEvents
  <1>14. KnownFilesAreWhole'
    <2> SUFFICES ASSUME NEW g \in Files, Known(Md5(g))', disk'[g] # None, writer'[g] # "writing"
                 PROVE  disk'[g] = "whole"
      BY DEF KnownFilesAreWhole
    <2>1. writer[g] # "writing"
      BY <1>6 DEF None
    <2> QED
      BY <1>1, <2>1 DEF FileInv, KnownFilesAreWhole, Known, diskVars
  <1>15. DownIsClosed' /\ RowsAreKnown'
    BY <1>1 DEF FileInv, DownIsClosed, RowsAreKnown, Known, diskVars
  <1> QED
    BY <1>7, <1>10, <1>12, <1>13, <1>14, <1>15 DEF FileInv

\* The steps of one thread that leave the downloads and the files alone: a call begins,
\* a waiter goes on, the cleaner looks at its next file, stop raises.
LEMMA QuietInv ==
    ASSUME FileInv, NEW t \in Threads,
           \/ \E f \in Files : Get(t, f) \/ Delete(t, f)
           \/ Woken(t) \/ Clean(t) \/ CleanNext(t) \/ StopCalled(t) \/ StopRaises(t)
    PROVE  FileInv'
  <1> USE FileAssumption
  <1>1. TypeOK
    BY DEF FileInv
  <1>2. CASE \E f \in Files : Get(t, f) \/ Delete(t, f)
    <2>1. PICK f \in Files, place \in {"get", "delete"} :
             Begin(t, place, LocalFile(f))
             /\ UNCHANGED <<serverVars, diskVars, procVars, deaths>>
      BY <1>2 DEF Get, Delete
    <2>2. pc[t] = "idle" /\ pc' = [pc EXCEPT ![t] = place]
          /\ file' = [file EXCEPT ![t] = LocalFile(f)] /\ LocalFile(f) \in LocalFiles
      BY <2>1, Digested DEF Begin, Goto
    <2>3. UNCHANGED <<record, diskVars, localmd5, downloading, writer, lock, session, up, todo,
                      broken, deaths>>
      BY <2>1 DEF serverVars, procVars
    <2>4. /\ pc' \in [Threads -> {"idle", "get", "info", "wait", "woken", "delete", "clean",
                                 "expired", "stop", "stopping", "stopwoken"}]
          /\ file' \in [Threads -> LocalFiles]
          /\ pc'[t] \notin {"info", "stopping", "stopwoken"}
          /\ \A u \in Threads \ {t} : pc'[u] = pc[u] /\ file'[u] = file[u]
      BY <1>1, <2>2 DEF TypeOK
    <2>5. TypeOK'
      BY <1>1, <2>3, <2>4 DEF TypeOK, diskVars
    <2> QED
      BY <2>2, <2>3, <2>4, <2>5, ThreadStep
  <1>3. CASE Woken(t) \/ StopRaises(t)
    <2>1. /\ pc[t] \in {"woken", "stopwoken"} /\ pc' = [pc EXCEPT ![t] = "idle"]
          /\ file' = [file EXCEPT ![t] = NoFile]
          /\ lock' = lock \/ (pc[t] = "stopwoken" /\ lock' = None)
          /\ UNCHANGED <<serverVars, diskVars, localmd5, downloading, writer, session, up, todo,
                         broken, deaths>>
      BY <1>3 DEF Woken, StopRaises, Done, Goto, procVars
    <2>2. TypeOK'
      BY <1>1, <2>1, Digested DEF TypeOK, serverVars, diskVars
    <2> QED
      BY <1>1, <2>1, <2>2, ThreadStep DEF TypeOK
  <1>4. CASE Clean(t) \/ StopCalled(t)
    <2>1. pc[t] = "idle" /\ (\E place \in {"clean", "stop"} : pc' = [pc EXCEPT ![t] = place])
          /\ file' = [file EXCEPT ![t] = NoFile] /\ (todo' = todo \/ todo' \subseteq Digests)
          /\ UNCHANGED <<serverVars, diskVars, localmd5, downloading, writer, lock, session, up,
                         broken, deaths>>
      BY <1>4 DEF Clean, StopCalled, Begin, Goto, procVars
    <2>2. TypeOK'
      BY <1>1, <2>1, Digested DEF TypeOK, serverVars, diskVars
    <2> QED
      BY <1>1, <2>1, <2>2, ThreadStep DEF TypeOK
  <1>5. CASE CleanNext(t)
    <2>1. pc[t] = "clean"
          /\ UNCHANGED <<serverVars, diskVars, localmd5, downloading, writer, lock, session, up,
                         broken, deaths>>
      BY <1>5 DEF CleanNext
    <2>2. todo' \subseteq Digests
          /\ (Done(t) \/ UNCHANGED threadVars
              \/ \E d \in Digests : /\ Goto(t, "expired")
                                     /\ file' = [file EXCEPT ![t] = [md5 |-> d, path |-> localmd5[d]]])
      BY <1>1, <1>5 DEF CleanNext, TypeOK
    <2>3. \A d \in Digests : [md5 |-> d, path |-> localmd5[d]] \in LocalFiles
      BY <1>1 DEF TypeOK, LocalFiles
    <2>4. /\ pc' \in [Threads -> {"idle", "get", "info", "wait", "woken", "delete", "clean",
                                 "expired", "stop", "stopping", "stopwoken"}]
          /\ file' \in [Threads -> LocalFiles]
          /\ pc'[t] \notin {"info", "stopping", "stopwoken"}
          /\ \A u \in Threads \ {t} : pc'[u] = pc[u] /\ file'[u] = file[u]
      BY <1>1, <2>1, <2>2, <2>3, Digested DEF TypeOK, Done, Goto, threadVars
    <2>5. TypeOK'
      BY <1>1, <2>1, <2>2, <2>4 DEF TypeOK, serverVars, diskVars
    <2> QED
      BY <2>1, <2>4, <2>5, ThreadStep
  <1> QED
    BY <1>2, <1>3, <1>4, <1>5

\* The end of a download, with what it leaves at the path of f.
LEMMA DownloadEnds ==
    ASSUME FileInv, NEW f \in Files, NEW ok \in BOOLEAN, NEW content \in Contents,
           writer[f] # None, Finish(f, ok),
           disk' = [disk EXCEPT ![f] = content],
           content \in {None, "whole"} \/ (content = disk[f] /\ writer[f] # "writing"),
           \/ UNCHANGED <<rows, localmd5>>
           \/ /\ content = "whole" /\ rows' = rows \cup {Md5(f)}
              /\ localmd5' = [localmd5 EXCEPT ![Md5(f)] = f],
           UNCHANGED <<serverVars, lock, session, up, todo, broken, deaths>>
    PROVE  FileInv'
  <1> USE FileAssumption
  <1>1. TypeOK /\ Md5(f) \in Digests
    BY Digested DEF FileInv
  <1>2. /\ writer' = [writer EXCEPT ![f] = None] /\ downloading' = downloading \ {f}
        /\ pc' \in [Threads -> {"idle", "get", "info", "wait", "woken", "delete", "clean",
                                "expired", "stop", "stopping", "stopwoken"}]
        /\ file' \in [Threads -> LocalFiles]
        /\ \A t \in Threads :
              /\ (pc'[t] = "info") <=> (pc[t] = "info")
              /\ pc[t] = "info" => file'[t] = file[t]
              /\ (pc'[t] \in {"stopping", "stopwoken"}) <=> (pc[t] \in {"stopping", "stopwoken"})
    BY FinishEffect
  <1>3. TypeOK'
    <2>1. rows' \subseteq Digests /\ localmd5' \in [Digests -> Files \cup {None}]
      BY <1>1 DEF TypeOK
    <2>2. writer' \in [Files -> {None, "queued", "asking", "writing", "unlinked"}]
          /\ disk' \in [Files -> Contents] /\ downloading' \subseteq Files
      BY <1>1, <1>2 DEF TypeOK
    <2> QED
      BY <1>1, <1>2, <2>1, <2>2 DEF TypeOK, serverVars
  <1>4. HolderFits'
    BY <1>2 DEF FileInv, HolderFits
  <1>5. InfoFits'
    <2> SUFFICES ASSUME NEW t \in Threads, NEW g \in Files, pc'[t] = "info", Has(t, g)'
                 PROVE  g \in downloading' /\ session' /\ writer'[g] = None
      BY DEF InfoFits
    <2>1. pc[t] = "info" /\ Has(t, g)
      BY <1>2 DEF Has
    <2>2. g \in downloading /\ session /\ writer[g] = None
      BY <2>1 DEF FileInv, InfoFits
    <2> QED
      BY <1>1, <1>2, <2>2 DEF TypeOK
  <1>6. EventsAreServed'
    <2> SUFFICES ASSUME NEW g \in downloading'
                 PROVE  \/ writer'[g] # None \/ g \in broken'
                        \/ \E t \in Threads : pc'[t] = "info" /\ Has(t, g)'
      BY DEF EventsAreServed
    <2>1. g \in downloading /\ g # f /\ g \in Files
      BY <1>1, <1>2 DEF TypeOK
    <2>2. writer'[g] = writer[g]
      BY <1>1, <1>2, <2>1 DEF TypeOK
    <2> QED
      BY <1>2, <2>1, <2>2 DEF FileInv, EventsAreServed, Has
  <1>7. WritersHaveEvents'
    BY <1>1, <1>2 DEF FileInv, WritersHaveEvents, TypeOK
  <1>8. RowsAreKnown'
    <2>1. CASE UNCHANGED <<rows, localmd5>>
      BY <2>1 DEF FileInv, RowsAreKnown, Known
    <2>2. CASE /\ rows' = rows \cup {Md5(f)}
               /\ localmd5' = [localmd5 EXCEPT ![Md5(f)] = f]
      BY <1>1, <2>2 DEF FileInv, RowsAreKnown, Known, TypeOK
    <2> QED
      BY <2>1, <2>2
  <1>9. KnownFilesAreWhole'
    <2> SUFFICES ASSUME NEW g \in Files, Known(Md5(g))', disk'[g] # None, writer'[g] # "writing"
                 PROVE  disk'[g] = "whole"
      BY DEF KnownFilesAreWhole
    <2>1. CASE g # f
      <3>1. disk'[g] = disk[g] /\ writer'[g] = writer[g] /\ Md5(g) # Md5(f) /\ Md5(g) \in Digests
        BY <1>1, <1>2, <2>1, Digested DEF TypeOK
      <3>2. Known(Md5(g))
        BY <1>1, <3>1 DEF Known, TypeOK
      <3> QED
        BY <3>1, <3>2 DEF FileInv, KnownFilesAreWhole
    <2>2. CASE g = f /\ content # "whole"
      <3>1. disk'[f] = content /\ content = disk[f] /\ writer[f] # "writing"
            /\ UNCHANGED <<rows, localmd5>>
        BY <1>1, <2>2 DEF TypeOK
      <3>2. Known(Md5(f))
        BY <2>2, <3>1 DEF Known
      <3> QED
        BY <2>2, <3>1, <3>2 DEF FileInv, KnownFilesAreWhole
    <2>3. CASE g = f /\ content = "whole"
      BY <1>1, <2>3 DEF TypeOK
    <2> QED
      BY <2>1, <2>2, <2>3
  <1>10. DownIsClosed'
    BY DEF FileInv, DownIsClosed
  <1> QED
    BY <1>3, <1>4, <1>5, <1>6, <1>7, <1>8, <1>9, <1>10 DEF FileInv

\* A step of a download that goes on, or a hand or a deletion that unlinks its path:
\* the file may get a thread's next state and another content, and a file that is not
\* being written does not get a part of one.
LEMMA DiskStep ==
    ASSUME FileInv, NEW f \in Files,
           NEW stage \in {None, "queued", "asking", "writing", "unlinked"},
           NEW content \in Contents,
           writer' = [writer EXCEPT ![f] = stage], (stage = None) <=> (writer[f] = None),
           disk' = [disk EXCEPT ![f] = content], content = None \/ stage = "writing"
                                                  \/ (content = disk[f] /\ stage = writer[f]),
           UNCHANGED <<serverVars, rows, localmd5, downloading, lock, session, up, todo, broken,
                       threadVars, deaths>>
    PROVE  FileInv'
  <1>1. TypeOK
    BY DEF FileInv
  <1>2. /\ writer' \in [Files -> {None, "queued", "asking", "writing", "unlinked"}]
        /\ disk' \in [Files -> Contents]
        /\ writer'[f] = stage /\ disk'[f] = content
        /\ \A g \in Files : (writer'[g] = None) <=> (writer[g] = None)
        /\ \A g \in Files : g # f => writer'[g] = writer[g] /\ disk'[g] = disk[g]
    BY <1>1 DEF TypeOK
  <1>3. TypeOK'
    BY <1>1, <1>2 DEF TypeOK, serverVars, threadVars
  <1>4. HolderFits' /\ DownIsClosed' /\ RowsAreKnown'
    BY DEF FileInv, HolderFits, DownIsClosed, RowsAreKnown, Known, threadVars
  <1>5. InfoFits' /\ WritersHaveEvents'
    BY <1>2 DEF FileInv, InfoFits, WritersHaveEvents, Has, threadVars
  <1>6. EventsAreServed'
    BY <1>1, <1>2 DEF FileInv, EventsAreServed, Has, threadVars, TypeOK
  <1>7. KnownFilesAreWhole'
    <2> SUFFICES ASSUME NEW g \in Files, Known(Md5(g))', disk'[g] # None, writer'[g] # "writing"
                 PROVE  disk'[g] = "whole"
      BY DEF KnownFilesAreWhole
    <2>1. Known(Md5(g))
      BY DEF Known
    <2>2. disk'[g] = disk[g] /\ writer'[g] = writer[g]
      BY <1>2
    <2> QED
      BY <2>1, <2>2 DEF FileInv, KnownFilesAreWhole
  <1> QED
    BY <1>3, <1>4, <1>5, <1>6, <1>7 DEF FileInv

LEMMA DownloadInv ==
    ASSUME FileInv, NEW f \in Files, Download(f) \/ HandRemoves(f) PROVE FileInv'
  <1>1. TypeOK /\ writer[f] \in {None, "queued", "asking", "writing", "unlinked"}
        /\ disk[f] \in Contents
    BY DEF FileInv, TypeOK
  <1>2. {None, "empty", "part", "whole"} = Contents /\ "queued" # None /\ "asking" # None
        /\ "writing" # None /\ "unlinked" # None
    BY DEF Contents, None
  <1>3. ASSUME writer[f] # None, NEW content \in Contents, Register(f),
               disk' = [disk EXCEPT ![f] = content], content = "whole",
               UNCHANGED <<serverVars, lock, session, up, todo, broken, deaths>>
        PROVE  FileInv'
    <2>1. CASE /\ Finish(f, TRUE)
               /\ IF Known(Md5(f)) THEN UNCHANGED <<rows, localmd5>>
                  ELSE /\ rows' = rows \cup {Md5(f)}
                       /\ localmd5' = [localmd5 EXCEPT ![Md5(f)] = f]
      BY <1>3, <2>1, DownloadEnds
    <2>2. CASE Finish(f, FALSE) /\ UNCHANGED <<rows, localmd5>>
      BY <1>3, <2>2, DownloadEnds
    <2> QED
      BY <1>3, <2>1, <2>2 DEF Register
  <1>4. CASE CheckExisting(f)
    <2>1. writer[f] = "queued" /\ disk[f] # None
          /\ UNCHANGED <<serverVars, lock, session, up, todo, broken, deaths>>
      BY <1>4 DEF CheckExisting
    <2>2. disk = [disk EXCEPT ![f] = disk[f]]
      BY <1>1 DEF TypeOK
    <2>3. CASE disk[f] = "whole" /\ Register(f) /\ UNCHANGED disk
      BY <1>1, <1>2, <1>3, <2>1, <2>2, <2>3
    <2>4. CASE disk' = disk /\ Finish(f, FALSE) /\ UNCHANGED <<rows, localmd5>>
      BY <1>1, <1>2, <2>1, <2>2, <2>4, DownloadEnds
    <2>5. CASE disk' = [disk EXCEPT ![f] = None] /\ Finish(f, FALSE) /\ UNCHANGED <<rows, localmd5>>
      BY <1>1, <1>2, <2>1, <2>5, DownloadEnds
    <2> QED
      BY <1>4, <2>3, <2>4, <2>5 DEF CheckExisting
  <1>5. CASE Ask(f)
    <2>1. disk = [disk EXCEPT ![f] = disk[f]]
      BY <1>1 DEF TypeOK
    <2> QED
      BY <1>1, <1>2, <1>5, <2>1, DiskStep DEF Ask, diskVars
  <1>6. CASE Write(f)
    <2>1. writer = [writer EXCEPT ![f] = writer[f]]
      BY <1>1 DEF TypeOK
    <2>2. CASE /\ writer[f] = "asking"
               /\ writer' = [writer EXCEPT ![f] = "writing"] /\ disk' = [disk EXCEPT ![f] = "empty"]
      BY <1>2, <1>6, <2>2, DiskStep DEF Write
    <2>3. CASE /\ writer[f] = "writing" /\ disk[f] = "empty"
               /\ disk' = [disk EXCEPT ![f] = "part"] /\ UNCHANGED writer
      <3>1. writer' = [writer EXCEPT ![f] = "writing"]
        BY <2>1, <2>3
      <3> QED
        BY <1>2, <1>6, <2>3, <3>1, DiskStep DEF Write
    <2> QED
      BY <1>6, <2>2, <2>3 DEF Write
  <1>7. CASE Written(f)
    BY <1>2, <1>3, <1>7 DEF Written
  <1>8. CASE DownloadFails(f)
    BY <1>2, <1>8, DownloadEnds DEF DownloadFails
  <1>9. CASE HandRemoves(f)
    <2> DEFINE stage == IF writer[f] = "writing" THEN "unlinked" ELSE writer[f]
    <2>1. writer' = [writer EXCEPT ![f] = stage] /\ disk' = [disk EXCEPT ![f] = None]
      BY <1>1, <1>9 DEF HandRemoves, Unlink
    <2>2. stage \in {None, "queued", "asking", "writing", "unlinked"}
          /\ ((stage = None) <=> (writer[f] = None))
      BY <1>1, <1>2
    <2>3. UNCHANGED <<serverVars, rows, localmd5, downloading, lock, session, up, todo, broken,
                      threadVars, deaths>>
      BY <1>9 DEF HandRemoves
    <2> HIDE DEF stage
    <2> QED
      BY <1>2, <2>1, <2>2, <2>3, DiskStep
  <1> QED
    BY <1>4, <1>5, <1>6, <1>7, <1>8, <1>9 DEF Download

LEMMA DeleteInv == ASSUME FileInv, NEW t \in Threads, DeleteLocks(t) PROVE FileInv'
  <1> USE FileAssumption
  <1> DEFINE d == file[t].md5
             p == file[t].path
  <1>1. TypeOK /\ d \in Digests /\ p \in Files \cup {None}
    BY DEF FileInv, TypeOK, LocalFiles
  <1> HIDE DEF d, p
  <1>2. /\ pc[t] \in {"delete", "expired"}
        /\ localmd5' = [localmd5 EXCEPT ![d] = None]
        /\ rows' = rows \ {d} \/ (~ session /\ rows' = rows)
        /\ Unlink(p) \/ UNCHANGED <<disk, writer>>
        /\ UNCHANGED <<serverVars, downloading, lock, session, up, broken, deaths>>
    BY DEF DeleteLocks, RemoveRow, d, p
  <1>3. /\ Done(t) \/ (Goto(t, "clean") /\ file' = [file EXCEPT ![t] = NoFile])
        /\ todo' \subseteq Digests
    BY <1>1 DEF DeleteLocks, TypeOK
  <1>4. /\ pc' \in [Threads -> {"idle", "get", "info", "wait", "woken", "delete", "clean",
                               "expired", "stop", "stopping", "stopwoken"}]
        /\ file' \in [Threads -> LocalFiles]
        /\ pc'[t] \notin {"info", "stopping", "stopwoken"}
        /\ \A u \in Threads \ {t} : pc'[u] = pc[u] /\ file'[u] = file[u]
    BY <1>1, <1>3, Digested DEF TypeOK, Done, Goto
  <1>5. /\ writer' \in [Files -> {None, "queued", "asking", "writing", "unlinked"}]
        /\ disk' \in [Files -> Contents]
        /\ \A g \in Files : (writer'[g] = None) <=> (writer[g] = None)
        /\ \A g \in Files : disk'[g] # None => writer'[g] = writer[g] /\ disk'[g] = disk[g]
    <2>1. CASE UNCHANGED <<disk, writer>>
      BY <1>1, <2>1 DEF TypeOK
    <2>2. CASE Unlink(p)
      BY <1>1, <2>2 DEF TypeOK, Unlink, Contents, None
    <2> QED
      BY <1>2, <2>1, <2>2
  <1>6. localmd5' \in [Digests -> Files \cup {None}] /\ rows' \subseteq Digests
    BY <1>1, <1>2 DEF TypeOK
  <1>7. TypeOK'
    BY <1>1, <1>2, <1>3, <1>4, <1>5, <1>6 DEF TypeOK, serverVars
  <1>8. HolderFits'
    BY <1>2, <1>4 DEF FileInv, HolderFits
  <1>9. InfoFits'
    BY <1>2, <1>4, <1>5 DEF FileInv, InfoFits, Has
  <1>10. EventsAreServed'
    BY <1>1, <1>2, <1>4, <1>5 DEF FileInv, EventsAreServed, Has, TypeOK
  <1>11. WritersHaveEvents' /\ DownIsClosed'
    BY <1>2, <1>5 DEF FileInv, WritersHaveEvents, DownIsClosed
  <1>12. RowsAreKnown'
    BY <1>1, <1>2 DEF FileInv, RowsAreKnown, Known, TypeOK
  <1>13. KnownFilesAreWhole'
    <2> SUFFICES ASSUME NEW g \in Files, Known(Md5(g))', disk'[g] # None, writer'[g] # "writing"
                 PROVE  disk'[g] = "whole"
      BY DEF KnownFilesAreWhole
    <2>1. Known(Md5(g))
      BY <1>1, <1>2, Digested DEF Known, TypeOK
    <2> QED
      BY <1>5, <2>1 DEF FileInv, KnownFilesAreWhole
  <1> QED
    BY <1>7, <1>8, <1>9, <1>10, <1>11, <1>12, <1>13 DEF FileInv

LEMMA StopInv == ASSUME FileInv, NEW t \in Threads, StopLocks(t) PROVE FileInv'
  <1> USE FileAssumption
  <1>1. /\ TypeOK /\ pc[t] = "stop" /\ lock = None
        /\ UNCHANGED <<serverVars, diskVars, localmd5, downloading, writer, up, todo, broken, deaths>>
    BY DEF FileInv, StopLocks
  <1>2. \A u \in Threads : pc[u] \notin {"info", "stopping", "stopwoken"}
    BY <1>1 DEF FileInv, HolderFits
  <1>3. CASE downloading = {} /\ session' = FALSE /\ Done(t) /\ UNCHANGED lock
    <2>1. /\ pc' = [pc EXCEPT ![t] = "idle"] /\ file' = [file EXCEPT ![t] = NoFile]
          /\ session' = FALSE /\ lock' = lock
      BY <1>3 DEF Done, Goto
    <2>2. {session, up}' \subseteq BOOLEAN
      BY <1>1, <2>1 DEF TypeOK
    <2>3. TypeOK'
      BY <1>1, <2>1, <2>2, Digested DEF TypeOK, serverVars, diskVars
    <2>4. \A u \in Threads : pc'[u] \notin {"info", "stopping", "stopwoken"}
      BY <1>1, <1>2, <2>1 DEF TypeOK
    <2>5. HolderFits' /\ InfoFits'
      BY <2>4 DEF HolderFits, InfoFits
    <2>6. WritersHaveEvents'
      BY <1>1, <1>3 DEF FileInv, WritersHaveEvents
    <2>7. EventsAreServed'
      BY <1>1, <1>3 DEF EventsAreServed
    <2>8. KnownFilesAreWhole' /\ DownIsClosed' /\ RowsAreKnown'
      BY <1>1, <2>1 DEF FileInv, KnownFilesAreWhole, DownIsClosed, RowsAreKnown, Known, diskVars
    <2> QED
      BY <2>3, <2>5, <2>6, <2>7, <2>8 DEF FileInv
  <1>4. CASE \E f \in downloading :
                /\ lock' = t /\ Goto(t, "stopping") /\ file' = [file EXCEPT ![t] = LocalFile(f)]
                /\ UNCHANGED session
    <2>1. PICK f \in Files :
             /\ lock' = t /\ pc' = [pc EXCEPT ![t] = "stopping"]
             /\ file' = [file EXCEPT ![t] = LocalFile(f)] /\ UNCHANGED session
      BY <1>1, <1>4 DEF Goto, TypeOK
    <2>2. TypeOK'
      BY <1>1, <2>1, Digested DEF TypeOK, serverVars, diskVars
    <2>3. HolderFits' /\ InfoFits'
      BY <1>1, <1>2, <2>1 DEF HolderFits, InfoFits, TypeOK
    <2>4. EventsAreServed'
      BY <1>1, <1>2 DEF FileInv, EventsAreServed
    <2>5. WritersHaveEvents' /\ KnownFilesAreWhole' /\ DownIsClosed' /\ RowsAreKnown'
      BY <1>1, <2>1 DEF FileInv, WritersHaveEvents, KnownFilesAreWhole, DownIsClosed,
         RowsAreKnown, Known, diskVars
    <2> QED
      BY <2>2, <2>3, <2>4, <2>5 DEF FileInv
  <1> QED
    BY <1>3, <1>4 DEF StopLocks

LEMMA RecordInv ==
    ASSUME FileInv, NEW f \in Files, CreateRecord(f) \/ UpdateRecord(f) \/ DeleteRecord(f)
    PROVE  FileInv'
  <1>1. /\ TypeOK
        /\ \E r \in DownFile : record' = [record EXCEPT ![f] = r]
        /\ UNCHANGED <<diskVars, procVars, threadVars, deaths>>
    BY DEF FileInv, CreateRecord, UpdateRecord, DeleteRecord, DownFile, None
  <1>2. record' \in [Files -> DownFile]
    BY <1>1 DEF TypeOK
  <1>3. TypeOK'
    BY <1>1, <1>2 DEF TypeOK, diskVars, procVars, threadVars
  <1>4. HolderFits' /\ InfoFits' /\ DownIsClosed' /\ WritersHaveEvents' /\ EventsAreServed'
    BY <1>1 DEF FileInv, HolderFits, InfoFits, DownIsClosed, WritersHaveEvents, EventsAreServed,
       Has, diskVars, procVars, threadVars
  <1>5. KnownFilesAreWhole' /\ RowsAreKnown'
    BY <1>1 DEF FileInv, KnownFilesAreWhole, RowsAreKnown, Known, diskVars, procVars
  <1> QED
    BY <1>3, <1>4, <1>5 DEF FileInv

LEMMA DieInv == ASSUME FileInv, Die PROVE FileInv'
  <1> USE FileAssumption
  <1>1. TypeOK
    BY DEF FileInv
  <1>2. deaths' \in 0..MaxDeaths
    BY <1>1 DEF Die, TypeOK
  <1>3. TypeOK'
    BY <1>1, <1>2, Digested DEF TypeOK, Die, serverVars, diskVars, None
  <1>4. HolderFits' /\ InfoFits' /\ DownIsClosed' /\ RowsAreKnown' /\ EventsAreServed'
    BY DEF Die, HolderFits, InfoFits, DownIsClosed, RowsAreKnown, EventsAreServed
  <1>5. WritersHaveEvents'
    BY DEF Die, WritersHaveEvents
  <1>6. KnownFilesAreWhole'
    BY Digested DEF Die, KnownFilesAreWhole, Known
  <1> QED
    BY <1>3, <1>4, <1>5, <1>6 DEF FileInv

\* What a scan finds under the digest of a whole file is that file, whole.
LEMMA ScannedWhole ==
    ASSUME TypeOK, NEW f \in Files, NEW g \in Files, disk[g] # None, Scanned(g) = Md5(f)
    PROVE  g = f /\ disk[f] = "whole"
  <1>1. CASE disk[g] = "empty"
    BY <1>1, FileAssumption DEF Scanned, Digest, Md5, Empty
  <1>2. CASE disk[g] # "empty"
    BY <1>2 DEF Scanned, Digest, Md5
  <1> QED
    BY <1>1, <1>2

LEMMA StartInv == ASSUME FileInv, Start \/ StartFails PROVE FileInv'
  <1> USE FileAssumption
  <1>1. TypeOK /\ ~ up /\ ~ session
    BY DEF FileInv, DownIsClosed, Start, StartFails
  <1>2. UNCHANGED <<serverVars, downloading, writer, lock, todo, broken, threadVars, deaths>>
    BY DEF Start, StartFails, procVars
  <1>3. \A f \in Files : disk[f] # None => Scanned(f) \in Digests
    BY <1>1 DEF TypeOK, Contents, Scanned, Digest, Digests, Empty
  <1>4. WritersHaveEvents /\ \A f \in Files : writer[f] = None
    BY <1>1 DEF FileInv, WritersHaveEvents
  <1>5. HolderFits' /\ WritersHaveEvents'
    BY <1>2, <1>4 DEF FileInv, HolderFits, WritersHaveEvents, threadVars
  <1>6. InfoFits'
    BY <1>1, <1>2 DEF FileInv, InfoFits, Has, threadVars
  <1>7. EventsAreServed'
    BY <1>2 DEF FileInv, EventsAreServed, Has, threadVars
  <1>8. CASE Start
    <2> DEFINE found == Kept \cup Unknown
               path(d) == CHOOSE f \in found : Scanned(f) = d
    <2>1. /\ rows' = {Scanned(f) : f \in found}
          /\ localmd5' = [d \in Digests |-> IF d \in rows' THEN path(d) ELSE None]
          /\ disk' = [f \in Files |-> IF f \in Mismatched THEN None ELSE disk[f]]
          /\ up' = TRUE /\ session' = TRUE
      BY <1>8 DEF Start
    <2>2. found \subseteq Files /\ \A f \in found : disk[f] # None
      BY DEF Kept, Unknown, None
    <2>3. \A d \in rows' : path(d) \in found /\ Scanned(path(d)) = d
      BY <2>1
    <2> HIDE DEF found, path
    <2>4. rows' \subseteq Digests
      BY <1>3, <2>1, <2>2
    <2>5. localmd5' \in [Digests -> Files \cup {None}]
      BY <2>1, <2>2, <2>3
    <2>6. disk' \in [Files -> Contents]
      BY <1>1, <2>1 DEF TypeOK, Contents
    <2>7. {session, up}' \subseteq BOOLEAN
      BY <2>1
    <2>8. TypeOK'
      BY <1>1, <1>2, <2>4, <2>5, <2>6, <2>7 DEF TypeOK, serverVars, threadVars
    <2>9. RowsAreKnown'
      BY <2>1, <2>2, <2>3, <2>4 DEF RowsAreKnown, Known
    <2>10. KnownFilesAreWhole'
      <3> SUFFICES ASSUME NEW f \in Files, Known(Md5(f))', disk'[f] # None PROVE disk'[f] = "whole"
        BY DEF KnownFilesAreWhole
      <3>1. Md5(f) \in rows'
        BY <2>1, Digested DEF Known
      <3>2. path(Md5(f)) \in Files /\ disk[path(Md5(f))] # None /\ Scanned(path(Md5(f))) = Md5(f)
        BY <2>2, <2>3, <3>1
      <3>3. disk[f] = "whole"
        BY <1>1, <3>2, ScannedWhole
      <3> QED
        BY <2>1, <3>3
    <2>11. DownIsClosed'
      BY <2>1 DEF DownIsClosed
    <2> QED
      BY <1>5, <1>6, <1>7, <2>8, <2>9, <2>10, <2>11 DEF FileInv
  <1>9. CASE StartFails
    <2>1. /\ rows' = {Md5(f) : f \in Kept}
          /\ UNCHANGED <<disk, localmd5, session, up>>
      BY <1>9 DEF StartFails, procVars
    <2>2. rows' \subseteq Digests
      BY <2>1, Digested DEF Kept
    <2>3. TypeOK'
      BY <1>1, <1>2, <2>1, <2>2 DEF TypeOK, serverVars, threadVars
    <2>4. RowsAreKnown' /\ DownIsClosed'
      BY <1>1, <2>1 DEF RowsAreKnown, DownIsClosed
    <2>5. KnownFilesAreWhole'
      BY <1>2, <2>1 DEF FileInv, KnownFilesAreWhole, Known
    <2> QED
      BY <1>5, <1>6, <1>7, <2>3, <2>4, <2>5 DEF FileInv
  <1> QED
    BY <1>8, <1>9

LEMMA StutterInv == ASSUME FileInv, UNCHANGED vars PROVE FileInv'
  <1>1. UNCHANGED <<record, disk, rows, localmd5, downloading, writer, lock, session, up, todo,
                    broken, pc, file, deaths>>
    BY DEF vars, serverVars, diskVars, procVars, threadVars
  <1>2. TypeOK'
    BY <1>1 DEF FileInv, TypeOK
  <1>3. HolderFits' /\ InfoFits' /\ DownIsClosed' /\ WritersHaveEvents' /\ EventsAreServed'
    BY <1>1 DEF FileInv, HolderFits, InfoFits, DownIsClosed, WritersHaveEvents, EventsAreServed,
        Has
  <1>4. KnownFilesAreWhole' /\ RowsAreKnown'
    BY <1>1 DEF FileInv, KnownFilesAreWhole, RowsAreKnown, Known
  <1> QED
    BY <1>2, <1>3, <1>4 DEF FileInv

LEMMA StepInv == ASSUME FileInv, [Next]_vars PROVE FileInv'
  <1>1. ASSUME NEW t \in Threads, GetLocks(t) PROVE FileInv'
    BY <1>1, GetLocksInv
  <1>2. ASSUME NEW t \in Threads, InfoFails(t) \/ InfoComes(t) PROVE FileInv'
    BY <1>2, InfoInv
  <1>3. ASSUME NEW t \in Threads,
               \/ \E f \in Files : Get(t, f) \/ Delete(t, f)
               \/ Woken(t) \/ Clean(t) \/ CleanNext(t) \/ StopCalled(t) \/ StopRaises(t)
        PROVE  FileInv'
    BY <1>3, QuietInv
  <1>4. ASSUME NEW t \in Threads, DeleteLocks(t) PROVE FileInv'
    BY <1>4, DeleteInv
  <1>5. ASSUME NEW t \in Threads, StopLocks(t) PROVE FileInv'
    BY <1>5, StopInv
  <1>6. ASSUME NEW f \in Files, CreateRecord(f) \/ UpdateRecord(f) \/ DeleteRecord(f) PROVE FileInv'
    BY <1>6, RecordInv
  <1>7. ASSUME NEW f \in Files, Download(f) \/ HandRemoves(f) PROVE FileInv'
    BY <1>7, DownloadInv
  <1>8. CASE Die \/ Start \/ StartFails
    BY <1>8, DieInv, StartInv
  <1>9. CASE UNCHANGED vars
    BY <1>9, StutterInv
  <1> QED
    BY <1>1, <1>2, <1>3, <1>4, <1>5, <1>6, <1>7, <1>8, <1>9 DEF Next

LEMMA AlwaysFileInv == Spec => []FileInv
  <1>1. Init => FileInv
    BY InitInv
  <1>2. FileInv /\ [Next]_vars => FileInv'
    BY StepInv
  <1> QED
    BY <1>1, <1>2, PTL DEF Spec

-----------------------------------------------------------------------------
\* The state of the manager, its files and its table keeps its types (TypeOK).
THEOREM TypeCorrect == Spec => []TypeOK
  <1>1. FileInv => TypeOK
    BY DEF FileInv
  <1> QED
    BY <1>1, AlwaysFileInv, PTL

\* A known file is whole, whatever failed, died or was removed (KnownFilesAreWhole).
THEOREM KnownFilesAreWholeHolds == Spec => []KnownFilesAreWhole
  <1>1. FileInv => KnownFilesAreWhole
    BY DEF FileInv
  <1> QED
    BY <1>1, AlwaysFileInv, PTL

\* The map and the table name the same files while the session is open (RowsAreKnown).
THEOREM RowsAreKnownHolds == Spec => []RowsAreKnown
  <1>1. FileInv => RowsAreKnown
    BY DEF FileInv
  <1> QED
    BY <1>1, AlwaysFileInv, PTL

\* Every event has somebody who will send it, but for those whose file could not be
\* described (EventsAreServed).
THEOREM EventsAreServedHolds == Spec => []EventsAreServed
  <1>1. FileInv => EventsAreServed
    BY DEF FileInv
  <1> QED
    BY <1>1, AlwaysFileInv, PTL

\* A download thread has its event, and its manager a session (WritersHaveEvents).
THEOREM WritersHaveEventsHolds == Spec => []WritersHaveEvents
  <1>1. FileInv => WritersHaveEvents
    BY DEF FileInv
  <1> QED
    BY <1>1, AlwaysFileInv, PTL

-----------------------------------------------------------------------------
(***************************************************************************)
(* Uploads and log readers.  What a temporary file may hold follows from   *)
(* where its process is (FileFollowsProcess), so that a process that ends  *)
(* by itself leaves no file of the announced size with another md5, and    *)
(* only such a file is published.                                          *)
(***************************************************************************)
FewReaders == IsFiniteSet(websockets) /\ Cardinality(websockets) <= MaxWebsockets

SocketTypeInv == SocketTypeOK /\ FewReaders

LEMMA SocketTypeInitially == SocketInit => SocketTypeInv
  <1> SUFFICES ASSUME SocketInit PROVE SocketTypeInv
    OBVIOUS
  <1>1. IsFiniteSet(websockets) /\ Cardinality(websockets) <= MaxWebsockets
    BY FS_EmptySet, WebsocketAssumption DEF SocketInit
  <1>2. output \in [Targets -> [by : Uploads \cup {Nothing}, content : UploadContents]]
    BY DEF SocketInit, NoOutput, UploadContents
  <1> QED BY <1>1, <1>2 DEF SocketTypeInv, FewReaders, SocketTypeOK, SocketInit, UploadContents,
      RightSize, Ended, Crashed

SocketPlaces == Asked \cup {"idle", "waiting", "done", "refused"}
SocketStates == {Nothing, "forked", "listening", "handshake", "session", "checking"} \cup Ended

LEMMA SocketCallStep ==
  ASSUME SocketTypeInv, SocketNext
  PROVE  call' \in [Calls -> SocketPlaces] /\ timer' \in [Calls -> BOOLEAN]
  <1> USE DEF SocketTypeInv, SocketTypeOK, SocketPlaces, Asked, Goes, Fork, Arm, Disarm, Waited
  <1>1. CASE \E c \in Calls : Process(c) \/ Kill(c)
    BY <1>1 DEF Process, Exec, ListenerEnds, Suicide, Connect, Terminate, Kill, agentVars
  <1>2. CASE \E u \in Uploads : Upload(u) \/ Recver(u) \/ UploadEnds(u) \/ Notify(u)
    <2> PICK u \in Uploads : Upload(u) \/ Recver(u) \/ UploadEnds(u) \/ Notify(u)
      BY <1>2
    <2>1. u \in Calls
      BY DEF Calls
    <2>2. CASE Upload(u)
      BY <2>1, <2>2 DEF Upload
    <2>3. CASE Recver(u) \/ Notify(u)
      BY <2>3 DEF Recver, RecverTurnsAway, LetIn, Receive, StopReceiving, WriteFails, Check,
                  Notify, agentVars
    <2>4. CASE UploadEnds(u)
      BY <2>1, <2>4 DEF UploadEnds, RecverCrashed, NothingReceived, SizeMismatch, Publish
    <2> QED BY <2>2, <2>3, <2>4
  <1>3. CASE \E r \in Readers : \/ RequestAgentLog(r) \/ RequestLog(r) \/ RefusePath(r)
                                \/ RefuseReader(r) \/ Readlog(r) \/ Reader(r) \/ ReaderEnds(r)
    <2> PICK r \in Readers : \/ RequestAgentLog(r) \/ RequestLog(r) \/ RefusePath(r)
                             \/ RefuseReader(r) \/ Readlog(r) \/ Reader(r) \/ ReaderEnds(r)
      BY <1>3
    <2>1. r \in Calls
      BY DEF Calls
    <2>2. CASE RequestAgentLog(r) \/ RequestLog(r) \/ RefusePath(r) \/ RefuseReader(r)
      BY <2>1, <2>2 DEF RequestAgentLog, RequestLog, RefusePath, RefuseReader
    <2>3. CASE Readlog(r) \/ ReaderEnds(r)
      BY <2>1, <2>3 DEF Readlog, ReaderEnds
    <2>4. CASE Reader(r)
      BY <2>4 DEF Reader, ReaderTurnsAway, Send, StopSending, agentVars
    <2> QED BY <2>2, <2>3, <2>4
  <1> QED BY <1>1, <1>2, <1>3 DEF SocketNext

LEMMA SocketProcStep ==
  ASSUME SocketTypeInv, SocketNext
  PROVE  proc' \in [Calls -> SocketStates]
  <1> USE DEF SocketTypeInv, SocketTypeOK, SocketStates, Ended, Crashed, Becomes, Fork, Waited
  <1>1. CASE \E c \in Calls : Process(c) \/ Kill(c)
    BY <1>1 DEF Process, Exec, ListenerEnds, Suicide, Connect, Terminate, Kill
  <1>2. CASE \E u \in Uploads : Upload(u) \/ Recver(u) \/ UploadEnds(u) \/ Notify(u)
    <2> PICK u \in Uploads : Upload(u) \/ Recver(u) \/ UploadEnds(u) \/ Notify(u)
      BY <1>2
    <2>1. CASE Upload(u)
      BY <2>1 DEF Upload
    <2>2. CASE Recver(u)
      BY <2>2 DEF Recver, RecverTurnsAway, LetIn, Receive, StopReceiving, WriteFails, Check
    <2>3. CASE UploadEnds(u) \/ Notify(u)
      BY <2>3 DEF UploadEnds, RecverCrashed, NothingReceived, SizeMismatch, Publish, Notify,
          childVars
    <2> QED BY <2>1, <2>2, <2>3
  <1>3. CASE \E r \in Readers : \/ RequestAgentLog(r) \/ RequestLog(r) \/ RefusePath(r)
                                \/ RefuseReader(r) \/ Readlog(r) \/ Reader(r) \/ ReaderEnds(r)
    BY <1>3 DEF RequestAgentLog, RequestLog, RefusePath, RefuseReader, Readlog, Reader,
                ReaderTurnsAway, Send, StopSending, ReaderEnds, childVars
  <1> QED BY <1>1, <1>2, <1>3 DEF SocketNext

LEMMA SocketFilesStep ==
  ASSUME SocketTypeInv, SocketNext
  PROVE  /\ tmp' \in [Uploads -> UploadContents]
         /\ output' \in [Targets -> [by : Uploads \cup {Nothing}, content : UploadContents]]
         /\ note' \in [Uploads -> {Nothing, "fail", "success"}]
         /\ sent' \in [Uploads -> {Nothing, "fail", "success", "lost"}]
  <1>1. CASE \E c \in Calls : Process(c) \/ Kill(c)
    BY <1>1 DEF SocketTypeInv, SocketTypeOK, Process, Exec, ListenerEnds, Suicide, Connect,
        Terminate, Kill, agentVars
  <1>2. ASSUME NEW u \in Uploads, Upload(u) \/ Recver(u)
        PROVE  /\ tmp' \in [Uploads -> UploadContents]
               /\ UNCHANGED <<output, note, sent>>
    <2>1. CASE Receive(u)
      <3> PICK content \in RightSize \cup {"over"} : tmp' = [tmp EXCEPT ![u] = content]
        BY <2>1 DEF Receive
      <3>1. content \in UploadContents
        BY DEF UploadContents
      <3> QED BY <2>1, <3>1 DEF SocketTypeInv, SocketTypeOK, Receive, agentVars
    <2>2. CASE Check(u)
      <3>1. tmp' = [tmp EXCEPT ![u] = IF @ = "whole" THEN @ ELSE Nothing]
        BY <2>2 DEF Check
      <3>2. (IF tmp[u] = "whole" THEN tmp[u] ELSE Nothing) \in UploadContents
        BY DEF UploadContents, RightSize
      <3> QED BY <2>2, <3>1, <3>2 DEF SocketTypeInv, SocketTypeOK, Check, agentVars
    <2> QED BY <1>2, <2>1, <2>2 DEF SocketTypeInv, SocketTypeOK, Upload, Recver,
        RecverTurnsAway, LetIn, StopReceiving, WriteFails, UploadContents, agentVars
  <1>3. ASSUME NEW u \in Uploads, UploadEnds(u) \/ Notify(u)
        PROVE  /\ tmp' \in [Uploads -> UploadContents]
               /\ output' \in [Targets -> [by : Uploads \cup {Nothing}, content : UploadContents]]
               /\ note' \in [Uploads -> {Nothing, "fail", "success"}]
               /\ sent' \in [Uploads -> {Nothing, "fail", "success", "lost"}]
    <2> USE DEF SocketTypeInv, SocketTypeOK
    <2>1. CASE Notify(u)
      <3>1. note[u] \in {"fail", "success"}
        BY <2>1 DEF Notify
      <3>2. PICK s \in {note[u], "lost"} : sent' = [sent EXCEPT ![u] = s]
        BY <2>1 DEF Notify
      <3> QED BY <2>1, <3>1, <3>2 DEF Notify, childVars, agentVars
    <2>2. CASE Publish(u)
      <3>1. Target[u] \in Targets /\ tmp[u] \in UploadContents
        BY DEF Targets
      <3>2. [by |-> u, content |-> tmp[u]] \in [by : Uploads \cup {Nothing}, content : UploadContents]
        BY <3>1
      <3> QED BY <2>2, <3>1, <3>2 DEF Publish, Waited, UploadContents
    <2>3. CASE RecverCrashed(u)
      <3>1. (IF tmp[u] = Nothing THEN Nothing ELSE "fail") \in {Nothing, "fail", "success"}
        OBVIOUS
      <3> QED BY <2>3, <3>1 DEF RecverCrashed, Waited, UploadContents
    <2> QED BY <1>3, <2>1, <2>2, <2>3 DEF UploadEnds, NothingReceived, SizeMismatch, Waited
  <1>4. CASE \E r \in Readers : \/ RequestAgentLog(r) \/ RequestLog(r) \/ RefusePath(r)
                                \/ RefuseReader(r) \/ Readlog(r) \/ Reader(r) \/ ReaderEnds(r)
    BY <1>4 DEF SocketTypeInv, SocketTypeOK, RequestAgentLog, RequestLog, RefusePath,
        RefuseReader, Readlog, Reader, ReaderTurnsAway, Send, StopSending, ReaderEnds,
        childVars, agentVars
  <1> QED BY <1>1, <1>2, <1>3, <1>4 DEF SocketNext, SocketTypeInv, SocketTypeOK

\* A reader is counted after the limit was looked at, without a switch of threads.
LEMMA ReadersStep ==
  ASSUME SocketTypeInv, SocketNext
  PROVE  FewReaders' /\ websockets' \subseteq Readers
  <1> USE DEF SocketTypeInv, SocketTypeOK, FewReaders
  <1>1. CASE \E r \in Readers : Readlog(r)
    <2> PICK r \in Readers : Readlog(r)
      BY <1>1
    <2>1. Cardinality(websockets) \in Nat /\ Cardinality(websockets) < MaxWebsockets
      BY FS_CardinalityType DEF Readlog
    <2>2. websockets' = websockets \cup {r}
      BY DEF Readlog
    <2>3. /\ IsFiniteSet(websockets')
          /\ Cardinality(websockets') \in {Cardinality(websockets), Cardinality(websockets) + 1}
      BY <2>2, FS_AddElement
    <2>4. Cardinality(websockets') <= MaxWebsockets
      BY <2>1, <2>3, WebsocketAssumption
    <2> QED BY <2>2, <2>3, <2>4
  <1>2. CASE \E r \in Readers : ReaderEnds(r)
    <2> PICK r \in Readers : ReaderEnds(r)
      BY <1>2
    <2>1. websockets' = websockets \ {r} /\ websockets' \in SUBSET websockets
      BY DEF ReaderEnds
    <2>2. Cardinality(websockets) \in Nat /\ Cardinality(websockets') \in Nat
      BY <2>1, FS_Subset, FS_CardinalityType
    <2>3. IsFiniteSet(websockets') /\ Cardinality(websockets') <= Cardinality(websockets)
      BY <2>1, FS_Subset
    <2> QED BY <2>1, <2>2, <2>3, WebsocketAssumption
  <1>3. CASE UNCHANGED websockets
    BY <1>3
  <1>4. (\E r \in Readers : Readlog(r) \/ ReaderEnds(r)) \/ UNCHANGED websockets
    BY DEF SocketNext, Process, Exec, ListenerEnds, Suicide, Connect, Terminate, Kill, Upload,
        Recver, RecverTurnsAway, LetIn, Receive, StopReceiving, WriteFails, Check, UploadEnds,
        RecverCrashed, NothingReceived, SizeMismatch, Publish, Waited, Notify, RequestAgentLog,
        RequestLog, RefusePath, RefuseReader, Reader, ReaderTurnsAway, Send, StopSending,
        agentVars
  <1> QED BY <1>1, <1>2, <1>3, <1>4

LEMMA SocketTypeStep == SocketTypeInv /\ [SocketNext]_socketVars => SocketTypeInv'
  <1> SUFFICES ASSUME SocketTypeInv, [SocketNext]_socketVars PROVE SocketTypeInv'
    OBVIOUS
  <1>1. CASE SocketNext
    BY <1>1, SocketCallStep, SocketProcStep, SocketFilesStep, ReadersStep
       DEF SocketTypeInv, SocketTypeOK, FewReaders, SocketPlaces, SocketStates
  <1>2. CASE UNCHANGED socketVars
    BY <1>2 DEF SocketTypeInv, SocketTypeOK, FewReaders, socketVars
  <1> QED BY <1>1, <1>2

\* For any uploads, readers, targets and limit: the variables keep their types, and no
\* more readers run than max_websocket allows.
THEOREM SocketTypeCorrect == SocketSpec => []SocketTypeOK
  <1>1. SocketTypeInv => SocketTypeOK
    BY DEF SocketTypeInv
  <1> QED BY <1>1, SocketTypeInitially, SocketTypeStep, PTL DEF SocketSpec

\* What the temporary file of an upload may hold, by where its process is.
FileFollowsProcess ==
    \A u \in Uploads :
        /\ call[u] = "idle" => proc[u] = Nothing
        /\ proc[u] \in {Nothing, "forked", "listening", "handshake"} => tmp[u] = Nothing
        /\ proc[u] = "session" => tmp[u] = "part"
        /\ proc[u] = "exit0" => tmp[u] # "wrong"

OutputsAreWhole == \A t \in Targets : output[t].content \in {Nothing, "whole"}

\* A notification is spawned when the call ends, and what is published bears a success.
NotesAreTrue ==
    \A u \in Uploads :
        /\ note[u] # Nothing => call[u] = "done"
        /\ note[u] = "success" => output[Target[u]].content = "whole"
        /\ \A t \in Targets : output[t].by = u => note[u] = "success"
        /\ sent[u] \in {Nothing, "lost", note[u]}

OutcomeInv == SocketTypeInv /\ FileFollowsProcess /\ OutputsAreWhole /\ NotesAreTrue

LEMMA OutcomeInitially == SocketInit => OutcomeInv
  <1> SUFFICES ASSUME SocketInit PROVE OutcomeInv
    OBVIOUS
  <1>1. FileFollowsProcess
    BY DEF SocketInit, FileFollowsProcess, Calls, Nothing
  <1>2. OutputsAreWhole
    BY DEF SocketInit, OutputsAreWhole, NoOutput
  <1>3. \A u \in Uploads, t \in Targets : output[t].by # u
    BY WebsocketAssumption DEF SocketInit, NoOutput, Calls
  <1>4. NotesAreTrue
    BY <1>3 DEF SocketInit, NotesAreTrue, Nothing
  <1> QED BY <1>1, <1>2, <1>4, SocketTypeInitially DEF OutcomeInv

\* Steps of processes, and of the agent before it waits, touch no output and no note.
LEMMA FilesStep ==
  ASSUME OutcomeInv, SocketNext
  PROVE  FileFollowsProcess'
  <1> USE DEF OutcomeInv, SocketTypeInv, SocketTypeOK, FileFollowsProcess, Becomes, Goes, Nothing
  <1>1. Uploads \subseteq Calls /\ Readers \subseteq Calls
    BY DEF Calls
  <1>2. CASE \E c \in Calls : Process(c) \/ Kill(c)
    BY <1>1, <1>2 DEF Process, Exec, ListenerEnds, Suicide, Connect, Terminate, Kill, agentVars
  <1>3. ASSUME NEW u \in Uploads, Upload(u) \/ Recver(u)
        PROVE  FileFollowsProcess'
    <2>1. CASE Upload(u)
      BY <1>1, <2>1 DEF Upload, Fork, Arm
    <2>2. CASE Receive(u)
      BY <1>1, <2>2 DEF Receive, agentVars
    <2>3. CASE Check(u)
      BY <1>1, <2>3 DEF Check, agentVars
    <2>4. CASE RecverTurnsAway(u) \/ LetIn(u) \/ StopReceiving(u) \/ WriteFails(u)
      BY <1>1, <2>4 DEF RecverTurnsAway, LetIn, StopReceiving, WriteFails, agentVars
    <2> QED BY <1>3, <2>1, <2>2, <2>3, <2>4 DEF Recver
  <1>4. ASSUME NEW u \in Uploads, UploadEnds(u) \/ Notify(u)
        PROVE  FileFollowsProcess'
    <2>1. tmp'[u] \in {tmp[u], Nothing} /\ \A v \in Uploads \ {u} : tmp'[v] = tmp[v]
      BY <1>4 DEF UploadEnds, RecverCrashed, NothingReceived, SizeMismatch, Publish, Notify,
          childVars
    <2>2. proc' = proc /\ \A v \in Uploads : call'[v] \in {call[v], "done"}
      BY <1>1, <1>4 DEF UploadEnds, RecverCrashed, NothingReceived, SizeMismatch, Publish, Waited,
                        Notify, childVars, agentVars
    <2>3. proc[u] = "session" => tmp'[u] = tmp[u]
      BY <1>4 DEF UploadEnds, RecverCrashed, NothingReceived, SizeMismatch, Publish, Waited,
                  Ended, Crashed, Notify, childVars
    <2> QED BY <2>1, <2>2, <2>3
  <1>5. CASE \E r \in Readers : \/ RequestAgentLog(r) \/ RequestLog(r) \/ RefusePath(r)
                                \/ RefuseReader(r) \/ Readlog(r) \/ Reader(r) \/ ReaderEnds(r)
    <2>1. Uploads \cap Readers = {}
      BY WebsocketAssumption
    <2> QED BY <1>1, <1>5, <2>1 DEF RequestAgentLog, RequestLog, RefusePath, RefuseReader,
        Readlog, Fork, Reader, ReaderTurnsAway, Send, StopSending, ReaderEnds, Disarm,
        childVars, agentVars
  <1> QED BY <1>2, <1>3, <1>4, <1>5 DEF SocketNext

LEMMA OutcomeStep ==
  ASSUME OutcomeInv, SocketNext
  PROVE  OutputsAreWhole' /\ NotesAreTrue'
  <1> USE DEF OutcomeInv, SocketTypeInv, SocketTypeOK, OutputsAreWhole, NotesAreTrue, Nothing
  <1>1. Uploads \subseteq Calls /\ Readers \subseteq Calls /\ Uploads \cap Readers = {}
        /\ \A u \in Uploads : Target[u] \in Targets
    BY WebsocketAssumption DEF Calls, Targets
  <1>2. ASSUME UNCHANGED <<output, note, sent>>,
               \A u \in Uploads : call[u] = "done" => call'[u] = "done"
        PROVE  OutputsAreWhole' /\ NotesAreTrue'
    BY <1>2
  <1>3. CASE \E c \in Calls : Process(c) \/ Kill(c)
    BY <1>2, <1>3 DEF Process, Exec, ListenerEnds, Suicide, Connect, Terminate, Kill, agentVars
  <1>4. ASSUME NEW u \in Uploads, Upload(u) \/ Recver(u)
        PROVE  OutputsAreWhole' /\ NotesAreTrue'
    BY <1>1, <1>2, <1>4 DEF Upload, Fork, Goes, Recver, RecverTurnsAway, LetIn, Receive,
                            StopReceiving, WriteFails, Check, agentVars
  <1>5. CASE \E r \in Readers : \/ RequestAgentLog(r) \/ RequestLog(r) \/ RefusePath(r)
                                \/ RefuseReader(r) \/ Readlog(r) \/ Reader(r) \/ ReaderEnds(r)
    BY <1>1, <1>2, <1>5 DEF RequestAgentLog, RequestLog, RefusePath, RefuseReader, Readlog, Fork,
         Goes, Reader, ReaderTurnsAway, Send, StopSending, ReaderEnds, childVars, agentVars
  <1>6. ASSUME NEW u \in Uploads, Notify(u)
        PROVE  OutputsAreWhole' /\ NotesAreTrue'
    BY <1>6 DEF Notify, childVars, agentVars
  <1>7. ASSUME NEW u \in Uploads, UploadEnds(u)
        PROVE  OutputsAreWhole' /\ NotesAreTrue'
    <2>1. /\ call[u] = "waiting" /\ call' = [call EXCEPT ![u] = "done"]
          /\ note[u] = Nothing /\ sent' = sent /\ sent[u] \in {Nothing, "lost"}
          /\ \A t \in Targets : output[t].by # u
      BY <1>7 DEF UploadEnds, RecverCrashed, NothingReceived, SizeMismatch, Publish, Waited, Goes
    <2>2. CASE Publish(u)
      <3>1. tmp[u] = "whole"
        BY <2>2 DEF Publish, RightSize, FileFollowsProcess
      <3>2. /\ output' = [output EXCEPT ![Target[u]] = [by |-> u, content |-> "whole"]]
            /\ note' = [note EXCEPT ![u] = "success"]
        BY <2>2, <3>1 DEF Publish
      <3>3. OutputsAreWhole'
        BY <1>1, <3>2
      <3>4. \A v \in Uploads : note'[v] = "success" => output'[Target[v]].content = "whole"
        BY <1>1, <3>2
      <3>5. \A v \in Uploads, t \in Targets : output'[t].by = v => note'[v] = "success"
        BY <1>1, <3>2
      <3> QED BY <1>1, <2>1, <3>2, <3>3, <3>4, <3>5
    <2>3. CASE ~ Publish(u)
      <3>1. output' = output /\ \E s \in {Nothing, "fail"} : note' = [note EXCEPT ![u] = s]
        BY <1>7, <2>3 DEF UploadEnds, RecverCrashed, NothingReceived, SizeMismatch
      <3> QED BY <1>1, <2>1, <3>1
    <2> QED BY <2>2, <2>3
  <1> QED BY <1>3, <1>4, <1>5, <1>6, <1>7 DEF SocketNext

\* For any uploads and targets: a published file has the md5 it is named by, and what the
\* observer of an upload was told is true.
THEOREM OutcomeIsTrueHolds == SocketSpec => []OutcomeIsTrue
  <1>1. OutcomeInv /\ [SocketNext]_socketVars => OutcomeInv'
    <2> SUFFICES ASSUME OutcomeInv, [SocketNext]_socketVars PROVE OutcomeInv'
      OBVIOUS
    <2>1. CASE SocketNext
      BY <2>1, SocketTypeStep, FilesStep, OutcomeStep DEF OutcomeInv
    <2>2. CASE UNCHANGED socketVars
      BY <2>2, SocketTypeStep DEF OutcomeInv, FileFollowsProcess, OutputsAreWhole, NotesAreTrue,
          socketVars
    <2> QED BY <2>1, <2>2
  <1>2. OutcomeInv => OutcomeIsTrue
    <2> SUFFICES ASSUME OutcomeInv PROVE OutcomeIsTrue
      OBVIOUS
    <2>1. \A u \in Uploads : Target[u] \in Targets
      BY DEF Targets
    <2> QED BY <2>1 DEF OutcomeInv, OutputsAreWhole, NotesAreTrue, OutcomeIsTrue, Nothing
  <1> QED BY <1>1, <1>2, OutcomeInitially, PTL DEF SocketSpec
===============================================================================
