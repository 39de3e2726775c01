----------------------------- MODULE Websocket -----------------------------
(***************************************************************************)
(* The websocket processes an agent starts: a reader sends the lines of a  *)
(* log (readlog), a recver receives a file (LaunchRecverWebsocket).  The   *)
(* agent forks the process, arms a timer that kills it, and a green thread *)
(* waits for its end.  The process listens for one websocket client; it    *)
(* ends by itself when none comes, and its own exit, a signal or an        *)
(* exception decide what the waiting thread finds.                         *)
(*                                                                         *)
(* A recver writes to a temporary file of its own; the waiting thread      *)
(* renames it to the name the md5 gives, and tells an observer.  The ports *)
(* of readers are in AgentPorts.  Names are apart from those of            *)
(* FileManager, the other way files come to an agent.                      *)
(***************************************************************************)
EXTENDS Naturals, FiniteSets

CONSTANTS
    Uploads,         \* calls of LaunchRecverWebsocket
    Readers,         \* calls of readlog
    Target,          \* Target[u]: the md5 of the file upload u is for
    MaxWebsockets    \* conf.websokcets: readers at a time

Calls == Uploads \cup Readers
Targets == {Target[u] : u \in Uploads}
Nothing == "none"

ASSUME WebsocketAssumption ==
    /\ Uploads \cap Readers = {} /\ Nothing \notin Calls
    /\ MaxWebsockets \in Nat

VARIABLES
    call,        \* where the agent's thread is with each call
    proc,        \* the process of each call
    timer,       \* is the timer that kills it armed
    tmp,         \* what the temporary file of an upload holds
    output,      \* what the file of each md5 holds, and who put it there
    websockets,  \* readers the agent counts
    note,        \* the notification an upload has spawned
    sent         \* what the observer was told

childVars == <<proc, tmp>>
agentVars == <<call, timer, output, websockets, note>>
socketVars == <<call, proc, timer, tmp, output, websockets, note, sent>>

Asked == {"asked", "askedPath"}
Crashed == {"exit1", "killed"}
Ended == Crashed \cup {"exit0"}
\* A file too short, too long, of the right size with another md5, or the right one.
RightSize == {"wrong", "whole"}
UploadContents == {Nothing, "part", "over"} \cup RightSize
NoOutput == [by |-> Nothing, content |-> Nothing]

SocketInit ==
    /\ call = [c \in Calls |-> "idle"] /\ proc = [c \in Calls |-> Nothing]
    /\ timer = [c \in Calls |-> FALSE]
    /\ tmp = [u \in Uploads |-> Nothing] /\ output = [t \in Targets |-> NoOutput]
    /\ websockets = {}
    /\ note = [u \in Uploads |-> Nothing] /\ sent = [u \in Uploads |-> Nothing]

Goes(c, place) == call' = [call EXCEPT ![c] = place]
Becomes(c, state) == proc' = [proc EXCEPT ![c] = state]

(***************************************************************************)
(* The agent's calls.  fork, the entry and the timer follow each other     *)
(* without a switch of green threads.                                      *)
(***************************************************************************)
Fork(c) == Goes(c, "waiting") /\ Becomes(c, "forked")
Arm(c) == timer' = [timer EXCEPT ![c] = TRUE]

\* upload: bad arguments, an unusable directory or a file that is there refuse it.
Upload(u) ==
    /\ call[u] = "idle"
    /\ \/ Goes(u, "refused") /\ UNCHANGED <<proc, timer>>
       \/ output[Target[u]] = NoOutput /\ Fork(u) /\ Arm(u)
    /\ UNCHANGED <<tmp, output, websockets, note, sent>>

\* AgentReuest.readlog, for the agent's own logs: the agent is online and is called.
\* Nothing stops an agent from starting a reader after the call has timed out.
RequestAgentLog(r) ==
    /\ call[r] = "idle" /\ Goes(r, "asked")
    /\ UNCHANGED <<childVars, timer, output, websockets, note, sent>>

\* EntityReuest.readlog, for an entity's: a path comes with the call.
RequestLog(r) ==
    /\ call[r] = "idle" /\ Goes(r, "askedPath")
    /\ UNCHANGED <<childVars, timer, output, websockets, note, sent>>

\* AppEndpointBase.rpc_readlog: the path is absolute, climbs or is no file.
RefusePath(r) ==
    /\ call[r] = "askedPath" /\ Goes(r, "refused")
    /\ UNCHANGED <<childVars, timer, output, websockets, note, sent>>

\* rpc_readlog makes an error result of readlog's ValueError.
RefuseReader(r) ==
    /\ call[r] \in Asked /\ Cardinality(websockets) >= MaxWebsockets
    /\ Goes(r, "refused")
    /\ UNCHANGED <<childVars, timer, output, websockets, note, sent>>

\* Mutant: the limit of readers is off by one.
Readlog_OneMore(r) ==
    /\ call[r] \in Asked /\ Cardinality(websockets) <= MaxWebsockets
    /\ Fork(r) /\ Arm(r) /\ websockets' = websockets \cup {r}
    /\ UNCHANGED <<tmp, output, note, sent>>

Readlog(r) ==
    /\ call[r] \in Asked /\ Cardinality(websockets) < MaxWebsockets
    /\ Fork(r) /\ Arm(r) /\ websockets' = websockets \cup {r}
    /\ UNCHANGED <<tmp, output, note, sent>>

\* Mutant: the process is looked up under another name.
Kill_OtherName(c) ==
    /\ timer[c] /\ proc[c] \in {"listening", "handshake", "session", "checking"}
    /\ timer' = [timer EXCEPT ![c] = FALSE]
    /\ UNCHANGED <<childVars, call, output, websockets, note, sent>>

\* _kill: the process is looked up by pid and killed when it has the executable's
\* name, which it has from execv on; the timers are long after that.
Kill(c) ==
    /\ timer[c] /\ proc[c] \in {"listening", "handshake", "session", "checking"}
    /\ Becomes(c, "killed") /\ timer' = [timer EXCEPT ![c] = FALSE]
    /\ UNCHANGED <<tmp, call, output, websockets, note, sent>>

(***************************************************************************)
(* The process.                                                            *)
(***************************************************************************)
\* execv, the imports and the bind of the port; any of them may fail.
Exec(c) ==
    /\ proc[c] = "forked"
    /\ \E state \in {"listening", "exit1"} : Becomes(c, state)
    /\ UNCHANGED <<tmp, agentVars, sent>>

\* The listener stops after 15 seconds, and after an exception of a handler.
ListenerEnds(c) ==
    /\ proc[c] = "listening" /\ Becomes(c, "exit0")
    /\ UNCHANGED <<tmp, agentVars, sent>>

\* Until a client is let in, the process ends itself after 120 seconds.
Suicide(c) ==
    /\ proc[c] \in {"listening", "handshake"} /\ Becomes(c, "exit1")
    /\ UNCHANGED <<tmp, agentVars, sent>>

Connect(c) ==
    /\ proc[c] = "listening" /\ Becomes(c, "handshake")
    /\ UNCHANGED <<tmp, agentVars, sent>>

\* do_handshake turns whatever a handler raises into the end of the listener.
Terminate(c) ==
    /\ proc[c] \in {"handshake", "session"} /\ Becomes(c, "exit0")
    /\ UNCHANGED <<tmp, agentVars, sent>>

\* do_GET of the recver: a token that does not match, or no websocket, is answered
\* with an error and the listener goes on.
RecverTurnsAway(u) ==
    /\ proc[u] = "handshake" /\ Becomes(u, "listening")
    /\ UNCHANGED <<tmp, agentVars, sent>>

\* do_GET of the reader: the same, and a plain GET of a directory lists it.
ReaderTurnsAway(r) ==
    /\ proc[r] = "handshake" /\ Becomes(r, "listening")
    /\ UNCHANGED <<tmp, agentVars, sent>>

\* The suicide is cancelled and the file opened for writing.
LetIn(u) ==
    /\ proc[u] = "handshake" /\ Becomes(u, "session")
    /\ tmp' = [tmp EXCEPT ![u] = "part"]
    /\ UNCHANGED <<agentVars, sent>>

\* Frames are written until there are as many bytes as were announced.
Receive(u) ==
    /\ proc[u] = "session" /\ tmp[u] = "part"
    /\ \E content \in RightSize \cup {"over"} :
          /\ tmp' = [tmp EXCEPT ![u] = content]
          /\ Becomes(u, "checking")
    /\ UNCHANGED <<agentVars, sent>>

\* The client closes, or sends nothing for a heartbeat.
StopReceiving(u) ==
    /\ proc[u] = "session" /\ Becomes(u, "checking")
    /\ UNCHANGED <<tmp, agentVars, sent>>

\* A write, or the closing of the file, fails: the rest of the data is not in it.
WriteFails(u) ==
    /\ proc[u] \in {"session", "checking"} /\ Becomes(u, "exit0")
    /\ tmp' = [tmp EXCEPT ![u] = "part"]
    /\ UNCHANGED <<agentVars, sent>>

\* Mutant: the md5 is not compared.
Check_SizeOnly(u) ==
    /\ proc[u] = "checking" /\ Becomes(u, "exit0")
    /\ tmp' = [tmp EXCEPT ![u] = IF @ \in RightSize THEN @ ELSE Nothing]
    /\ UNCHANGED <<agentVars, sent>>

\* A file whose size or md5 is not the announced one is removed.
Check(u) ==
    /\ proc[u] = "checking" /\ Becomes(u, "exit0")
    /\ tmp' = [tmp EXCEPT ![u] = IF @ = "whole" THEN @ ELSE Nothing]
    /\ UNCHANGED <<agentVars, sent>>

\* The reader's loop: it sends what the log gets and pings a client that is silent,
\* until the client closes, answers or the log is gone.
Send(r) ==
    /\ proc[r] = "handshake" /\ Becomes(r, "session")
    /\ UNCHANGED <<tmp, agentVars, sent>>
StopSending(r) ==
    /\ proc[r] = "session" /\ Becomes(r, "exit0")
    /\ UNCHANGED <<tmp, agentVars, sent>>

(***************************************************************************)
(* The waiting threads.                                                    *)
(***************************************************************************)
Disarm(c) == timer' = [timer EXCEPT ![c] = FALSE]

\* _wait of readlog.
ReaderEnds(r) ==
    /\ call[r] = "waiting" /\ proc[r] \in Ended
    /\ Goes(r, "done") /\ Disarm(r) /\ websockets' = websockets \ {r}
    /\ UNCHANGED <<childVars, output, note, sent>>

\* syncwait of an upload: the process is gone, exitfunc is called whatever follows.
Waited(u) ==
    /\ call[u] = "waiting" /\ proc[u] \in Ended
    /\ Goes(u, "done") /\ Disarm(u)
    /\ UNCHANGED <<proc, websockets, sent>>

\* A crash removes the temporary file.  If there is none that raises, and nobody is
\* told; else the file is missed below.
RecverCrashed(u) ==
    /\ proc[u] \in Crashed /\ Waited(u)
    /\ tmp' = [tmp EXCEPT ![u] = Nothing]
    /\ note' = [note EXCEPT ![u] = IF tmp[u] = Nothing THEN Nothing ELSE "fail"]
    /\ UNCHANGED output

\* The recver has removed the file, or never wrote one.
NothingReceived(u) ==
    /\ proc[u] = "exit0" /\ tmp[u] = Nothing /\ Waited(u)
    /\ note' = [note EXCEPT ![u] = "fail"]
    /\ UNCHANGED <<tmp, output>>

\* The expression `notify & spawn_n(notify.fail)' tells and then raises, so that the
\* removal that follows it is never reached.
SizeMismatch(u) ==
    /\ proc[u] = "exit0" /\ tmp[u] \in {"part", "over"} /\ Waited(u)
    /\ note' = [note EXCEPT ![u] = "fail"]
    /\ UNCHANGED <<tmp, output>>

\* A file another upload has put there meanwhile is replaced.
Publish(u) ==
    /\ proc[u] = "exit0" /\ tmp[u] \in RightSize /\ Waited(u)
    /\ output' = [output EXCEPT ![Target[u]] = [by |-> u, content |-> tmp[u]]]
    /\ tmp' = [tmp EXCEPT ![u] = Nothing] /\ note' = [note EXCEPT ![u] = "success"]

\* The spawned notify.success or notify.fail: the observer is told, or not when it
\* wants to hear nothing of that kind or the request fails.
Notify(u) ==
    /\ note[u] # Nothing /\ sent[u] = Nothing
    /\ sent' \in {[sent EXCEPT ![u] = s] : s \in {note[u], "lost"}}
    /\ UNCHANGED <<childVars, agentVars>>

-----------------------------------------------------------------------------
Process(c) ==
    \/ Exec(c) \/ ListenerEnds(c) \/ Suicide(c) \/ Connect(c) \/ Terminate(c)
Recver(u) ==
    \/ RecverTurnsAway(u) \/ LetIn(u) \/ Receive(u) \/ StopReceiving(u) \/ WriteFails(u)
    \/ Check(u)
Reader(r) == ReaderTurnsAway(r) \/ Send(r) \/ StopSending(r)
UploadEnds(u) ==
    \/ RecverCrashed(u) \/ NothingReceived(u) \/ SizeMismatch(u) \/ Publish(u)

SocketNext ==
    \/ \E c \in Calls : Process(c) \/ Kill(c)
    \/ \E u \in Uploads : Upload(u) \/ Recver(u) \/ UploadEnds(u) \/ Notify(u)
    \/ \E r \in Readers : \/ RequestAgentLog(r) \/ RequestLog(r) \/ RefusePath(r)
                          \/ RefuseReader(r) \/ Readlog(r) \/ Reader(r) \/ ReaderEnds(r)

SocketSpec == SocketInit /\ [][SocketNext]_socketVars

\* Nothing is asked of clients: a process starts or fails, the agent's timer runs out,
\* and the waiting thread sees the end of the process.
SocketFairSpec ==
    /\ SocketSpec
    /\ \A c \in Calls : WF_socketVars(Exec(c)) /\ WF_socketVars(Kill(c))
    /\ \A u \in Uploads : WF_socketVars(UploadEnds(u))
    /\ \A r \in Readers : WF_socketVars(ReaderEnds(r))

-----------------------------------------------------------------------------
\* Every variable has its type, and no more readers run than are allowed: the count is
\* checked before the fork and the entry made after it.
SocketTypeOK ==
    /\ call \in [Calls -> Asked \cup {"idle", "waiting", "done", "refused"}]
    /\ proc \in [Calls -> {Nothing, "forked", "listening", "handshake", "session",
                           "checking"} \cup Ended]
    /\ timer \in [Calls -> BOOLEAN]
    /\ tmp \in [Uploads -> UploadContents]
    /\ output \in [Targets -> [by : Uploads \cup {Nothing}, content : UploadContents]]
    /\ websockets \subseteq Readers /\ Cardinality(websockets) <= MaxWebsockets
    /\ note \in [Uploads -> {Nothing, "fail", "success"}]
    /\ sent \in [Uploads -> {Nothing, "fail", "success", "lost"}]

\* The file of an md5 has that md5 (syncwait only looks at the size; the recver, which
\* may be killed or fail at any step, looks at the md5), and what the observer is told
\* of an upload is true.
OutcomeIsTrue ==
    /\ \A t \in Targets : output[t].content \in {Nothing, "whole"}
    /\ \A u \in Uploads :
          /\ sent[u] = "success" => output[Target[u]].content = "whole"
          /\ sent[u] = "fail" => output[Target[u]].by # u

\* Every process that is started ends and is waited for, so that an upload calls its
\* exitfunc and a reader's place is free again, whatever clients do.
EveryCallEnds == \A c \in Calls : call[c] = "waiting" ~> call[c] = "done"
=============================================================================
