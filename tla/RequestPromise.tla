--------------------------- MODULE RequestPromise ---------------------------
(***************************************************************************)
(* What gcenter promises whoever asks for the result of an asynchronous    *)
(* request: the verdict, the agents it is about, and what is kept of each  *)
(* of them.  How they come about, by whom, how often and in which order,   *)
(* is AsyncRequest's business.                                             *)
(***************************************************************************)
CONSTANTS
    Agents,
    Durable     \* answers are kept for good

VARIABLES
    verdict,    \* "unknown" at first, then "open", then what became of the request
    asked,      \* the agents whose answers are awaited
    worked,     \* agents that did the work
    answered,   \* agents that answered, if only that it was too late
    record      \* what is kept of each agent

vars == <<verdict, asked, worked, answered, record>>

Answers == {"answer", "late"}
Sent == verdict \notin {"unknown", "not_sent"}

Init ==
    /\ verdict = "unknown"
    /\ asked = {} /\ worked = {} /\ answered = {}
    /\ record = [a \in Agents |-> "none"]

Accept ==
    /\ verdict = "unknown" /\ verdict' = "open"
    /\ asked' \in SUBSET Agents
    /\ UNCHANGED <<worked, answered, record>>

\* The agents are not asked, and never will be.
Decline ==
    /\ verdict \in {"unknown", "open"} /\ worked = {} /\ answered = {}
    /\ verdict' = "not_sent"
    /\ UNCHANGED <<asked, worked, answered, record>>

\* An agent does the work, or says that it is too late.  Awaited agents begin no work
\* once the request is closed.
Answer(a) ==
    /\ Sent
    /\ answered' = answered \cup {a}
    /\ worked' \in {worked, worked \cup {a}}
    /\ a \in asked /\ worked' # worked => verdict = "open"
    /\ UNCHANGED <<verdict, asked, record>>

\* An answer takes the place of nothing, of an overtime record or of another answer.
Keep(a, k) ==
    /\ a \in answered /\ (k = "answer" => a \in worked)
    /\ record' = [record EXCEPT ![a] = k]
    /\ UNCHANGED <<verdict, asked, worked, answered>>

Forget(a) ==
    /\ ~ Durable
    /\ record' = [record EXCEPT ![a] = "none"]
    /\ UNCHANGED <<verdict, asked, worked, answered>>

\* Overtime records take the place of nothing.
GiveUp(agents) ==
    /\ verdict = "open"
    /\ record' = [a \in Agents |->
                     IF a \in agents /\ record[a] = "none" THEN "overtime" ELSE record[a]]
    /\ UNCHANGED <<verdict, asked, worked, answered>>

Conclude ==
    /\ verdict = "open"
    /\ \/ /\ asked \subseteq answered
          /\ Durable => \A a \in asked : record[a] \in Answers
          /\ verdict' = "all_answered"
       \/ /\ Durable => \A a \in asked : record[a] # "none"
          /\ verdict' = "not_all_answered"
    /\ UNCHANGED <<asked, worked, answered, record>>

Next ==
    \/ Accept \/ Decline \/ Conclude
    \/ \E a \in Agents : Answer(a) \/ Forget(a) \/ (\E k \in Answers : Keep(a, k))
    \/ \E agents \in SUBSET Agents : GiveUp(agents)

Spec == Init /\ [][Next]_vars
=============================================================================
