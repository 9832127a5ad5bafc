---------------------------- MODULE RequestContract ----------------------------
(***************************************************************************)
(* What the gateway promises the clients of a public tunnel, without       *)
(* sessions, queues, channels or sockets: every request gets one reply, a  *)
(* success is the reply of the local service, and the local service runs a *)
(* request at most once and never, before or after the reply, one that was *)
(* refused or could not be sent in whole.                                  *)
(***************************************************************************)
CONSTANTS Requests, Codes

VARIABLES
    reply,      \* the status each client was given, "none" before
    executed    \* requests the agent has taken in whole to run at the local service

Init == reply = [r \in Requests |-> "none"] /\ executed = {}

\* The agent may learn too late that a request timed out, or not at all that the
\* gateway has given its session up: after these two replies it may still start.
Execute(r) ==
    /\ r \notin executed /\ reply[r] \in {"none", "502", "504"}
    /\ executed' = executed \cup {r}
    /\ reply' = reply

Reply(r, code) ==
    /\ reply[r] = "none"
    /\ code = "200" => r \in executed
    /\ code \in {"refused", "unavailable"} => r \notin executed
    /\ reply' = [reply EXCEPT ![r] = code]
    /\ executed' = executed

Next == \E r \in Requests : Execute(r) \/ \E code \in Codes \ {"none"} : Reply(r, code)

Spec == Init /\ [][Next]_<<reply, executed>>
================================================================================
