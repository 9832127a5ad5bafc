------------------------------ MODULE PublicProxy ------------------------------
(***************************************************************************)
(* The data plane of the gateway: public HTTP requests, each served by its *)
(* own goroutine (PublicHandler.ServeHTTP), meet the agent sessions, each  *)
(* served by its own goroutine (AgentConnectHandler.handshake), in the     *)
(* SessionManager and the tunnel Registry they share.                      *)
(*                                                                         *)
(* A step is what one goroutine does under one lock, or one operation on a *)
(* channel; the model interleaves all of them.  Frames carry no payload:   *)
(* the properties tell apart only their kind, their request and their      *)
(* sequence number.                                                        *)
(***************************************************************************)
EXTENDS Integers, Sequences, FiniteSets

CONSTANTS
    Requests,       \* public requests; each draws its own random request ID
    Sessions,       \* agent sessions; each draws its own random session ID
    Subdomains,     \* public subdomains that tunnels are opened under
    QueueCapacity,  \* sessionOutboundQueueCapacity (32)
    WireCapacity,   \* messages that the sockets of a connection hold
    MaxStreams,     \* maxPendingRequestStreams of the agent (32)
    MaxBodyChunks,  \* bound of the model: body chunks of one request
    None            \* no session, no subdomain

ASSUME QueueCapacityAssumption == QueueCapacity \in Nat \ {0}
ASSUME WireCapacityAssumption == WireCapacity \in Nat \ {0}
ASSUME MaxStreamsAssumption == MaxStreams \in Nat \ {0}
ASSUME MaxBodyChunksAssumption == MaxBodyChunks \in Nat
ASSUME NoneAssumption == None \notin Sessions \cup Subdomains

VARIABLES
    \* SessionManager
    sessions,             \* IDs in the sessions map
    outbound,             \* Session.Outbound, a buffered channel per session
    pending,              \* request ID -> session it waits for, or None
    response,             \* pendingRequest.response, a channel of capacity 1
    connectionsTotal, disconnectionsTotal,
    \* tunnels.Registry
    bySubdomain,          \* subdomain -> session of its active tunnel, or None
    requestsTotal,        \* traffic.RequestsTotal
    \* the goroutine of each session
    phase,                \* where it is in handshake and its deferred cleanup
    unsent,               \* responses taken out of pending, not yet on a channel
    \* the goroutine of each public request
    pc, frame, sequence, target, via, status,
    \* the WebSocket of each session and the read loop of the agent behind it
    wire,                 \* written by the gateway, not yet read by the agent
    stream, next

managerVars == <<sessions, outbound, pending, response,
                 connectionsTotal, disconnectionsTotal>>
registryVars == <<bySubdomain, requestsTotal>>
sessionVars == <<phase, unsent>>
handlerVars == <<pc, frame, sequence, target, via, status>>
agentVars == <<wire, stream, next>>
vars == <<managerVars, registryVars, sessionVars, handlerVars, agentVars>>

Phases == {"new", "registered", "opening", "serving", "leaving", "removed", "closed"}
PCs == {"new", "routed", "lookup", "select", "read", "waiting", "returning", "done"}
Registered == {"lookup", "select", "read", "waiting"}
Streams == {"none", "open", "dropped", "whole", "answered", "rejected"}

\* What arrives on a response channel: a response of the local service, or one
\* whose Error field is set, by the agent or by Remove.
Kinds == {"ok", "error"}
Response == [req : Requests, kind : Kinds]

\* The codes of ServeHTTP: "200" stands for whatever the local service answered,
\* "refused" for 404, 413, 429 and 500, "unavailable" for a 502 given before the
\* request was queued in whole, "502" for one given in the place of a response.
Codes == {"none", "200", "refused", "unavailable", "502", "504"}

Frame == [type : {"start", "chunk", "end", "cancel"}, req : Requests, seq : Nat]
            \cup [type : {"opened"}]

TypeOK ==
    /\ sessions \in SUBSET Sessions
    /\ outbound \in [Sessions -> Seq(Frame)]
    /\ pending \in [Requests -> Sessions \cup {None}]
    /\ response \in [Requests -> Kinds \cup {"empty"}]
    /\ connectionsTotal \in Nat /\ disconnectionsTotal \in Nat
    /\ bySubdomain \in [Subdomains -> Sessions \cup {None}]
    /\ requestsTotal \in Nat
    /\ phase \in [Sessions -> Phases]
    /\ unsent \in [Sessions -> SUBSET Response]
    /\ pc \in [Requests -> PCs]
    /\ frame \in [Requests -> {"start", "chunk", "end"}]
    /\ sequence \in [Requests -> Nat]
    /\ target \in [Requests -> Sessions \cup {None}]
    /\ via \in [Requests -> Subdomains \cup {None}]
    /\ status \in [Requests -> Codes]
    /\ wire \in [Sessions -> Seq(Frame)]
    /\ stream \in [Requests -> Streams]
    /\ next \in [Requests -> Nat]

Init ==
    /\ sessions = {}
    /\ outbound = [s \in Sessions |-> <<>>]
    /\ pending = [r \in Requests |-> None]
    /\ response = [r \in Requests |-> "empty"]
    /\ connectionsTotal = 0 /\ disconnectionsTotal = 0
    /\ bySubdomain = [d \in Subdomains |-> None]
    /\ requestsTotal = 0
    /\ phase = [s \in Sessions |-> "new"]
    /\ unsent = [s \in Sessions |-> {}]
    /\ pc = [r \in Requests |-> "new"]
    /\ frame = [r \in Requests |-> "start"]
    /\ sequence = [r \in Requests |-> 0]
    /\ target = [r \in Requests |-> None]
    /\ via = [r \in Requests |-> None]
    /\ status = [r \in Requests |-> "none"]
    /\ wire = [s \in Sessions |-> <<>>]
    /\ stream = [r \in Requests |-> "none"]
    /\ next = [r \in Requests |-> 0]

--------------------------------------------------------------------------------
(* The goroutine of an agent session. *)

HasRoom(s) == Len(outbound[s]) < QueueCapacity

\* Send finds the session under the lock and never waits for its queue; TRUE
\* iff the message was queued.
CanSend(s) == s \in sessions /\ HasRoom(s)

Register(s) ==
    /\ phase[s] = "new"
    /\ phase' = [phase EXCEPT ![s] = "registered"]
    /\ sessions' = sessions \cup {s}
    /\ connectionsTotal' = connectionsTotal + 1
    /\ UNCHANGED <<outbound, pending, response, disconnectionsTotal,
                   registryVars, unsent, handlerVars, agentVars>>

\* The open_tunnel message an agent begins with: the persistent tunnel
\* (TunnelLifecycle) is entered in the registry ...
OpenTunnel(s, d) ==
    /\ phase[s] = "registered"
    /\ bySubdomain' = [bySubdomain EXCEPT ![d] = s]
    /\ phase' = [phase EXCEPT ![s] = "opening"]
    /\ UNCHANGED <<managerVars, requestsTotal, unsent, handlerVars, agentVars>>

\* ... and the answer is queued.  By now requests may have filled the queue, which
\* this goroutine does not empty meanwhile; the session ends then.
SendOpened(s) ==
    /\ phase[s] = "opening"
    /\ \/ /\ CanSend(s)
          /\ outbound' = [outbound EXCEPT ![s] = Append(@, [type |-> "opened"])]
          /\ phase' = [phase EXCEPT ![s] = "serving"]
       \/ /\ ~CanSend(s)
          /\ outbound' = outbound
          /\ phase' = [phase EXCEPT ![s] = "leaving"]
    /\ UNCHANGED <<sessions, pending, response, connectionsTotal,
                   disconnectionsTotal, registryVars, unsent, handlerVars,
                   agentVars>>

\* The loop of serveSession writes the oldest queued message to the WebSocket.
\* While that would block the message is still the head of the queue here; TunnelFlow
\* has the blocked write, and the goroutine it holds up, as states of their own.
WriteOutbound(s) ==
    /\ phase[s] = "serving" /\ unsent[s] = {}
    /\ outbound[s] # <<>> /\ Len(wire[s]) < WireCapacity
    /\ outbound' = [outbound EXCEPT ![s] = Tail(@)]
    /\ wire' = [wire EXCEPT ![s] = Append(@, Head(outbound[s]))]
    /\ UNCHANGED <<sessions, pending, response, connectionsTotal,
                   disconnectionsTotal, registryVars, sessionVars, handlerVars,
                   stream, next>>

\* A fault: DeliverResponse leaves the entry in pending.
DeliverKeepsPending(s, r, k) ==
    /\ phase[s] = "serving" /\ unsent[s] = {}
    /\ target[r] = s /\ stream[r] = "whole"
    /\ stream' = [stream EXCEPT ![r] = "answered"]
    /\ unsent' = [unsent EXCEPT ![s] = IF pending[r] # None THEN {[req |-> r, kind |-> k]} ELSE {}]
    /\ UNCHANGED <<managerVars, registryVars, phase, handlerVars, wire, next>>

\* The end of the agent's response to r: DeliverResponse takes r out of pending
\* under the lock and sends on its channel after the unlock.  The agent answers
\* every request it has received in whole, once, at any time and in any order.
DeliverResponse(s, r, k) ==
    /\ phase[s] = "serving" /\ unsent[s] = {}
    /\ target[r] = s /\ stream[r] = "whole"
    /\ stream' = [stream EXCEPT ![r] = "answered"]
    /\ pending' = [pending EXCEPT ![r] = None]
    /\ unsent' = [unsent EXCEPT ![s] = IF pending[r] # None THEN {[req |-> r, kind |-> k]} ELSE {}]
    /\ UNCHANGED <<sessions, outbound, response, connectionsTotal,
                   disconnectionsTotal, registryVars, phase, handlerVars, wire, next>>

\* A send on a response channel, in DeliverResponse and in the loop of Remove.
SendResponse(s) ==
    \E m \in unsent[s] :
        /\ response[m.req] = "empty"
        /\ response' = [response EXCEPT ![m.req] = m.kind]
        /\ unsent' = [unsent EXCEPT ![s] = @ \ {m}]
        /\ UNCHANGED <<sessions, outbound, pending, connectionsTotal,
                       disconnectionsTotal, registryVars, phase, handlerVars,
                       agentVars>>

\* A fault: Remove does not look at the requests that wait for the session.
RemoveKeepsPending(s) ==
    /\ phase[s] \in {"registered", "serving", "leaving"} /\ unsent[s] = {}
    /\ phase' = [phase EXCEPT ![s] = "removed"]
    /\ sessions' = sessions \ {s}
    /\ disconnectionsTotal' = disconnectionsTotal + (IF s \in sessions THEN 1 ELSE 0)
    /\ UNCHANGED <<outbound, pending, response, connectionsTotal, registryVars,
                   unsent, handlerVars, agentVars>>

\* A fault: Remove counts a disconnection only if a request waited for it.
RemoveMiscounts(s) ==
    /\ phase[s] \in {"registered", "serving", "leaving"} /\ unsent[s] = {}
    /\ phase' = [phase EXCEPT ![s] = "removed"]
    /\ sessions' = sessions \ {s}
    /\ unsent' = [unsent EXCEPT ![s] = {[req |-> r, kind |-> "error"] :
                                            r \in {q \in Requests : pending[q] = s}}]
    /\ disconnectionsTotal' = IF unsent'[s] = {} THEN disconnectionsTotal
                                                 ELSE disconnectionsTotal + 1
    /\ pending' = [r \in Requests |-> IF pending[r] = s THEN None ELSE pending[r]]
    /\ UNCHANGED <<outbound, response, connectionsTotal, registryVars,
                   handlerVars, agentVars>>

\* The socket fails, the session's context is cancelled or a message breaks the
\* protocol: serveSession returns and the deferred Remove takes the session and
\* everything that waits for it out of the maps.
Remove(s) ==
    /\ phase[s] \in {"registered", "serving", "leaving"} /\ unsent[s] = {}
    /\ phase' = [phase EXCEPT ![s] = "removed"]
    /\ sessions' = sessions \ {s}
    /\ disconnectionsTotal' = disconnectionsTotal + (IF s \in sessions THEN 1 ELSE 0)
    /\ pending' = [r \in Requests |-> IF pending[r] = s THEN None ELSE pending[r]]
    /\ unsent' = [unsent EXCEPT ![s] = {[req |-> r, kind |-> "error"] :
                                            r \in {q \in Requests : pending[q] = s}}]
    /\ UNCHANGED <<outbound, response, connectionsTotal, registryVars,
                   handlerVars, agentVars>>

\* A fault: the routes of the session are left in the registry.
CloseKeepsRoutes(s) ==
    /\ phase[s] = "removed" /\ unsent[s] = {}
    /\ phase' = [phase EXCEPT ![s] = "closed"]
    /\ UNCHANGED <<managerVars, registryVars, unsent, handlerVars, agentVars>>

\* cleanupSession, once Remove has sent all its errors.
CloseSession(s) ==
    /\ phase[s] = "removed" /\ unsent[s] = {}
    /\ phase' = [phase EXCEPT ![s] = "closed"]
    /\ bySubdomain' = [d \in Subdomains |-> IF bySubdomain[d] = s THEN None ELSE bySubdomain[d]]
    /\ UNCHANGED <<managerVars, requestsTotal, unsent, handlerVars, agentVars>>

--------------------------------------------------------------------------------
(* The read loop of the agent. *)

\* The agent's pendingRequests map: the streams begun and not ended on s.
OpenStreams(s) == {r \in Requests : target[r] = s /\ stream[r] = "open"}

\* What one message makes of its stream.  "rejected" stands for the errors that
\* end the loop.
StreamAfter(s, m) ==
    CASE m.type = "start"  -> IF stream[m.req] # "open" /\ Cardinality(OpenStreams(s)) < MaxStreams
                              THEN "open" ELSE "rejected"
      [] m.type = "chunk"  -> IF stream[m.req] = "open" /\ m.seq = next[m.req]
                              THEN "open" ELSE "rejected"
      [] m.type = "end"    -> IF stream[m.req] = "open" THEN "whole" ELSE "rejected"
      [] m.type = "cancel" -> IF stream[m.req] = "open" THEN "dropped" ELSE stream[m.req]

\* The agent reads in its own time: what is on the wire also after the gateway has
\* removed the session, nothing more once its loop has ended with an error.
AgentReads(s) ==
    /\ wire[s] # <<>>
    /\ \A r \in Requests : target[r] = s => stream[r] # "rejected"
    /\ wire' = [wire EXCEPT ![s] = Tail(@)]
    /\ LET m == Head(wire[s])
       IN  IF m.type = "opened"
           THEN UNCHANGED <<stream, next>>
           ELSE /\ stream' = [stream EXCEPT ![m.req] = StreamAfter(s, m)]
                /\ next' = [next EXCEPT ![m.req] = CASE m.type = "start" -> 0
                                                    [] m.type = "chunk" -> @ + 1
                                                    [] OTHER -> @]
    /\ UNCHANGED <<managerVars, registryVars, sessionVars, handlerVars>>

--------------------------------------------------------------------------------
(* The goroutine of a public request. *)

Finish(r, code) ==
    /\ pc' = [pc EXCEPT ![r] = "returning"]
    /\ status' = [status EXCEPT ![r] = code]

\* A fault: the cancel names no request.
sendCancelUnnamed(r) ==
    outbound' = IF CanSend(target[r])
                THEN [outbound EXCEPT ![target[r]] = Append(@, [type |-> "cancel"])]
                ELSE outbound

\* A fault: a request that failed half-way is ended, not cancelled.
sendEnd(r) ==
    outbound' = IF CanSend(target[r])
                THEN [outbound EXCEPT ![target[r]] =
                        Append(@, [type |-> "end", req |-> r, seq |-> 0])]
                ELSE outbound

\* The result of sendCancel is not looked at.  Between its lookup and its send
\* only Remove can intervene, and nothing reads the queue of a removed session,
\* so the two are one step.
sendCancel(r) ==
    outbound' = IF CanSend(target[r])
                THEN [outbound EXCEPT ![target[r]] =
                        Append(@, [type |-> "cancel", req |-> r, seq |-> 0])]
                ELSE outbound

\* Registry.Get, and the returns before the request is registered: no tunnel, the
\* rate limit (RateLimiter), an announced body that is too large.
Route(r, d) ==
    /\ pc[r] = "new"
    /\ via' = [via EXCEPT ![r] = d]
    /\ \/ /\ pc' = [pc EXCEPT ![r] = "done"]
          /\ status' = [status EXCEPT ![r] = "refused"]
          /\ target' = target
       \/ /\ bySubdomain[d] # None
          /\ pc' = [pc EXCEPT ![r] = "routed"]
          /\ target' = [target EXCEPT ![r] = bySubdomain[d]]
          /\ status' = status
    /\ UNCHANGED <<managerVars, registryVars, sessionVars, frame, sequence,
                   agentVars>>

\* The session found by Get may be gone: RegisterRequest does not look.
RegisterRequest(r) ==
    /\ pc[r] = "routed"
    /\ pending' = [pending EXCEPT ![r] = target[r]]
    /\ pc' = [pc EXCEPT ![r] = "lookup"]
    /\ UNCHANGED <<sessions, outbound, response, connectionsTotal,
                   disconnectionsTotal, registryVars, sessionVars, frame,
                   sequence, target, via, status, agentVars>>

\* What ServeHTTP does when sendContext fails: a request whose start was queued
\* is cancelled at the agent.
SendFails(r) ==
    /\ Finish(r, "unavailable")
    /\ IF frame[r] = "start" THEN outbound' = outbound ELSE sendCancel(r)

\* sendContext, first half: the session is looked up under the lock.
LookupSession(r) ==
    /\ pc[r] = "lookup"
    /\ \/ /\ target[r] \in sessions
          /\ pc' = [pc EXCEPT ![r] = "select"]
          /\ UNCHANGED <<status, outbound>>
       \/ /\ target[r] \notin sessions
          /\ SendFails(r)
    /\ UNCHANGED <<sessions, pending, response, connectionsTotal,
                   disconnectionsTotal, registryVars, sessionVars, frame,
                   sequence, target, via, agentVars>>

\* A fault: the sequence is advanced before the chunk is made.
EnqueueAdvanced(r) ==
    /\ pc[r] = "select"
    /\ HasRoom(target[r])
    /\ sequence' = [sequence EXCEPT ![r] = IF frame[r] = "chunk" THEN @ + 1 ELSE @]
    /\ outbound' = [outbound EXCEPT ![target[r]] =
                      Append(@, [type |-> frame[r], req |-> r, seq |-> sequence'[r]])]
    /\ pc' = [pc EXCEPT ![r] = IF frame[r] = "end" THEN "waiting" ELSE "read"]
    /\ UNCHANGED <<sessions, pending, response, connectionsTotal,
                   disconnectionsTotal, registryVars, sessionVars, frame, target,
                   via, status, agentVars>>

\* sendContext, second half: it waits for room in the queue it found, which may
\* by now be the queue of a removed session.
Enqueue(r) ==
    /\ pc[r] = "select"
    /\ HasRoom(target[r])
    /\ outbound' = [outbound EXCEPT ![target[r]] =
                      Append(@, [type |-> frame[r], req |-> r, seq |-> sequence[r]])]
    /\ pc' = [pc EXCEPT ![r] = IF frame[r] = "end" THEN "waiting" ELSE "read"]
    /\ sequence' = [sequence EXCEPT ![r] = IF frame[r] = "chunk" THEN @ + 1 ELSE @]
    /\ UNCHANGED <<sessions, pending, response, connectionsTotal,
                   disconnectionsTotal, registryVars, sessionVars, frame, target,
                   via, status, agentVars>>

\* sendContext, second half: the client leaves and the context is
\* done.
AbandonSend(r) ==
    /\ pc[r] = "select"
    /\ SendFails(r)
    /\ UNCHANGED <<sessions, pending, response, connectionsTotal,
                   disconnectionsTotal, registryVars, sessionVars, frame,
                   sequence, target, via, agentVars>>

\* sendRequestBody reads the body: a chunk, its end, or an error (the client is
\* gone, or the body exceeds the limit of MaxBytesReader).
ReadBody(r) ==
    /\ pc[r] = "read"
    /\ \/ /\ sequence[r] < MaxBodyChunks
          /\ frame' = [frame EXCEPT ![r] = "chunk"]
          /\ pc' = [pc EXCEPT ![r] = "lookup"]
          /\ UNCHANGED <<status, outbound>>
       \/ /\ frame' = [frame EXCEPT ![r] = "end"]
          /\ pc' = [pc EXCEPT ![r] = "lookup"]
          /\ UNCHANGED <<status, outbound>>
       \/ /\ \E code \in {"refused", "unavailable"} : Finish(r, code)
          /\ sendCancel(r)
          /\ frame' = frame
    /\ UNCHANGED <<sessions, pending, response, connectionsTotal,
                   disconnectionsTotal, registryVars, sessionVars, sequence,
                   target, via, agentVars>>

\* The response arrives; RecordTraffic counts it if its tunnel is still open.
ReceiveResponse(r) ==
    /\ pc[r] = "waiting" /\ response[r] # "empty"
    /\ response' = [response EXCEPT ![r] = "empty"]
    /\ Finish(r, IF response[r] = "ok" THEN "200" ELSE "502")
    /\ requestsTotal' = IF response[r] = "ok" /\ bySubdomain[via[r]] # None
                        THEN requestsTotal + 1 ELSE requestsTotal
    /\ UNCHANGED <<sessions, outbound, pending, connectionsTotal,
                   disconnectionsTotal, bySubdomain, sessionVars, frame,
                   sequence, target, via, agentVars>>

\* A fault: the timeout returns without the deferred CancelRequest.
GiveUpUndeferred(r) ==
    /\ pc[r] = "waiting"
    /\ pc' = [pc EXCEPT ![r] = "done"]
    /\ status' = [status EXCEPT ![r] = "504"]
    /\ sendCancel(r)
    /\ UNCHANGED <<sessions, pending, response, connectionsTotal,
                   disconnectionsTotal, registryVars, sessionVars, frame,
                   sequence, target, via, agentVars>>

\* The two other cases of the select: the client left, or h.timeout passed.
GiveUp(r) ==
    /\ pc[r] = "waiting"
    /\ Finish(r, "504")
    /\ sendCancel(r)
    /\ UNCHANGED <<sessions, pending, response, connectionsTotal,
                   disconnectionsTotal, registryVars, sessionVars, frame,
                   sequence, target, via, agentVars>>

\* The deferred CancelRequest.
CancelRequest(r) ==
    /\ pc[r] = "returning"
    /\ pending' = [pending EXCEPT ![r] = None]
    /\ pc' = [pc EXCEPT ![r] = "done"]
    /\ UNCHANGED <<sessions, outbound, response, connectionsTotal,
                   disconnectionsTotal, registryVars, sessionVars, frame,
                   sequence, target, via, status, agentVars>>

\* The gateway has nothing left to do for the requests of the model.
Terminated == (\A r \in Requests : pc[r] = "done") /\ UNCHANGED vars

SessionStep(s) ==
    \/ Register(s)
    \/ \E d \in Subdomains : OpenTunnel(s, d)
    \/ SendOpened(s)
    \/ WriteOutbound(s)
    \/ AgentReads(s)
    \/ \E r \in Requests, k \in Kinds : DeliverResponse(s, r, k)
    \/ SendResponse(s)
    \/ Remove(s)
    \/ CloseSession(s)

RequestStep(r) ==
    \/ \E d \in Subdomains : Route(r, d)
    \/ RegisterRequest(r)
    \/ LookupSession(r)
    \/ Enqueue(r)
    \/ AbandonSend(r)
    \/ ReadBody(r)
    \/ ReceiveResponse(r)
    \/ GiveUp(r)
    \/ CancelRequest(r)

Next ==
    \/ \E s \in Sessions : SessionStep(s)
    \/ \E r \in Requests : RequestStep(r)
    \/ Terminated

Spec == Init /\ [][Next]_vars

\* A goroutine that can run does run, a public client sends its body, and the
\* cleanup of a session is carried through.  Nothing is assumed of the agent, of
\* the moment a session ends, or of the timeout.
Fairness ==
    /\ \A r \in Requests :
          /\ WF_vars(RegisterRequest(r)) /\ WF_vars(LookupSession(r))
          /\ WF_vars(Enqueue(r)) /\ WF_vars(ReadBody(r))
          /\ WF_vars(ReceiveResponse(r)) /\ WF_vars(CancelRequest(r))
    /\ \A s \in Sessions :
          WF_vars(SendOpened(s)) /\ WF_vars(SendResponse(s)) /\ WF_vars(CloseSession(s))

FairSpec == Spec /\ Fairness

--------------------------------------------------------------------------------
(* Properties *)

\* A response some goroutine has taken out of pending and is about to send to r.
Underway(r) == \E s \in Sessions : \E m \in unsent[s] : m.req = r

\* A handler that waits for its response is never forgotten: as long as its
\* session lives it is in pending, and once Remove has run its channel holds a
\* message or one is about to be sent.  RegisterRequest does not check that the
\* session exists, so this rests on its coming before sendContext's lookup.
NoOrphanedWaiter ==
    \A r \in Requests :
        pc[r] = "waiting" =>
            \/ pending[r] = target[r] /\ target[r] \in sessions
            \/ response[r] # "empty"
            \/ Underway(r)

\* The sends of DeliverResponse and Remove, made after the unlock, never block a
\* session's goroutine: the channel of capacity 1 is empty and no other goroutine
\* holds a response for the same request.
SendersNeverBlock ==
    \A s \in Sessions : \A m \in unsent[s] :
        /\ response[m.req] = "empty"
        /\ \A s2 \in Sessions : \A m2 \in unsent[s2] :
              m2.req = m.req => s2 = s /\ m2 = m

\* The pending map holds no entry of a request that ServeHTTP has returned from,
\* on any of its return paths, and every entry names the session of its request.
PendingHasHandler ==
    \A r \in Requests :
        pending[r] # None => pc[r] \in Registered \cup {"returning"} /\ pending[r] = target[r]

\* The frames that concurrent handlers queue never make the agent's read loop
\* close the session: each request arrives as start, chunks in sequence and end,
\* or is cut off by one cancel.  protocol/messages.md:36-38 says the same of the
\* limit on streams: its overflow is reported to the request path.
NoRejectedStream == \A r \in Requests : stream[r] # "rejected"

\* "Closing an agent session removes every route owned by that session":  when
\* the goroutine of a session has finished its cleanup no route leads to it, and
\* none leads to a session that has not been registered.
RoutesHaveOwners ==
    \A d \in Subdomains, s \in Sessions :
        bySubdomain[d] = s => phase[s] \in {"opening", "serving", "leaving", "removed"}

\* The two counters of MetricsSnapshot account for the sessions in the map.
SessionsCounted == connectionsTotal - disconnectionsTotal = Cardinality(sessions)

\* The sessions map holds the sessions whose goroutine is between Register and
\* Remove.
SessionsServed ==
    \A s \in Sessions : s \in sessions <=> phase[s] \in {"registered", "opening", "serving", "leaving"}

\* Where the one response of a request can be: nowhere before RegisterRequest;
\* then to come, the entry being in pending; or in the hands of one goroutine; or
\* on the channel; and nowhere else.
OneResponse ==
    /\ SendersNeverBlock
    /\ \A s \in Sessions : \A m \in unsent[s] :
          /\ phase[s] \in {"serving", "removed"}
          /\ pc[m.req] \notin {"new", "routed"} /\ pending[m.req] = None
    /\ \A r \in Requests :
          /\ pending[r] # None => response[r] = "empty"
          /\ response[r] # "empty" => pc[r] \notin {"new", "routed"}
          /\ pc[r] \in Registered => pending[r] # None \/ response[r] # "empty" \/ Underway(r)

\* An entry of pending whose session was removed before it was made is found out
\* by the first lookup of sendContext.
StaleEntries ==
    \A r \in Requests :
        /\ pc[r] \in {"new", "routed"} => frame[r] = "start"
        /\ pc[r] \in Registered \cup {"routed", "returning"} => target[r] \in Sessions
        /\ pending[r] # None /\ pending[r] \notin sessions =>
              pc[r] = "returning" \/ (pc[r] = "lookup" /\ frame[r] = "start")

\* The accounting of responses between the handlers, the SessionManager and the
\* sessions, strong enough to be kept by every step.
DeliveryInvariant ==
    SessionsServed /\ OneResponse /\ PendingHasHandler /\ StaleEntries /\ RoutesHaveOwners

Contract == INSTANCE RequestContract
                WITH reply <- status,
                     executed <- {r \in Requests : stream[r] \in {"whole", "answered"}}

\* ServeHTTP and the session goroutines together keep the contract with the
\* public clients.
ImplementsContract == Contract!Spec

\* A handler waiting for the response of a session that has been removed returns,
\* without the help of the timeout.
DisconnectReleasesWaiters ==
    \A r \in Requests :
        (pc[r] = "waiting" /\ target[r] \notin sessions) ~> (pc[r] = "done")

--------------------------------------------------------------------------------
(* What documents, comments or tests say and the code does not keep: TLC finds a   *)
(* counterexample to each of these under the constants that README.md names        *)

\* README.md:167-169: pending requests are bound to their session and are
\* released with 502 as soon as it closes.  Stated for every request in the
\* pending map, also one that is still sending its body.
DisconnectReleasesAll ==
    \A r \in Requests :
        (pc[r] \in Registered /\ target[r] \notin sessions) ~> (pc[r] = "done")

\* protocol/messages.md:21-22: the agent is told when the client disconnects or
\* the deadline expires.  A stream the agent holds for a request that ServeHTTP
\* has returned from has a cancel_request on its way.
CancelNotLost ==
    \A r \in Requests :
        (pc[r] = "done" /\ target[r] \in sessions /\ stream[r] = "open") =>
            LET way == wire[target[r]] \o outbound[target[r]]
            IN  \E i \in DOMAIN way : way[i].type = "cancel" /\ way[i].req = r

\* server/metrics.go:116: the counter of RecordTraffic counts the successfully
\* completed public requests.
CompletedAreCounted ==
    requestsTotal = Cardinality({r \in Requests : status[r] = "200"})
================================================================================
