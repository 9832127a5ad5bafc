------------------------------- MODULE TunnelFlow -------------------------------
(***************************************************************************)
(* One WebSocket session seen from both ends: the loop of serveSession in  *)
(* the gateway, and the agent's Connect with its reader, its workers and   *)
(* its writer.  Every queue between them is bounded and every sender       *)
(* waits, so a slow consumer slows the others down; the gateway assembles  *)
(* the responses that the agent's workers send interleaved.                *)
(*                                                                         *)
(* The two directions of the connection are FIFO.  down is what the socket *)
(* buffers hold of the gateway's messages; up stands for the agent's       *)
(* outbound queue, its writer, the socket and the gateway's readCh, which  *)
(* only pass messages on.  Request bodies are in PublicProxy.              *)
(***************************************************************************)
EXTENDS Integers, Sequences, FiniteSets, Functions

CONSTANTS
    Requests,        \* public requests routed to the session
    QueueCapacity,   \* sessionOutboundQueueCapacity (32)
    DownCapacity,    \* messages the socket buffers hold towards the agent
    UpCapacity,      \* messages all the buffers hold towards the gateway
    MaxConcurrent,   \* the agent's workers, and its queue of jobs (at most 64)
    MaxStreams,      \* maxPendingRequestStreams of the agent (32)
    MaxResponses,    \* maxPendingResponseStreams of the gateway (32)
    BodyLimit,       \* maxTunnelResponseBodyBytes, in chunks
    MaxChunks,       \* bound of the model: chunks of a local response
    MaxPings,        \* bound of the model: ticks of the heartbeat
    None             \* no message, no request

ASSUME CapacityAssumption ==
    /\ {QueueCapacity, DownCapacity, UpCapacity} \subseteq Nat \ {0}
    /\ {MaxConcurrent, MaxStreams, MaxResponses} \subseteq Nat \ {0}
    /\ {BodyLimit, MaxChunks, MaxPings} \subseteq Nat

VARIABLES
    \* the gateway
    handler,     \* where ServeHTTP is with each request; "ok" and "error" are answers
    got,         \* chunks in the body that ServeHTTP was given
    out,         \* Session.Outbound
    writing,     \* the message the loop of serveSession is writing, or None
    responses,   \* the responses map: "none", or the kind of http_response_start
    next,        \* responseAssembly.next, also the length of its body
    pings,       \* ticks that were taken
    \* the connection
    session,     \* "up", "closed" by the network, "rejected" by a protocol check
    down, up,
    \* the agent
    reader,      \* the message its reader is waiting to pass on, or None
    streams,     \* pendingRequests
    jobs,        \* the channel of jobs
    job,         \* how far the job of each request is
    size,        \* chunks in the local service's response
    sent         \* sequence of the job

gatewayVars == <<handler, got, out, writing, responses, next, pings>>
agentVars == <<reader, streams, jobs, job, size, sent>>
vars == <<gatewayVars, session, down, up, agentVars>>

Handlers == {"new", "started", "waiting", "ok", "error", "gone"}
Jobs == {"none", "queued", "local", "body", "ending", "done"}
Message(types) == [type : types, req : Requests \cup {None}, seq : Nat]
DownTypes == {"start", "end", "cancel", "ping"}
UpTypes == {"ok", "error", "chunk", "end", "pong"}   \* "ok", "error": http_response_start

ASSUME NoneAssumption == None \notin Requests \cup Message(DownTypes)

Init ==
    /\ handler = [r \in Requests |-> "new"] /\ got = [r \in Requests |-> 0]
    /\ out = <<>> /\ writing = None /\ pings = 0
    /\ responses = [r \in Requests |-> "none"] /\ next = [r \in Requests |-> 0]
    /\ session = "up" /\ down = <<>> /\ up = <<>>
    /\ reader = None /\ streams = {} /\ jobs = <<>>
    /\ job = [r \in Requests |-> "none"]
    /\ size = [r \in Requests |-> 0] /\ sent = [r \in Requests |-> 0]

Msg(type, r) == [type |-> type, req |-> r, seq |-> 0]

--------------------------------------------------------------------------------
(* ServeHTTP, as far as the flow depends on it *)

\* SendContext waits for room; a request without a body is a start and an end.
Queue(r, from, type, to) ==
    /\ session = "up" /\ handler[r] = from
    /\ Len(out) < QueueCapacity
    /\ out' = Append(out, Msg(type, r))
    /\ handler' = [handler EXCEPT ![r] = to]
    /\ UNCHANGED <<got, writing, responses, next, pings, session, down, up, agentVars>>

QueueStart(r) == Queue(r, "new", "start", "started")

QueueEnd(r) == Queue(r, "started", "end", "waiting")

\* The client leaves or the timeout passes; sendCancel does not wait for room.
GiveUp(r) ==
    /\ session = "up" /\ handler[r] \in {"started", "waiting"}
    /\ handler' = [handler EXCEPT ![r] = "gone"]
    /\ out' = IF Len(out) < QueueCapacity THEN Append(out, Msg("cancel", r)) ELSE out
    /\ UNCHANGED <<got, writing, responses, next, pings, session, down, up, agentVars>>

--------------------------------------------------------------------------------
(* The loop of serveSession: between two writes it selects a tick, a queued     *)
(* message or a message from the agent                                          *)

Selecting == session = "up" /\ writing = None

\* A fault: the heartbeat of the gateway is a pong.
TickPong ==
    /\ Selecting /\ pings < MaxPings
    /\ pings' = pings + 1
    /\ writing' = Msg("pong", None)
    /\ UNCHANGED <<handler, got, out, responses, next, session, down, up, agentVars>>

Tick ==
    /\ Selecting /\ pings < MaxPings
    /\ pings' = pings + 1
    /\ writing' = Msg("ping", None)
    /\ UNCHANGED <<handler, got, out, responses, next, session, down, up, agentVars>>

TakeOutbound ==
    /\ Selecting /\ out # <<>>
    /\ writing' = Head(out)
    /\ out' = Tail(out)
    /\ UNCHANGED <<handler, got, responses, next, pings, session, down, up, agentVars>>

\* A fault: a write that would wait is given up and its message dropped.
WriteDropping ==
    /\ session = "up" /\ writing # None
    /\ down' = IF Len(down) < DownCapacity THEN Append(down, writing) ELSE down
    /\ writing' = None
    /\ UNCHANGED <<handler, got, out, responses, next, pings, session, up, agentVars>>

\* conn.Write returns when the socket takes the message; it has no deadline.
Write ==
    /\ session = "up" /\ writing # None
    /\ Len(down) < DownCapacity
    /\ down' = Append(down, writing)
    /\ writing' = None
    /\ UNCHANGED <<handler, got, out, responses, next, pings, session, up, agentVars>>

\* The responses that are being assembled.
Assembling == {r \in Requests : responses[r] # "none"}

\* What the loop receives in m, and the checks that it closes the session for.
ValidStart(m) ==
    m.req \in Assembling \/ Cardinality(Assembling) < MaxResponses

ValidChunk(m) ==
    /\ responses[m.req] = "ok"    \* an error announces a length of 0
    /\ m.seq = next[m.req]
    /\ next[m.req] < BodyLimit

ValidEnd(m) == m.req \in Assembling

Valid(m) ==
    CASE m.type \in {"ok", "error"} -> ValidStart(m)
      [] m.type = "chunk" -> ValidChunk(m)
      [] m.type = "end" -> ValidEnd(m)
      [] m.type = "pong" -> TRUE

Assemble(m) ==
    /\ responses' = [responses EXCEPT ![m.req] = m.type]
    /\ next' = [next EXCEPT ![m.req] = 0]
    /\ UNCHANGED <<handler, got>>

AddChunk(m) ==
    /\ next' = [next EXCEPT ![m.req] = @ + 1]
    /\ UNCHANGED <<responses, handler, got>>

\* A fault: the answer goes to a handler that is waiting, whichever it is.
DeliverAny(m) ==
    /\ responses' = [responses EXCEPT ![m.req] = "none"]
    /\ \E r \in Requests :
          /\ handler[r] = "waiting"
          /\ handler' = [handler EXCEPT ![r] = responses[m.req]]
          /\ got' = [got EXCEPT ![r] = next[m.req]]
    /\ next' = next

\* DeliverResponse: nobody is told if the handler has returned.
Deliver(m) ==
    /\ responses' = [responses EXCEPT ![m.req] = "none"]
    /\ IF handler[m.req] = "waiting"
       THEN /\ handler' = [handler EXCEPT ![m.req] = responses[m.req]]
            /\ got' = [got EXCEPT ![m.req] = next[m.req]]
       ELSE UNCHANGED <<handler, got>>
    /\ next' = next

Receive ==
    /\ Selecting /\ up # <<>>
    /\ up' = Tail(up)
    /\ LET m == Head(up)
       IN  /\ session' = IF Valid(m) THEN "up" ELSE "rejected"
           /\ CASE ~Valid(m) \/ m.type = "pong" -> UNCHANGED <<handler, got, responses, next>>
                [] Valid(m) /\ m.type \in {"ok", "error"} -> Assemble(m)
                [] Valid(m) /\ m.type = "chunk" -> AddChunk(m)
                [] Valid(m) /\ m.type = "end" -> Deliver(m)
    /\ UNCHANGED <<out, writing, pings, down, agentVars>>

--------------------------------------------------------------------------------
(* The agent's reader *)

Accepts(m) ==
    CASE m.type = "start" -> m.req \notin streams /\ Cardinality(streams) < MaxStreams
      [] m.type = "end" -> m.req \in streams
      [] OTHER -> TRUE

\* A request that is complete, and a ping, are passed on before the next message
\* is read.  A cancel drops a stream; that it also ends the local request early is
\* in BodyFails and LocalFails, which need no reason.
Read ==
    /\ session = "up" /\ reader = None /\ down # <<>>
    /\ down' = Tail(down)
    /\ LET m == Head(down)
       IN  /\ session' = IF Accepts(m) THEN "up" ELSE "rejected"
           /\ streams' = IF m.type = "start" /\ Accepts(m) THEN streams \cup {m.req}
                                                           ELSE streams \ {m.req}
           /\ reader' = IF m.type \in {"end", "ping"} /\ Accepts(m) THEN m ELSE None
    /\ UNCHANGED <<gatewayVars, up, jobs, job, size, sent>>

\* send: it waits for room in the outbound queue.
Send(type, r, seq) ==
    /\ session = "up"
    /\ Len(up) < UpCapacity
    /\ up' = Append(up, [type |-> type, req |-> r, seq |-> seq])

SendPong ==
    /\ reader # None /\ reader.type = "ping"
    /\ Send("pong", None, 0)
    /\ reader' = None
    /\ UNCHANGED <<gatewayVars, session, down, streams, jobs, job, size, sent>>

\* A fault: a job that finds the queue full is dropped.
DispatchDropping ==
    /\ session = "up"
    /\ reader # None /\ reader.type = "end"
    /\ reader' = None
    /\ IF Len(jobs) < MaxConcurrent
       THEN jobs' = Append(jobs, reader.req) /\ job' = [job EXCEPT ![reader.req] = "queued"]
       ELSE UNCHANGED <<jobs, job>>
    /\ UNCHANGED <<gatewayVars, session, down, up, streams, size, sent>>

\* jobs <- job
Dispatch ==
    /\ session = "up"
    /\ reader # None /\ reader.type = "end"
    /\ Len(jobs) < MaxConcurrent
    /\ jobs' = Append(jobs, reader.req)
    /\ job' = [job EXCEPT ![reader.req] = "queued"]
    /\ reader' = None
    /\ UNCHANGED <<gatewayVars, session, down, up, streams, size, sent>>

--------------------------------------------------------------------------------
(* The agent's workers *)

Running == {r \in Requests : job[r] \in {"local", "body", "ending"}}

\* A fault: a worker is started for every job.
StartUnbounded ==
    /\ session = "up" /\ jobs # <<>>
    /\ job' = [job EXCEPT ![Head(jobs)] = "local"]
    /\ jobs' = Tail(jobs)
    /\ UNCHANGED <<gatewayVars, session, down, up, reader, streams, size, sent>>

StartJob ==
    /\ session = "up" /\ jobs # <<>>
    /\ Cardinality(Running) < MaxConcurrent
    /\ job' = [job EXCEPT ![Head(jobs)] = "local"]
    /\ jobs' = Tail(jobs)
    /\ UNCHANGED <<gatewayVars, session, down, up, reader, streams, size, sent>>

\* The local service answers, with a body of any size: sendStart.
LocalAnswers(r) ==
    /\ job[r] = "local"
    /\ Send("ok", r, 0)
    /\ job' = [job EXCEPT ![r] = "body"]
    /\ \E n \in 0..MaxChunks : size' = [size EXCEPT ![r] = n]
    /\ UNCHANGED <<gatewayVars, session, down, reader, streams, jobs, sent>>

\* The local service cannot be reached, or the request is cancelled.
LocalFails(r) ==
    /\ job[r] = "local"
    /\ Send("error", r, 0)
    /\ job' = [job EXCEPT ![r] = "ending"]
    /\ UNCHANGED <<gatewayVars, session, down, reader, streams, jobs, size, sent>>

SendChunk(r) ==
    /\ job[r] = "body" /\ sent[r] < size[r]
    /\ Send("chunk", r, sent[r])
    /\ sent' = [sent EXCEPT ![r] = @ + 1]
    /\ UNCHANGED <<gatewayVars, session, down, reader, streams, jobs, job, size>>

\* The body ends early: the service breaks off or the request is cancelled.  The
\* response has begun, so StreamLocal's error is told to nobody.
BodyFails(r) ==
    /\ session = "up"
    /\ job[r] = "body" /\ sent[r] < size[r]
    /\ job' = [job EXCEPT ![r] = "ending"]
    /\ UNCHANGED <<gatewayVars, session, down, up, reader, streams, jobs, size, sent>>

SendEnd(r) ==
    /\ job[r] = "ending" \/ (job[r] = "body" /\ sent[r] = size[r])
    /\ Send("end", r, 0)
    /\ job' = [job EXCEPT ![r] = "done"]
    /\ UNCHANGED <<gatewayVars, session, down, reader, streams, jobs, size, sent>>

--------------------------------------------------------------------------------

\* The connection breaks; both ends stop.  What the handlers then see is in
\* PublicProxy.
Close ==
    /\ session = "up"
    /\ session' = "closed"
    /\ UNCHANGED <<gatewayVars, down, up, agentVars>>

Terminated == session # "up" /\ UNCHANGED vars

HandlerStep(r) == QueueStart(r) \/ QueueEnd(r) \/ GiveUp(r)

GatewayStep == Tick \/ TakeOutbound \/ Write \/ Receive

JobStep(r) ==
    LocalAnswers(r) \/ LocalFails(r) \/ SendChunk(r) \/ BodyFails(r) \/ SendEnd(r)

AgentStep == Read \/ SendPong \/ Dispatch \/ StartJob \/ \E r \in Requests : JobStep(r)

Next ==
    \/ \E r \in Requests : HandlerStep(r)
    \/ GatewayStep \/ AgentStep \/ Close \/ Terminated

Spec == Init /\ [][Next]_vars

\* Every goroutine runs when it can.  The select of serveSession chooses at random
\* among its ready cases, and a channel serves the goroutines that wait for it in
\* turn, so a case that is ready again and again is taken: strong fairness.
\* The local service answers or fails.  Nothing is assumed of ticks, of the
\* timeout, of clients or of the network.
Fairness ==
    /\ SF_vars(TakeOutbound) /\ SF_vars(Receive) /\ WF_vars(Write)
    /\ WF_vars(Read) /\ SF_vars(SendPong) /\ WF_vars(Dispatch) /\ WF_vars(StartJob)
    /\ \A r \in Requests : SF_vars(QueueEnd(r)) /\ SF_vars(JobStep(r))

FairSpec == Spec /\ Fairness

--------------------------------------------------------------------------------
(* Properties *)

TypeOK ==
    /\ handler \in [Requests -> Handlers] /\ got \in [Requests -> Nat]
    /\ out \in Seq(Message(DownTypes)) /\ writing \in Message(DownTypes) \cup {None}
    /\ responses \in [Requests -> {"none", "ok", "error"}] /\ next \in [Requests -> Nat]
    /\ pings \in Nat
    /\ session \in {"up", "closed", "rejected"}
    /\ down \in Seq(Message(DownTypes)) /\ up \in Seq(Message(UpTypes))
    /\ reader \in Message({"end", "ping"}) \cup {None} /\ streams \in SUBSET Requests
    /\ jobs \in Seq(Requests) /\ job \in [Requests -> Jobs]
    /\ size \in [Requests -> Nat] /\ sent \in [Requests -> Nat]

\* Gateway and agent never take each other for a peer that violates the protocol:
\* whatever workers, cancels, pings and full queues do, no check of serveSession or
\* of Connect closes the session.  It needs MaxConcurrent <= MaxResponses and
\* bodies within BodyLimit.
NoProtocolError == session # "rejected"

\* A request somewhere between its handler's last send and its response's end.
InTransit(r) ==
    \/ Msg("end", r) \in Range(out \o down) \cup {writing, reader}
    \/ job[r] \in {"queued", "local", "body", "ending"}
    \/ Msg("end", r) \in Range(up)

\* No request is lost on its way: while the session lives, a handler that waits has
\* its request in one of the queues or at a worker, or its response on the way back.
NotLost == session = "up" => \A r \in Requests : handler[r] = "waiting" => InTransit(r)

\* "Responses may arrive in a different order without being delivered to the wrong
\* public request" (protocol/messages.md:16-17): an answer is of the request's own
\* job, and its body is what that job sent.
OwnAnswer ==
    \A r \in Requests : handler[r] \in {"ok", "error"} => job[r] = "done" /\ got[r] = sent[r]

\* Some goroutine of the gateway's loop or of the agent is not waiting for another:
\* the guards of GatewayStep without Tick, and of AgentStep without BodyFails, which
\* makes no room for anybody.
CanGoOn ==
    \/ writing = None /\ (out # <<>> \/ up # <<>>)
    \/ writing # None /\ Len(down) < DownCapacity
    \/ reader = None /\ down # <<>>
    \/ reader # None /\ reader.type = "ping" /\ Len(up) < UpCapacity
    \/ reader # None /\ reader.type = "end" /\ Len(jobs) < MaxConcurrent
    \/ jobs # <<>> /\ Cardinality(Running) < MaxConcurrent
    \/ Running # {} /\ Len(up) < UpCapacity

\* The circle in which all wait: the loop writes to a socket that is full, the agent's
\* reader holds a message it cannot pass on, and all that could make room for it waits
\* for the loop to read.
Wedged ==
    /\ writing # None /\ Len(down) >= DownCapacity
    /\ reader # None /\ Len(up) >= UpCapacity
    /\ reader.type = "end" => Len(jobs) >= MaxConcurrent /\ Cardinality(Running) >= MaxConcurrent

\* Loop, reader, workers and writer wait for each other only in that circle: with one
\* place free in it, a request that a handler waits for goes on.
OnlyWedged ==
    session = "up" /\ (\E r \in Requests : handler[r] = "waiting") => CanGoOn \/ Wedged

\* A handler that waits is answered, unless the client or the connection goes.
EveryRequestAnswered ==
    \A r \in Requests :
        handler[r] = "waiting" ~> (handler[r] # "waiting" \/ session # "up")

--------------------------------------------------------------------------------
(* What documents, comments or tests say and the code does not keep: TLC finds a   *)
(* counterexample to each of these under the constants that README.md names        *)

\* protocol/messages.md:31-32: the gateway validates the length of a response
\* before it completes the request.  A success carries the whole body.
WholeResponse == \A r \in Requests : handler[r] = "ok" => got[r] = size[r]

\* protocol/messages.md:42-44: a handler waits until the WebSocket writer drains
\* the queue.  A full queue does not stay full.
QueueDrains == (Len(out) = QueueCapacity) ~> (Len(out) < QueueCapacity \/ session # "up")
================================================================================
