---------------------------- MODULE TunnelFlowProofs ----------------------------
(***************************************************************************)
(* What TLAPS proves about TunnelFlow, for every number of requests,       *)
(* workers and chunks and every capacity of the queues.                    *)
(*                                                                         *)
(* FlowInvariant is the inductive invariant: where the messages of each    *)
(* request may be and in which order, in each direction, together with the *)
(* state of its handler, stream, job and assembly.  NotLost follows the    *)
(* last message of a request along that way; NoProtocolError also needs    *)
(* RoomForResponses, which counts the responses that will be assembled     *)
(* when the gateway comes to a message.  WaitsAreCircular says when both   *)
(* ends stand still, and WedgeLasts that they do until the session ends.   *)
(***************************************************************************)
EXTENDS TunnelFlow, FiniteSetTheorems, TLAPS

\* A chunk of the response to r.
Chunk(r, n) == [type |-> "chunk", req |-> r, seq |-> n]

DownMessage == {Msg(t, r) : t \in {"start", "end", "cancel"}, r \in Requests} \cup {Msg("ping", None)}
UpMessage == {Msg(t, r) : t \in {"ok", "error", "end"}, r \in Requests}
                \cup {Chunk(r, n) : r \in Requests, n \in Nat} \cup {Msg("pong", None)}

\* What the queues of the session really hold.
QueuesHold ==
    /\ out \in Seq(DownMessage) /\ down \in Seq(DownMessage) /\ up \in Seq(UpMessage)
    /\ writing \in DownMessage \cup {None}
    /\ reader \in {Msg("end", r) : r \in Requests} \cup {Msg("ping", None), None}

\* Of two messages of one request, m may come before n.
Before(m, n) ==
    m.req \in Requests /\ m.req = n.req =>
        \/ m.type \in {"start", "ok", "error"} /\ n.type \in {"chunk", "end", "cancel"}
        \/ m.type = "chunk" /\ n.type = "chunk" /\ m.seq < n.seq
        \/ m.type = "chunk" /\ n.type = "end"
        \/ m.type = "end" /\ n.type = "cancel"

Ordered(q) == \A i, j \in 1..Len(q) : i < j => Before(q[i], q[j])

\* The messages on their way to the agent are in the order in which they were queued.
DownOrdered ==
    /\ Ordered(down) /\ Ordered(out)
    /\ \A m \in Range(down), n \in Range(out) : Before(m, n)
    /\ writing # None => /\ \A m \in Range(down) : Before(m, writing)
                         /\ \A n \in Range(out) : Before(writing, n)

\* The messages that ServeHTTP has sent and the agent has not read.
Queued == Range(down) \cup Range(out) \cup ({writing} \ {None})

\* The way of request r to a worker.
RequestWay(r) ==
    /\ handler[r] = "new" => Msg("start", r) \notin Queued /\ r \notin streams
    /\ handler[r] \in {"new", "started"} =>
          Msg("end", r) \notin Queued /\ job[r] = "none" /\ reader # Msg("end", r)
    /\ handler[r] \in {"new", "started", "waiting"} => Msg("cancel", r) \notin Queued
    /\ handler[r] = "started" => Msg("start", r) \in Queued \/ r \in streams
    /\ Msg("start", r) \in Queued => r \notin streams
    /\ Msg("end", r) \in Queued => Msg("start", r) \in Queued \/ r \in streams
    /\ Msg("start", r) \in Queued \/ r \in streams => job[r] = "none" /\ reader # Msg("end", r)
    /\ reader = Msg("end", r) => job[r] = "none"

\* The channel holds every job that is queued, once.
JobsQueued ==
    /\ \A i \in 1..Len(jobs) : job[jobs[i]] = "queued"
    /\ \A i, j \in 1..Len(jobs) : jobs[i] = jobs[j] => i = j

\* The response to r has begun and the gateway has not had the whole of it.
Begins(r) == Msg("ok", r) \in Range(up) \/ Msg("error", r) \in Range(up)
Open(r) == Begins(r) \/ responses[r] # "none"
Expected(r) == IF responses[r] = "none" THEN 0 ELSE next[r]

\* The response to r is open until the gateway has received its end.
EndOnWay(r) ==
    /\ Open(r) <=> job[r] \in {"body", "ending"} \/ Msg("end", r) \in Range(up)
    /\ Msg("end", r) \in Range(up) => job[r] = "done"

\* On their way are the chunks from the one the gateway expects to the last that was sent.
ChunksOnWay(r) ==
    \A n \in Nat : Chunk(r, n) \in Range(up) <=> Open(r) /\ Expected(r) <= n /\ n < sent[r]

\* How much of the response to r the agent has sent.
SentSoFar(r) ==
    /\ Open(r) => Expected(r) <= sent[r]
    /\ Msg("error", r) \in Range(up) \/ responses[r] = "error" => sent[r] = 0 /\ job[r] # "body"
    /\ job[r] \in {"none", "queued", "local"} => sent[r] = 0
    /\ sent[r] <= size[r] /\ size[r] <= MaxChunks

\* The way of the response to r: its start, its chunks and its end.
ResponseWay(r) ==
    /\ Begins(r) => responses[r] = "none"
    /\ EndOnWay(r) /\ ChunksOnWay(r) /\ SentSoFar(r)

FlowInvariant ==
    /\ TypeOK /\ QueuesHold /\ OwnAnswer
    /\ session = "up" =>
          /\ DownOrdered /\ Ordered(up) /\ JobsQueued
          /\ \A r \in Requests : RequestWay(r) /\ ResponseWay(r)

\* The responses that will be assembled when the gateway receives the message at place i.
OpenAt(q, i) ==
    {r \in Requests :
        /\ responses[r] # "none" \/ \E j \in 1..(i - 1) : q[j] \in {Msg("ok", r), Msg("error", r)}
        /\ \A j \in 1..(i - 1) : q[j] # Msg("end", r)}

\* Every response begins while another worker is free of one.
RoomForResponses ==
    /\ Cardinality(Running) <= MaxConcurrent
    /\ \A i \in 1..Len(up) :
          up[i].type \in {"ok", "error"} => Cardinality(OpenAt(up, i)) < MaxConcurrent

--------------------------------------------------------------------------------
(* Messages, queues and their contents *)

LEMMA Fields ==
    /\ \A t, r : Msg(t, r).type = t /\ Msg(t, r).req = r /\ Msg(t, r).seq = 0
    /\ \A r, n : Chunk(r, n).type = "chunk" /\ Chunk(r, n).req = r /\ Chunk(r, n).seq = n
BY DEF Msg, Chunk

\* The messages to the agent.
LEMMA DownCases ==
    ASSUME NEW m \in DownMessage
    PROVE  /\ \/ /\ m.type \in {"start", "end", "cancel"} /\ m.req \in Requests
                 /\ m = Msg(m.type, m.req)
              \/ m = Msg("ping", None) /\ m.type = "ping" /\ m.req = None
           /\ m # None /\ m \in Message(DownTypes)
<1>1. \/ /\ m.type \in {"start", "end", "cancel"} /\ m.req \in Requests
         /\ m = Msg(m.type, m.req)
      \/ m = Msg("ping", None) /\ m.type = "ping" /\ m.req = None
  BY SMTT(60), Z3T(60), Fields DEF DownMessage
<1>2. m \in Message(DownTypes)
  BY SMTT(60), Z3T(60) DEF DownMessage, Message, DownTypes, Msg
<1> QED
  BY <1>1, <1>2, NoneAssumption

\* The messages to the gateway.
LEMMA UpCases ==
    ASSUME NEW m \in UpMessage
    PROVE  /\ \/ /\ m.type \in {"ok", "error", "end"} /\ m.req \in Requests
                 /\ m = Msg(m.type, m.req)
              \/ m.type = "chunk" /\ m.req \in Requests /\ m.seq \in Nat /\ m = Chunk(m.req, m.seq)
              \/ m = Msg("pong", None) /\ m.type = "pong" /\ m.req = None
           /\ m \in Message(UpTypes)
<1>1. \/ /\ m.type \in {"ok", "error", "end"} /\ m.req \in Requests
         /\ m = Msg(m.type, m.req)
      \/ m.type = "chunk" /\ m.req \in Requests /\ m.seq \in Nat /\ m = Chunk(m.req, m.seq)
      \/ m = Msg("pong", None) /\ m.type = "pong" /\ m.req = None
  BY SMTT(60), Z3T(60), Fields DEF UpMessage
<1>2. m \in Message(UpTypes)
  BY SMTT(60), Z3T(60) DEF UpMessage, Message, UpTypes, Msg, Chunk
<1> QED
  BY <1>1, <1>2

\* A message appended to a queue.
LEMMA AppendToQueue ==
    ASSUME NEW S, NEW q \in Seq(S), NEW m \in S
    PROVE  /\ Append(q, m) \in Seq(S) /\ Range(Append(q, m)) = Range(q) \cup {m}
           /\ (Ordered(q) /\ \A x \in Range(q) : Before(x, m)) => Ordered(Append(q, m))
<1> DEFINE a == Append(q, m)
<1>1. /\ a \in Seq(S) /\ Len(q) \in Nat /\ Len(a) = Len(q) + 1 /\ a[Len(q) + 1] = m
      /\ DOMAIN a = 1..(Len(q) + 1) /\ DOMAIN q = 1..Len(q)
      /\ \A i \in 1..Len(q) : a[i] = q[i]
  BY SMTT(60), Z3T(60)
<1> HIDE DEF a
<1>2. Range(a) = Range(q) \cup {m}
  BY SMTT(60), Z3T(60), <1>1 DEF Range
<1>3. ASSUME Ordered(q), \A x \in Range(q) : Before(x, m)
      PROVE  Ordered(a)
  <2> SUFFICES ASSUME NEW i \in 1..Len(a), NEW j \in 1..Len(a), i < j
               PROVE  Before(a[i], a[j])
    BY DEF Ordered
  <2>1. i \in 1..Len(q) /\ a[i] = q[i]
    BY SMTT(60), Z3T(60), <1>1
  <2>2. CASE j = Len(q) + 1
    <3>1. q[i] \in Range(q)
      BY <1>1, <2>1 DEF Range
    <3> QED
      BY <1>1, <1>3, <2>1, <2>2, <3>1
  <2>3. CASE j # Len(q) + 1
    <3>1. j \in 1..Len(q) /\ a[j] = q[j]
      BY SMTT(60), Z3T(60), <1>1, <2>3
    <3> QED
      BY <1>3, <2>1, <3>1 DEF Ordered
  <2> QED
    BY <2>2, <2>3
<1> QED
  BY <1>1, <1>2, <1>3 DEF a

\* The oldest message taken from a queue.
LEMMA TakeFromQueue ==
    ASSUME NEW S, NEW q \in Seq(S), q # <<>>
    PROVE  /\ Tail(q) \in Seq(S) /\ Head(q) \in S /\ Range(q) = Range(Tail(q)) \cup {Head(q)}
           /\ Ordered(q) => Ordered(Tail(q)) /\ \A x \in Range(Tail(q)) : Before(Head(q), x)
<1> DEFINE t == Tail(q)
           h == Head(q)
<1>1. /\ t \in Seq(S) /\ h \in S /\ h = q[1] /\ Len(q) \in Nat \ {0} /\ Len(t) = Len(q) - 1
      /\ DOMAIN t = 1..(Len(q) - 1) /\ DOMAIN q = 1..Len(q)
      /\ \A i \in 1..(Len(q) - 1) : t[i] = q[i + 1]
  BY SMTT(60), Z3T(60)
<1> HIDE DEF t, h
<1>2. \A i \in 1..Len(q) : i = 1 \/ (i - 1 \in 1..(Len(q) - 1) /\ q[i] = t[i - 1])
  BY SMTT(60), Z3T(60), <1>1
<1>3. Range(q) = Range(t) \cup {h}
  <2>1. ASSUME NEW x \in Range(q)
        PROVE  x \in Range(t) \cup {h}
    <3>1. PICK i \in 1..Len(q) : x = q[i]
      BY Zenon, <1>1, <2>1 DEF Range
    <3>2. CASE i = 1
      BY Zenon, <1>1, <3>1, <3>2
    <3>3. CASE i # 1
      <4>1. i - 1 \in 1..(Len(q) - 1) /\ x = t[i - 1]
        BY Zenon, <1>2, <3>1, <3>3
      <4> QED
        BY Zenon, <1>1, <4>1 DEF Range
    <3> QED
      BY Zenon, <3>2, <3>3
  <2>2. h \in Range(q)
    <3>1. 1 \in 1..Len(q)
      BY SMTT(60), Z3T(60), <1>1
    <3> QED
      BY Zenon, <1>1, <3>1 DEF Range
  <2>3. ASSUME NEW i \in 1..(Len(q) - 1)
        PROVE  t[i] \in Range(q)
    <3>1. i + 1 \in 1..Len(q)
      BY SMTT(60), Z3T(60), <1>1
    <3> QED
      BY Zenon, <1>1, <3>1 DEF Range
  <2>4. \A x \in Range(t) : x \in Range(q)
    BY Zenon, <1>1, <2>3 DEF Range
  <2> QED
    BY Zenon, <2>1, <2>2, <2>4
<1>4. ASSUME Ordered(q)
      PROVE  Ordered(t) /\ \A x \in Range(t) : Before(h, x)
  <2>1. Ordered(t)
    BY SMTT(60), Z3T(60), <1>1, <1>4 DEF Ordered
  <2>2. \A i \in 1..(Len(q) - 1) : Before(h, t[i])
    BY SMTT(60), Z3T(60), <1>1, <1>4 DEF Ordered
  <2> QED
    BY <1>1, <2>1, <2>2 DEF Range
<1> QED
  BY <1>1, <1>3, <1>4 DEF t, h

--------------------------------------------------------------------------------
(* Types *)

\* Every step keeps the types of the state and of the messages.
LEMMA FlowTypes ==
    ASSUME TypeOK, QueuesHold, [Next]_vars
    PROVE  TypeOK' /\ QueuesHold'
<1>0. \A m \in DownMessage : m # None /\ m \in Message(DownTypes)
  BY Zenon, DownCases
<1>1. CASE UNCHANGED vars
  BY ZenonT(60), <1>1 DEF vars, gatewayVars, agentVars, TypeOK, QueuesHold
<1>2. ASSUME NEW r \in Requests, NEW t \in {"start", "end", "cancel"},
             NEW h \in Handlers, handler' = [handler EXCEPT ![r] = h],
             out' = out \/ out' = Append(out, Msg(t, r)),
             UNCHANGED <<got, writing, responses, next, pings, session, down, up, agentVars>>
      PROVE  TypeOK' /\ QueuesHold'
  <2>1. Msg(t, r) \in DownMessage
    BY SMTT(60), Z3T(60) DEF DownMessage
  <2>2. out' \in Seq(DownMessage)
    <3>1. Append(out, Msg(t, r)) \in Seq(DownMessage) /\ out \in Seq(DownMessage)
      BY SMTT(60), Z3T(60), <2>1 DEF QueuesHold
    <3> QED
      BY Zenon, <1>2, <3>1
  <2>3. out' \in Seq(Message(DownTypes))
    <3>1. Append(out, Msg(t, r)) \in Seq(Message(DownTypes)) /\ out \in Seq(Message(DownTypes))
      BY SMTT(60), Z3T(60), <1>0, <2>1 DEF TypeOK
    <3> QED
      BY Zenon, <1>2, <3>1
  <2>4. handler' \in [Requests -> Handlers]
    BY <1>2 DEF TypeOK
  <2> QED
    BY Zenon, <1>2, <2>2, <2>3, <2>4 DEF TypeOK, QueuesHold, agentVars
<1>3. ASSUME NEW r \in Requests, HandlerStep(r)
      PROVE  TypeOK' /\ QueuesHold'
  BY Zenon, <1>2, <1>3 DEF HandlerStep, QueueStart, QueueEnd, Queue, GiveUp, Handlers
<1>4. CASE Tick
  <2>1. Msg("ping", None) \in DownMessage /\ pings' \in Nat
    BY SMTT(60), Z3T(60), <1>4 DEF DownMessage, Tick, TypeOK
  <2> QED
    BY Zenon, <1>0, <1>4, <2>1 DEF Tick, TypeOK, QueuesHold, agentVars
<1>5. CASE TakeOutbound
  <2>1. /\ Head(out) \in DownMessage /\ Tail(out) \in Seq(DownMessage)
        /\ Tail(out) \in Seq(Message(DownTypes))
    BY SMTT(60), Z3T(60), <1>5 DEF TakeOutbound, TypeOK, QueuesHold
  <2> QED
    BY Zenon, <1>0, <1>5, <2>1 DEF TakeOutbound, TypeOK, QueuesHold, agentVars
<1>6. CASE Write
  <2>1. /\ Append(down, writing) \in Seq(DownMessage)
        /\ Append(down, writing) \in Seq(Message(DownTypes))
    BY SMTT(60), Z3T(60), <1>0, <1>6 DEF Write, TypeOK, QueuesHold
  <2> QED
    BY Zenon, <1>6, <2>1 DEF Write, TypeOK, QueuesHold, agentVars
<1>7. CASE Receive
  <2> DEFINE m == Head(up)
  <2>1. m \in UpMessage /\ Tail(up) \in Seq(UpMessage) /\ Tail(up) \in Seq(Message(UpTypes))
    BY SMTT(60), Z3T(60), <1>7 DEF Receive, TypeOK, QueuesHold
  <2>2. /\ handler' \in [Requests -> Handlers] /\ got' \in [Requests -> Nat]
        /\ responses' \in [Requests -> {"none", "ok", "error"}] /\ next' \in [Requests -> Nat]
    <3>1. CASE ~Valid(m) \/ m.type = "pong"
      BY Zenon, <1>7, <3>1 DEF Receive, TypeOK
    <3>2. CASE Valid(m) /\ m.type \in {"ok", "error"}
      <4>1. Assemble(m)
        BY ZenonT(60), <1>7, <3>2 DEF Receive
      <4> HIDE DEF m
      <4> QED
        BY ZenonT(60), <3>2, <4>1 DEF TypeOK, Assemble
    <3>3. CASE Valid(m) /\ m.type = "chunk"
      <4>1. AddChunk(m)
        BY ZenonT(60), <1>7, <3>3 DEF Receive
      <4>2. m.req \in Requests
        BY <2>1, <3>3, UpCases
      <4> HIDE DEF m
      <4>3. handler' = handler /\ got' = got /\ responses' = responses
        BY Zenon, <4>1 DEF AddChunk
      <4>4. next' = [next EXCEPT ![m.req] = @ + 1] /\ next[m.req] + 1 \in Nat
        BY SMTT(60), Z3T(60), <4>1, <4>2 DEF TypeOK, AddChunk
      <4> QED
        BY Zenon, <4>3, <4>4 DEF TypeOK
    <3>4. CASE Valid(m) /\ m.type = "end"
      <4>1. Deliver(m)
        BY ZenonT(60), <1>7, <3>4 DEF Receive
      <4>2. m.req \in Requests /\ responses[m.req] \in {"ok", "error"}
        BY ZenonT(60), <3>4 DEF Valid, ValidEnd, Assembling, TypeOK
      <4> HIDE DEF m
      <4> QED
        BY ZenonT(60), <4>1, <4>2 DEF Deliver, TypeOK, Handlers
    <3> QED
      BY <2>1, <3>1, <3>2, <3>3, <3>4, UpCases
  <2>3. session' \in {"up", "closed", "rejected"}
    BY <1>7 DEF Receive
  <2> QED
    BY Zenon, <1>7, <2>1, <2>2, <2>3 DEF Receive, TypeOK, QueuesHold, agentVars
<1>8. CASE Read
  <2> DEFINE m == Head(down)
  <2>1. m \in DownMessage /\ Tail(down) \in Seq(DownMessage) /\ Tail(down) \in Seq(Message(DownTypes))
    BY SMTT(60), Z3T(60), <1>8 DEF Read, TypeOK, QueuesHold
  <2> HIDE DEF m
  <2>2. /\ session' \in {"up", "closed", "rejected"}
        /\ streams' = (IF m.type = "start" /\ Accepts(m) THEN streams \cup {m.req}
                       ELSE streams \ {m.req})
        /\ reader' = (IF m.type \in {"end", "ping"} /\ Accepts(m) THEN m ELSE None)
    BY <1>8 DEF Read, m
  <2>3. streams' \in SUBSET Requests
    BY SMTT(60), Z3T(60), <2>1, <2>2, DownCases DEF TypeOK
  <2>4. reader' \in {Msg("end", r) : r \in Requests} \cup {Msg("ping", None), None}
    BY SMTT(60), Z3T(60), <2>1, <2>2, DownCases
  <2>5. reader' \in Message({"end", "ping"}) \cup {None}
    BY SMTT(60), Z3T(60), <2>4 DEF Message, Msg
  <2> QED
    BY ZenonT(60), <1>8, <2>1, <2>2, <2>3, <2>4, <2>5 DEF Read, TypeOK, QueuesHold, gatewayVars, m
<1>9. ASSUME NEW t, NEW r, NEW n, Send(t, r, n), [type |-> t, req |-> r, seq |-> n] \in UpMessage
      PROVE  up' \in Seq(UpMessage) /\ up' \in Seq(Message(UpTypes))
  <2>1. [type |-> t, req |-> r, seq |-> n] \in Message(UpTypes)
    BY Zenon, <1>9, UpCases
  <2> QED
    BY SMTT(60), Z3T(60), <1>9, <2>1 DEF Send, TypeOK, QueuesHold
<1>10. CASE SendPong
  <2>1. [type |-> "pong", req |-> None, seq |-> 0] \in UpMessage
    BY SMTT(60), Z3T(60) DEF UpMessage, Msg
  <2> QED
    BY Zenon, <1>9, <1>10, <2>1 DEF SendPong, TypeOK, QueuesHold, gatewayVars
<1>11. CASE Dispatch
  <2>1. reader.req \in Requests
    BY SMTT(60), Z3T(60), <1>11, Fields DEF Dispatch, QueuesHold
  <2>2. jobs' \in Seq(Requests) /\ job' \in [Requests -> Jobs]
    BY SMTT(60), Z3T(60), <1>11, <2>1 DEF Dispatch, TypeOK, Jobs
  <2> QED
    BY Zenon, <1>11, <2>2 DEF Dispatch, TypeOK, QueuesHold, gatewayVars
<1>12. CASE StartJob
  <2>1. jobs' \in Seq(Requests) /\ job' \in [Requests -> Jobs]
    BY SMTT(60), Z3T(60), <1>12 DEF StartJob, TypeOK, Jobs
  <2> QED
    BY Zenon, <1>12, <2>1 DEF StartJob, TypeOK, QueuesHold, gatewayVars
<1>13. ASSUME NEW r \in Requests, JobStep(r)
       PROVE  TypeOK' /\ QueuesHold'
  <2>1. up' \in Seq(UpMessage) /\ up' \in Seq(Message(UpTypes))
    <3>1. \A t \in {"ok", "error", "end"} : [type |-> t, req |-> r, seq |-> 0] \in UpMessage
      BY SMTT(60), Z3T(60) DEF UpMessage, Msg
    <3>2. [type |-> "chunk", req |-> r, seq |-> sent[r]] \in UpMessage
      BY SMTT(60), Z3T(60) DEF UpMessage, Chunk, TypeOK
    <3>3. CASE BodyFails(r)
      BY Zenon, <3>3 DEF BodyFails, TypeOK, QueuesHold
    <3> QED
      BY <1>9, <1>13, <3>1, <3>2, <3>3 DEF JobStep, LocalAnswers, LocalFails, SendChunk, SendEnd
  <2>2. job' \in [Requests -> Jobs]
    BY ZenonT(60), <1>13
       DEF JobStep, LocalAnswers, LocalFails, SendChunk, BodyFails, SendEnd, TypeOK, Jobs
  <2>3. size' \in [Requests -> Nat] /\ sent' \in [Requests -> Nat]
    <3>1. CASE LocalAnswers(r)
      <4>1. PICK n \in 0..MaxChunks : size' = [size EXCEPT ![r] = n]
        BY ZenonT(60), <3>1 DEF LocalAnswers
      <4>2. n \in Nat /\ sent' = sent
        BY SMTT(60), Z3T(60), <3>1, CapacityAssumption DEF LocalAnswers
      <4> QED
        BY <4>1, <4>2 DEF TypeOK
    <3>2. CASE SendChunk(r)
      BY SMTT(60), Z3T(60), <3>2 DEF SendChunk, TypeOK
    <3>3. CASE LocalFails(r) \/ BodyFails(r) \/ SendEnd(r)
      BY Zenon, <3>3 DEF LocalFails, BodyFails, SendEnd, TypeOK
    <3> QED
      BY Zenon, <1>13, <3>1, <3>2, <3>3 DEF JobStep
  <2>4. UNCHANGED <<gatewayVars, session, down, reader, streams, jobs>>
    BY Zenon, <1>13 DEF JobStep, LocalAnswers, LocalFails, SendChunk, BodyFails, SendEnd
  <2> QED
    BY ZenonT(60), <2>1, <2>2, <2>3, <2>4 DEF TypeOK, QueuesHold, gatewayVars
<1>14. CASE Close
  BY Zenon, <1>14 DEF Close, TypeOK, QueuesHold, gatewayVars, agentVars
<1> QED
  BY <1>1, <1>3, <1>4, <1>5, <1>6, <1>7, <1>8, <1>10, <1>11, <1>12, <1>13, <1>14
  DEF Next, GatewayStep, AgentStep, Terminated

--------------------------------------------------------------------------------
(* The way of a request *)

\* The messages of request r that may be on their way to the agent.
LEMMA QueuedMessages ==
    ASSUME QueuesHold
    PROVE  /\ \A m \in Queued : m \in DownMessage
           /\ \A m \in Queued : \A r \in Requests :
                 m.req = r => m \in {Msg("start", r), Msg("end", r), Msg("cancel", r)}
<1>1. Range(down) \subseteq DownMessage /\ Range(out) \subseteq DownMessage
  BY SMTT(60), Z3T(60) DEF QueuesHold, Range
<1>2. \A m \in Queued : m \in DownMessage
  BY Zenon, <1>1 DEF Queued, QueuesHold
<1>3. ASSUME NEW m \in Queued, NEW r \in Requests, m.req = r
      PROVE  m \in {Msg("start", r), Msg("end", r), Msg("cancel", r)}
  BY SMTT(60), Z3T(60), <1>2, <1>3, DownCases, NoneAssumption
<1> QED
  BY Zenon, <1>2, <1>3

\* A message that may follow all the others is queued last.
LEMMA QueueLast ==
    ASSUME QueuesHold, DownOrdered, NEW m \in DownMessage, \A x \in Queued : Before(x, m),
           out' = Append(out, m), UNCHANGED <<down, writing>>
    PROVE  DownOrdered' /\ Queued' = Queued \cup {m}
<1>1. Range(out') = Range(out) \cup {m}
  BY SMTT(60), Z3T(60), AppendToQueue DEF QueuesHold
<1>2. Ordered(out')
  BY Zenon, AppendToQueue DEF QueuesHold, DownOrdered, Queued
<1>3. \A x \in Range(down) : Before(x, m)
  BY Zenon DEF Queued
<1>4. writing # None => Before(writing, m)
  BY Zenon DEF Queued
<1>5. DownOrdered'
  BY Zenon, <1>1, <1>2, <1>3, <1>4 DEF DownOrdered
<1> QED
  BY Zenon, <1>1, <1>5 DEF Queued

\* The loop of serveSession moves a message on; it keeps its place.
LEMMA MoveOn ==
    ASSUME QueuesHold, DownOrdered, TakeOutbound \/ Write
    PROVE  DownOrdered' /\ Queued' = Queued
<1>1. CASE TakeOutbound
  <2>1. /\ writing = None /\ out # <<>> /\ writing' = Head(out) /\ out' = Tail(out) /\ down' = down
    BY Zenon, <1>1 DEF TakeOutbound, Selecting
  <2>2. /\ Range(out) = Range(out') \cup {writing'} /\ writing' \in DownMessage
        /\ Ordered(out') /\ \A x \in Range(out') : Before(writing', x)
    BY Zenon, <2>1, TakeFromQueue DEF QueuesHold, DownOrdered
  <2>3. writing' # None
    BY Zenon, <2>2, DownCases
  <2>4. DownOrdered'
    BY Zenon, <2>1, <2>2 DEF DownOrdered
  <2>5. Queued' = Queued
    BY <2>1, <2>2, <2>3 DEF Queued
  <2> QED
    BY Zenon, <2>4, <2>5
<1>2. CASE Write
  <2>1. writing # None /\ writing' = None /\ down' = Append(down, writing) /\ out' = out
    BY Zenon, <1>2 DEF Write
  <2>2. writing \in DownMessage /\ down \in Seq(DownMessage)
    BY Zenon, <2>1 DEF QueuesHold
  <2>3. Range(down') = Range(down) \cup {writing}
    BY SMTT(60), Z3T(60), <2>1, <2>2, AppendToQueue
  <2>4. Ordered(down')
    BY Zenon, <2>1, <2>2, AppendToQueue DEF DownOrdered
  <2>5. DownOrdered'
    BY Zenon, <2>1, <2>3, <2>4 DEF DownOrdered
  <2>6. Queued' = Queued
    BY <2>1, <2>3 DEF Queued
  <2> QED
    BY Zenon, <2>5, <2>6
<1> QED
  BY Zenon, <1>1, <1>2

\* What the way of a request depends on.
LEMMA WayKept ==
    ASSUME NEW r, RequestWay(r), r \in streams' <=> r \in streams,
           (job'[r] = "none") <=> (job[r] = "none"),
           (reader' = Msg("end", r)) <=> (reader = Msg("end", r)),
           \A t \in {"start", "end"} : Msg(t, r) \in Queued' <=> Msg(t, r) \in Queued,
           \/ handler'[r] \in {"ok", "error", "gone"}
           \/ handler'[r] = handler[r] /\ (Msg("cancel", r) \in Queued' => Msg("cancel", r) \in Queued)
    PROVE  RequestWay(r)'
<1>1. /\ Msg("start", r) \in Queued' <=> Msg("start", r) \in Queued
      /\ Msg("end", r) \in Queued' <=> Msg("end", r) \in Queued
  BY Zenon
<1>2. CASE handler'[r] \in {"ok", "error", "gone"}
  <2>1. handler'[r] \notin {"new", "started", "waiting"} /\ handler'[r] \notin {"new", "started"}
    BY <1>2
  <2> QED
    BY Zenon, <1>1, <1>2, <2>1 DEF RequestWay
<1>3. CASE handler'[r] = handler[r] /\ (Msg("cancel", r) \in Queued' => Msg("cancel", r) \in Queued)
  BY Zenon, <1>1, <1>3 DEF RequestWay
<1> QED
  BY Zenon, <1>2, <1>3

\* The agent's reader takes the oldest message.
LEMMA ReadKeepsWays ==
    ASSUME TypeOK, QueuesHold, DownOrdered, \A r \in Requests : RequestWay(r), Read, session' = "up"
    PROVE  DownOrdered' /\ \A r \in Requests : RequestWay(r)'
<1> DEFINE m == Head(down)
<1>1. /\ down # <<>> /\ down' = Tail(down) /\ reader = None /\ Accepts(m)
      /\ UNCHANGED <<handler, out, writing, job>>
  BY Zenon DEF Read, gatewayVars
<1>2. /\ streams' = (IF m.type = "start" THEN streams \cup {m.req} ELSE streams \ {m.req})
      /\ reader' = (IF m.type \in {"end", "ping"} THEN m ELSE None)
  BY <1>1 DEF Read
<1>3. m \in DownMessage /\ Range(down) = Range(down') \cup {m}
  BY <1>1, TakeFromQueue DEF QueuesHold
<1>4. Ordered(down') /\ \A x \in Range(down') : Before(m, x)
  BY Zenon, <1>1, TakeFromQueue DEF QueuesHold, DownOrdered
<1> HIDE DEF m
<1>5. DownOrdered'
  BY Zenon, <1>1, <1>3, <1>4 DEF DownOrdered
<1>6. Queued = Queued' \cup {m} /\ \A x \in Queued' : Before(m, x)
  <2>1. Queued = Queued' \cup {m}
    BY <1>1, <1>3 DEF Queued
  <2>2. \A x \in Range(out) : Before(m, x)
    BY Zenon, <1>3 DEF DownOrdered
  <2>3. writing # None => Before(m, writing)
    BY Zenon, <1>3 DEF DownOrdered
  <2> QED
    BY Zenon, <1>1, <1>4, <2>1, <2>2, <2>3 DEF Queued
<1>7. \A r : Msg("end", r) # None \/ r \notin Requests
  BY SMTT(60), Z3T(60), DownCases DEF DownMessage
<1>8. ASSUME NEW r \in Requests, r # m.req
      PROVE  RequestWay(r)'
  <2>1. \A t \in {"start", "end", "cancel"} : Msg(t, r) # m
    BY SMTT(60), Z3T(60), <1>8, Fields
  <2>2. \A t \in {"start", "end", "cancel"} : Msg(t, r) \in Queued' <=> Msg(t, r) \in Queued
    BY Zenon, <1>6, <2>1
  <2>3. r \in streams' <=> r \in streams
    BY <1>2, <1>8
  <2>4. reader' # Msg("end", r) /\ reader # Msg("end", r)
    BY <1>1, <1>2, <1>7, <2>1
  <2> QED
    BY <1>1, <2>2, <2>3, <2>4, WayKept
<1>9. ASSUME NEW r \in Requests, r = m.req
      PROVE  RequestWay(r)'
  <2>1. RequestWay(r) /\ r # None
    BY <1>9, NoneAssumption
  <2>2. m \in {Msg("start", r), Msg("end", r), Msg("cancel", r)}
    BY Zenon, <1>6, <1>9, QueuedMessages
  <2>3. CASE m = Msg("start", r)
    <3>1. m.type = "start"
      BY <2>3, Fields
    <3>2. ~Before(m, m)
      BY <1>9, <3>1 DEF Before
    <3>3. Msg("start", r) \in Queued /\ Msg("start", r) \notin Queued'
      BY Zenon, <1>6, <2>3, <3>2
    <3>4. Msg("end", r) \in Queued' => Msg("end", r) \in Queued
      BY Zenon, <1>6
    <3>5. Msg("cancel", r) \in Queued' => Msg("cancel", r) \in Queued
      BY Zenon, <1>6
    <3>6. r \in streams' /\ reader' = None
      BY <1>2, <1>9, <3>1
    <3>7. handler[r] # "new" /\ job[r] = "none"
      BY Zenon, <2>1, <3>3 DEF RequestWay
    <3> QED
      BY ZenonT(60), <1>1, <1>7, <2>1, <3>3, <3>4, <3>5, <3>6, <3>7 DEF RequestWay
  <2>4. ASSUME m \in {Msg("end", r), Msg("cancel", r)}
        PROVE  Msg("start", r) \notin Queued' /\ Msg("end", r) \notin Queued' /\ r \notin streams'
    <3>1. m.type \in {"end", "cancel"}
      BY SMTT(60), Z3T(60), <2>4, Fields
    <3>2. ~Before(m, Msg("start", r)) /\ ~Before(m, Msg("end", r))
      BY SMTT(60), Z3T(60), <1>9, <3>1, Fields DEF Before
    <3>3. r \notin streams'
      BY <1>2, <1>9, <3>1
    <3> QED
      BY Zenon, <1>6, <3>2, <3>3
  <2>5. CASE m = Msg("end", r)
    <3>1. m.type = "end"
      BY Zenon, <2>5, Fields
    <3>2. r \in streams /\ reader' = m
      BY <1>1, <1>2, <1>9, <3>1 DEF Accepts
    <3>3. Msg("end", r) \in Queued /\ (Msg("cancel", r) \in Queued' => Msg("cancel", r) \in Queued)
      BY Zenon, <1>6, <2>5
    <3>4. job[r] = "none" /\ handler[r] \notin {"new", "started"}
      BY Zenon, <2>1, <3>2, <3>3 DEF RequestWay
    <3>5. handler[r] # "new" /\ handler[r] # "started"
      BY <3>4
    <3> QED
      BY Zenon, <1>1, <2>1, <2>4, <2>5, <3>3, <3>4, <3>5 DEF RequestWay
  <2>6. CASE m = Msg("cancel", r)
    <3>1. m.type = "cancel"
      BY Zenon, <2>6, Fields
    <3>2. reader' = None /\ Msg("cancel", r) \in Queued
      BY <1>2, <1>6, <2>6, <3>1
    <3>3. handler[r] \notin {"new", "started", "waiting"}
      BY Zenon, <2>1, <3>2 DEF RequestWay
    <3>4. handler[r] \notin {"new", "started"} /\ handler[r] # "new" /\ handler[r] # "started"
      BY <3>3
    <3> QED
      BY Zenon, <1>1, <1>7, <2>4, <2>6, <3>2, <3>3, <3>4 DEF RequestWay
  <2> QED
    BY <2>2, <2>3, <2>5, <2>6
<1> QED
  BY Zenon, <1>5, <1>8, <1>9

\* Every step keeps the messages to the agent in order and every request on its way.
LEMMA DownStep ==
    ASSUME TypeOK, QueuesHold, DownOrdered, JobsQueued, \A r \in Requests : RequestWay(r),
           [Next]_vars, session' = "up"
    PROVE  DownOrdered' /\ \A r \in Requests : RequestWay(r)'
<1>1. \A r : Msg("end", r) # None \/ r \notin Requests
  BY SMTT(60), Z3T(60), DownCases DEF DownMessage
<1>2. ASSUME UNCHANGED <<down, writing, out, streams>>,
             \A r \in Requests :
                 /\ (job'[r] = "none") <=> (job[r] = "none")
                 /\ (reader' = Msg("end", r)) <=> (reader = Msg("end", r))
                 /\ handler'[r] \in {"ok", "error", "gone"} \/ handler'[r] = handler[r]
      PROVE  DownOrdered' /\ \A r \in Requests : RequestWay(r)'
  <2>1. Queued' = Queued /\ DownOrdered'
    BY Zenon, <1>2 DEF Queued, DownOrdered
  <2> QED
    BY Zenon, <1>2, <2>1, WayKept
<1>3. CASE UNCHANGED vars
  BY Zenon, <1>2, <1>3 DEF vars, gatewayVars, agentVars
<1>4. ASSUME NEW r \in Requests, NEW t \in {"start", "end", "cancel"}, NEW h \in Handlers,
             out' = Append(out, Msg(t, r)), handler' = [handler EXCEPT ![r] = h],
             UNCHANGED <<writing, down, agentVars>>,
             \/ t = "start" /\ handler[r] = "new" /\ h = "started"
             \/ t = "end" /\ handler[r] = "started" /\ h = "waiting"
             \/ t = "cancel" /\ handler[r] \in {"started", "waiting"} /\ h = "gone"
      PROVE  DownOrdered' /\ \A q \in Requests : RequestWay(q)'
  <2>1. Msg(t, r) \in DownMessage /\ RequestWay(r)
    BY SMTT(60), Z3T(60) DEF DownMessage
  <2>2. ASSUME NEW x \in Queued
        PROVE  Before(x, Msg(t, r))
    <3>1. CASE x.req # r
      BY SMTT(60), Z3T(60), <3>1, Fields DEF Before
    <3>2. CASE x.req = r
      <4>1. x \in {Msg("start", r), Msg("end", r), Msg("cancel", r)}
        BY Zenon, <3>2, QueuedMessages
      <4>2. x.type \in {"start", "end", "cancel"} /\ x = Msg(x.type, r)
        BY SMTT(60), Z3T(60), <4>1, Fields
      <4>3. CASE t = "start"
        BY Zenon, <1>4, <2>1, <4>1, <4>3 DEF RequestWay
      <4>4. CASE t = "end"
        <5>1. x = Msg("start", r)
          BY <1>4, <2>1, <4>1, <4>4 DEF RequestWay
        <5> QED
          BY SMTT(60), Z3T(60), <4>4, <5>1, Fields DEF Before
      <4>5. CASE t = "cancel"
        <5>1. x \in {Msg("start", r), Msg("end", r)}
          BY <1>4, <2>1, <4>1, <4>5 DEF RequestWay
        <5> QED
          BY SMTT(60), Z3T(60), <4>5, <5>1, Fields DEF Before
      <4> QED
        BY Zenon, <4>3, <4>4, <4>5
    <3> QED
      BY Zenon, <3>1, <3>2
  <2>3. DownOrdered' /\ Queued' = Queued \cup {Msg(t, r)}
    BY <1>4, <2>1, <2>2, QueueLast
  <2>4. ASSUME NEW q \in Requests, q # r
        PROVE  RequestWay(q)'
    <3>1. \A u : Msg(u, q) # Msg(t, r)
      BY SMTT(60), Z3T(60), <2>4, Fields
    <3>2. \A u : Msg(u, q) \in Queued' <=> Msg(u, q) \in Queued
      BY Zenon, <2>3, <3>1
    <3>3. handler'[q] = handler[q]
      BY Zenon, <1>4, <2>4 DEF TypeOK
    <3> QED
      BY Zenon, <1>4, <3>2, <3>3, WayKept DEF agentVars
  <2>5. RequestWay(r)'
    <3>1. handler'[r] = h
      BY Zenon, <1>4 DEF TypeOK
    <3>2. \A u : Msg(u, r) \in Queued' <=> Msg(u, r) \in Queued \/ u = t
      BY SMTT(60), Z3T(60), <2>3, Fields
    <3>3. UNCHANGED <<streams, job, reader>>
      BY ZenonT(60), <1>4 DEF agentVars
    <3>4. CASE t = "start"
      BY Zenon, <1>4, <2>1, <3>1, <3>2, <3>3, <3>4 DEF RequestWay
    <3>5. CASE t = "end"
      BY Zenon, <1>4, <2>1, <3>1, <3>2, <3>3, <3>5 DEF RequestWay
    <3>6. CASE t = "cancel"
      BY <1>4, <2>1, <3>1, <3>2, <3>3, <3>6 DEF RequestWay
    <3> QED
      BY Zenon, <3>4, <3>5, <3>6
  <2> QED
    BY Zenon, <2>3, <2>4, <2>5
<1>5. ASSUME NEW r \in Requests, HandlerStep(r)
      PROVE  DownOrdered' /\ \A q \in Requests : RequestWay(q)'
  <2>1. CASE QueueStart(r) \/ QueueEnd(r)
    BY Zenon, <1>4, <2>1 DEF QueueStart, QueueEnd, Queue, Handlers
  <2>2. CASE GiveUp(r) /\ out' # out
    BY Zenon, <1>4, <2>2 DEF GiveUp, Handlers
  <2>3. CASE GiveUp(r) /\ out' = out
    <3>1. /\ handler' = [handler EXCEPT ![r] = "gone"]
          /\ UNCHANGED <<down, writing, streams, job, reader>>
      BY Zenon, <2>3 DEF GiveUp, agentVars
    <3>2. \A q \in Requests : handler'[q] \in {"ok", "error", "gone"} \/ handler'[q] = handler[q]
      BY <3>1 DEF TypeOK
    <3> QED
      BY Zenon, <1>2, <2>3, <3>1, <3>2
  <2> QED
    BY ZenonT(60), <1>5, <2>1, <2>2, <2>3 DEF HandlerStep
<1>6. CASE Tick
  <2> DEFINE p == Msg("ping", None)
  <2>1. /\ writing = None /\ writing' = p /\ UNCHANGED <<handler, out, down, streams, job, reader>>
    BY Zenon, <1>6 DEF Tick, Selecting, agentVars
  <2>2. p \in DownMessage /\ p # None /\ p.req \notin Requests
    BY SMTT(60), Z3T(60), DownCases, NoneAssumption, Fields DEF DownMessage
  <2>3. \A r \in Requests : \A t : Msg(t, r) # p
    BY SMTT(60), Z3T(60), <2>2, Fields
  <2> HIDE DEF p
  <2>4. Queued' = Queued \cup {p}
    BY <2>1, <2>2 DEF Queued
  <2>5. \A m : Before(m, p) /\ Before(p, m)
    BY Zenon, <2>2 DEF Before
  <2>6. DownOrdered'
    BY Zenon, <2>1, <2>5 DEF DownOrdered
  <2>7. \A r \in Requests : \A t : Msg(t, r) \in Queued' <=> Msg(t, r) \in Queued
    BY Zenon, <2>3, <2>4
  <2> QED
    BY ZenonT(60), <2>1, <2>6, <2>7, WayKept
<1>7. CASE TakeOutbound \/ Write
  <2>1. DownOrdered' /\ Queued' = Queued
    BY Zenon, <1>7, MoveOn
  <2>2. UNCHANGED <<handler, streams, job, reader>>
    BY Zenon, <1>7 DEF TakeOutbound, Write, agentVars
  <2> QED
    BY Zenon, <2>1, <2>2, WayKept
<1>8. CASE Receive
  <2>1. UNCHANGED <<down, writing, out, streams, job, reader>>
    BY Zenon, <1>8 DEF Receive, agentVars
  <2>2. ASSUME NEW r \in Requests
        PROVE  handler'[r] \in {"ok", "error", "gone"} \/ handler'[r] = handler[r]
    <3> DEFINE m == Head(up)
    <3>1. handler' = handler \/ (Valid(m) /\ m.type = "end" /\ Deliver(m))
      <4>1. m \in UpMessage
        BY SMTT(60), Z3T(60), <1>8 DEF Receive, QueuesHold
      <4> QED
        BY ZenonT(60), <1>8, <4>1, UpCases DEF Receive, Assemble, AddChunk
    <3>2. CASE Valid(m) /\ m.type = "end" /\ Deliver(m)
      <4>1. m.req \in Requests /\ responses[m.req] \in {"ok", "error"}
        BY ZenonT(60), <3>2 DEF Valid, ValidEnd, Assembling, TypeOK
      <4> HIDE DEF m
      <4> QED
        BY ZenonT(60), <3>2, <4>1 DEF Deliver, TypeOK
    <3> QED
      BY Zenon, <3>1, <3>2
  <2> QED
    BY Zenon, <1>2, <2>1, <2>2
<1>9. CASE Read
  BY ZenonT(60), <1>9, ReadKeepsWays
<1>10. CASE SendPong
  <2>1. reader' = None /\ reader.type = "ping" /\ UNCHANGED <<handler, down, writing, out, streams, job>>
    BY Zenon, <1>10 DEF SendPong, gatewayVars
  <2>2. \A r \in Requests : reader # Msg("end", r) /\ reader' # Msg("end", r)
    BY SMTT(60), Z3T(60), <1>1, <2>1, Fields
  <2> QED
    BY Zenon, <1>2, <2>1, <2>2
<1>11. CASE Dispatch
  <2>1. PICK r \in Requests : reader = Msg("end", r)
    BY SMTT(60), Z3T(60), <1>11, Fields DEF Dispatch, QueuesHold
  <2>2. /\ reader.req = r /\ reader' = None /\ job' = [job EXCEPT ![r] = "queued"]
        /\ UNCHANGED <<handler, down, writing, out, streams>>
    BY ZenonT(150), <1>11, <2>1, Fields DEF Dispatch, gatewayVars
  <2>3. Queued' = Queued /\ DownOrdered'
    BY Zenon, <2>2 DEF Queued, DownOrdered
  <2>4. ASSUME NEW q \in Requests, q # r
        PROVE  RequestWay(q)'
    <3>1. job'[q] = job[q] /\ reader # Msg("end", q) /\ reader' # Msg("end", q)
      BY SMTT(60), Z3T(60), <1>1, <2>1, <2>2, <2>4, Fields DEF TypeOK
    <3> QED
      BY Zenon, <2>2, <2>3, <3>1, WayKept
  <2>5. RequestWay(r)'
    <3>1. RequestWay(r) /\ job'[r] = "queued" /\ reader' # Msg("end", r)
      BY <1>1, <2>2 DEF TypeOK
    <3>2. Msg("start", r) \notin Queued /\ r \notin streams /\ Msg("end", r) \notin Queued
      BY Zenon, <2>1, <3>1 DEF RequestWay
    <3>3. handler[r] \notin {"new", "started"}
      BY Zenon, <2>1, <3>1 DEF RequestWay
    <3>4. handler[r] # "new" /\ handler[r] # "started"
      BY <3>3
    <3> QED
      BY ZenonT(60), <2>2, <2>3, <3>1, <3>2, <3>3, <3>4 DEF RequestWay
  <2> QED
    BY Zenon, <2>3, <2>4, <2>5
<1>12. CASE StartJob
  <2>1. Head(jobs) \in Requests /\ job[Head(jobs)] = "queued"
    BY SMTT(60), Z3T(60), <1>12 DEF StartJob, TypeOK, JobsQueued
  <2>2. \A r \in Requests : (job'[r] = "none") <=> (job[r] = "none")
    BY ZenonT(60), <1>12, <2>1 DEF StartJob, TypeOK
  <2> QED
    BY Zenon, <1>2, <1>12, <2>2 DEF StartJob, gatewayVars
<1>13. ASSUME NEW r \in Requests, JobStep(r)
       PROVE  DownOrdered' /\ \A q \in Requests : RequestWay(q)'
  <2>1. \A q \in Requests : (job'[q] = "none") <=> (job[q] = "none")
    BY ZenonT(60), <1>13 DEF JobStep, LocalAnswers, LocalFails, SendChunk, BodyFails, SendEnd, TypeOK
  <2>2. UNCHANGED <<handler, down, writing, out, streams, reader>>
    BY Zenon, <1>13 DEF JobStep, LocalAnswers, LocalFails, SendChunk, BodyFails, SendEnd, gatewayVars
  <2> QED
    BY Zenon, <1>2, <2>1, <2>2
<1>14. ~Close
  BY DEF Close
<1> QED
  BY ZenonT(60), <1>3, <1>5, <1>6, <1>7, <1>8, <1>9, <1>10, <1>11, <1>12, <1>13, <1>14
  DEF Next, GatewayStep, AgentStep, Terminated

\* No worker is given a request twice.
LEMMA JobsStep ==
    ASSUME TypeOK, QueuesHold, JobsQueued, \A r \in Requests : RequestWay(r), [Next]_vars
    PROVE  JobsQueued'
<1>0. /\ jobs \in Seq(Requests) /\ Len(jobs) \in Nat /\ job \in [Requests -> Jobs]
      /\ \A i \in 1..Len(jobs) : jobs[i] \in Requests
  BY SMTT(60), Z3T(60) DEF TypeOK
<1>1. ASSUME jobs' = jobs, \A q \in Requests : job[q] = "queued" => job'[q] = "queued"
      PROVE  JobsQueued'
  BY ZenonT(60), <1>0, <1>1 DEF JobsQueued
<1>2. CASE UNCHANGED vars
  BY Zenon, <1>1, <1>2 DEF vars, agentVars
<1>3. ASSUME NEW r \in Requests, HandlerStep(r)
      PROVE  JobsQueued'
  BY ZenonT(60), <1>1, <1>3 DEF HandlerStep, QueueStart, QueueEnd, Queue, GiveUp, agentVars
<1>4. CASE GatewayStep \/ Read \/ SendPong \/ Close
  BY Zenon, <1>1, <1>4
     DEF GatewayStep, Tick, TakeOutbound, Write, Receive, Read, SendPong, Close, agentVars
<1>5. CASE Dispatch
  <2>1. PICK r \in Requests : reader = Msg("end", r)
    BY SMTT(60), Z3T(60), <1>5, Fields DEF Dispatch, QueuesHold
  <2>2. jobs' = Append(jobs, r) /\ job' = [job EXCEPT ![r] = "queued"]
    <3>1. reader.req = r
      BY <2>1, Fields
    <3> QED
      BY Zenon, <1>5, <3>1 DEF Dispatch
  <2>3. job[r] = "none"
    BY Zenon, <2>1 DEF RequestWay
  <2>4. \A i \in 1..Len(jobs) : jobs[i] # r
    BY <2>3 DEF JobsQueued
  <2>5. /\ Len(jobs') = Len(jobs) + 1 /\ jobs'[Len(jobs) + 1] = r
        /\ \A i \in 1..Len(jobs) : jobs'[i] = jobs[i]
        /\ \A i \in 1..Len(jobs') : i \in 1..Len(jobs) \/ i = Len(jobs) + 1
    BY SMTT(60), Z3T(60), <1>0, <2>2
  <2>6. job'[r] = "queued" /\ \A q \in Requests : q # r => job'[q] = job[q]
    BY Zenon, <1>0, <2>2
  <2>7. \A i \in 1..Len(jobs') : job'[jobs'[i]] = "queued"
    BY SMTT(60), Z3T(60), <1>0, <2>4, <2>5, <2>6 DEF JobsQueued
  <2>8. \A i, j \in 1..Len(jobs') : jobs'[i] = jobs'[j] => i = j
    BY SMTT(60), Z3T(60), <2>4, <2>5 DEF JobsQueued
  <2> QED
    BY Zenon, <2>7, <2>8 DEF JobsQueued
<1>6. CASE StartJob
  <2>1. jobs # <<>> /\ jobs' = Tail(jobs) /\ job' = [job EXCEPT ![Head(jobs)] = "local"]
    BY Zenon, <1>6 DEF StartJob
  <2>2. /\ Len(jobs') = Len(jobs) - 1 /\ 1 \in 1..Len(jobs) /\ Head(jobs) = jobs[1]
        /\ \A i \in 1..Len(jobs') : jobs'[i] = jobs[i + 1] /\ i + 1 \in 1..Len(jobs) /\ i + 1 # 1
    BY SMTT(60), Z3T(60), <1>0, <2>1
  <2>3. \A i \in 1..Len(jobs') : jobs'[i] # Head(jobs)
    BY ZenonT(60), <2>2 DEF JobsQueued
  <2>4. \A i \in 1..Len(jobs') : job'[jobs'[i]] = "queued"
    BY SMTT(60), Z3T(60), <1>0, <2>1, <2>2, <2>3 DEF JobsQueued
  <2>5. \A i, j \in 1..Len(jobs') : jobs'[i] = jobs'[j] => i = j
    BY SMTT(60), Z3T(60), <2>2 DEF JobsQueued
  <2> QED
    BY Zenon, <2>4, <2>5 DEF JobsQueued
<1>7. ASSUME NEW r \in Requests, JobStep(r)
      PROVE  JobsQueued'
  <2>1. jobs' = jobs
    BY ZenonT(60), <1>7 DEF JobStep, LocalAnswers, LocalFails, SendChunk, BodyFails, SendEnd
  <2>2. \A q \in Requests : job[q] = "queued" => job'[q] = "queued"
    BY <1>0, <1>7 DEF JobStep, LocalAnswers, LocalFails, SendChunk, BodyFails, SendEnd
  <2> QED
    BY ZenonT(60), <1>1, <2>1, <2>2
<1> QED
  BY ZenonT(60), <1>2, <1>3, <1>4, <1>5, <1>6, <1>7 DEF Next, AgentStep, Terminated

--------------------------------------------------------------------------------
(* The way of a response *)

\* The messages of request r that may be on their way to the gateway.
LEMMA SentMessages ==
    ASSUME QueuesHold
    PROVE  /\ \A m \in Range(up) : m \in UpMessage
           /\ \A m \in Range(up) : \A r \in Requests :
                 m.req = r => \/ m \in {Msg("ok", r), Msg("error", r), Msg("end", r)}
                              \/ m.seq \in Nat /\ m = Chunk(r, m.seq)
<1>1. \A m \in Range(up) : m \in UpMessage
  BY SMTT(60), Z3T(60) DEF QueuesHold, Range
<1>2. ASSUME NEW m \in Range(up), NEW r \in Requests, m.req = r
      PROVE  \/ m \in {Msg("ok", r), Msg("error", r), Msg("end", r)}
             \/ m.seq \in Nat /\ m = Chunk(r, m.seq)
  BY ZenonT(60), <1>1, <1>2, UpCases, NoneAssumption
<1> QED
  BY Zenon, <1>1, <1>2

\* What the way of a response depends on.
LEMMA ResponseKept ==
    ASSUME NEW r, ResponseWay(r), responses'[r] = responses[r], next'[r] = next[r],
           sent'[r] = sent[r], size'[r] = size[r],
           \/ job'[r] = job[r]
           \/ {job[r], job'[r]} \subseteq {"none", "queued", "local"},
           \A t : Msg(t, r) \in Range(up)' <=> Msg(t, r) \in Range(up),
           \A n : Chunk(r, n) \in Range(up)' <=> Chunk(r, n) \in Range(up)
    PROVE  ResponseWay(r)'
<1>1. (Begins(r)' <=> Begins(r)) /\ (Open(r)' <=> Open(r)) /\ Expected(r)' = Expected(r)
  BY Zenon DEF Begins, Open, Expected
<1>2. /\ job'[r] \in {"body", "ending"} <=> job[r] \in {"body", "ending"}
      /\ job'[r] = "done" <=> job[r] = "done"
      /\ job'[r] = "body" <=> job[r] = "body"
      /\ job'[r] \in {"none", "queued", "local"} <=> job[r] \in {"none", "queued", "local"}
  OBVIOUS
<1>3. EndOnWay(r)' /\ SentSoFar(r)'
  BY Zenon, <1>1, <1>2 DEF ResponseWay, EndOnWay, SentSoFar
<1>4. ChunksOnWay(r)'
  BY Zenon, <1>1 DEF ResponseWay, ChunksOnWay
<1> QED
  BY Zenon, <1>1, <1>3, <1>4 DEF ResponseWay

\* A worker sends the next message m of its response.
LEMMA SendLast ==
    ASSUME QueuesHold, Ordered(up), NEW r \in Requests, NEW m \in UpMessage, m.req = r,
           up' = Append(up, m), \A x \in Range(up) : x.req = r => Before(x, m)
    PROVE  /\ Ordered(up') /\ Range(up)' = Range(up) \cup {m}
           /\ \A q \in Requests \ {r} :
                 /\ \A t : Msg(t, q) \in Range(up)' <=> Msg(t, q) \in Range(up)
                 /\ \A n : Chunk(q, n) \in Range(up)' <=> Chunk(q, n) \in Range(up)
<1>1. \A x \in Range(up) : Before(x, m)
  BY Zenon DEF Before
<1>2. Range(up)' = Range(up) \cup {m}
  BY SMTT(60), Z3T(60), AppendToQueue DEF QueuesHold
<1>3. Ordered(up')
  BY ZenonT(60), <1>1, AppendToQueue DEF QueuesHold
<1>4. ASSUME NEW q \in Requests \ {r}
      PROVE  (\A t : Msg(t, q) # m) /\ (\A n : Chunk(q, n) # m)
  BY SMTT(60), Z3T(60), Fields
<1> QED
  BY Zenon, <1>2, <1>3, <1>4

\* Every step of a worker keeps the messages to the gateway in order.
LEMMA JobStepResponses ==
    ASSUME TypeOK, QueuesHold, Ordered(up), \A q \in Requests : ResponseWay(q),
           NEW r \in Requests, JobStep(r)
    PROVE  Ordered(up') /\ \A q \in Requests : ResponseWay(q)'
<1>0. /\ ResponseWay(r) /\ sent[r] \in Nat /\ size[r] \in Nat /\ next[r] \in Nat
      /\ Expected(r) \in Nat /\ MaxChunks \in Nat
  BY Zenon, CapacityAssumption DEF TypeOK, Expected
<1>1. /\ UNCHANGED <<responses, next>>
      /\ \A q \in Requests \ {r} : job'[q] = job[q] /\ sent'[q] = sent[q] /\ size'[q] = size[q]
  <2>1. UNCHANGED <<responses, next>>
    BY ZenonT(60) DEF JobStep, LocalAnswers, LocalFails, SendChunk, BodyFails, SendEnd, gatewayVars
  <2>2. \A q \in Requests \ {r} : job'[q] = job[q]
    BY ZenonT(60) DEF JobStep, LocalAnswers, LocalFails, SendChunk, BodyFails, SendEnd, TypeOK
  <2>3. \A q \in Requests \ {r} : sent'[q] = sent[q] /\ size'[q] = size[q]
    BY SMTT(60), Z3T(60) DEF JobStep, LocalAnswers, LocalFails, SendChunk, BodyFails, SendEnd, TypeOK
  <2> QED
    BY ZenonT(60), <2>1, <2>2, <2>3
<1>2. ASSUME NEW m \in UpMessage, m.req = r, up' = Append(up, m), ResponseWay(r)',
             \A x \in Range(up) : x.req = r => Before(x, m)
      PROVE  Ordered(up') /\ \A q \in Requests : ResponseWay(q)'
  <2>1. /\ Ordered(up')
        /\ \A q \in Requests \ {r} :
              /\ \A t : Msg(t, q) \in Range(up)' <=> Msg(t, q) \in Range(up)
              /\ \A n : Chunk(q, n) \in Range(up)' <=> Chunk(q, n) \in Range(up)
    BY ZenonT(60), <1>2, SendLast
  <2>2. ASSUME NEW q \in Requests \ {r}
        PROVE  ResponseWay(q)'
    BY Zenon, <1>1, <2>1, ResponseKept
  <2> QED
    BY Zenon, <1>2, <2>1, <2>2
<1>3. ASSUME NEW m \in UpMessage, up' = Append(up, m)
      PROVE  Range(up)' = Range(up) \cup {m}
  BY SMTT(60), Z3T(60), <1>3, AppendToQueue DEF QueuesHold
<1>4. (Begins(r)' <=> Begins(r)) => (Open(r)' <=> Open(r))
  BY ZenonT(60), <1>1 DEF Open
<1>5. Expected(r)' = Expected(r)
  BY ZenonT(60), <1>1 DEF Expected
<1>6. ASSUME NEW k \in {"ok", "error"}, job[r] = "local", Send(k, r, 0), UNCHANGED sent,
             job'[r] = (IF k = "ok" THEN "body" ELSE "ending"),
             size'[r] \in 0..MaxChunks
      PROVE  Ordered(up') /\ \A q \in Requests : ResponseWay(q)'
  <2>1. up' = Append(up, Msg(k, r)) /\ Msg(k, r) \in UpMessage /\ Msg(k, r).req = r
    BY SMTT(60), Z3T(60), <1>6, Fields DEF Send, Msg, UpMessage
  <2>2. ~Open(r) /\ Msg("end", r) \notin Range(up) /\ sent[r] = 0
    BY Zenon, <1>0, <1>6 DEF ResponseWay, EndOnWay, SentSoFar
  <2>3. responses[r] = "none" /\ ~Begins(r) /\ \A n \in Nat : Chunk(r, n) \notin Range(up)
    BY Zenon, <1>0, <2>2 DEF ResponseWay, ChunksOnWay, Open
  <2>4. \A x \in Range(up) : x.req # r
    BY Zenon, <2>2, <2>3, SentMessages DEF Begins
  <2>5. Range(up)' = Range(up) \cup {Msg(k, r)}
    BY Zenon, <1>3, <2>1
  <2>6. Begins(r)' /\ Open(r)' /\ Expected(r)' = 0
    BY Zenon, <1>1, <2>3, <2>5 DEF Begins, Open, Expected
  <2>7. Msg("end", r) \notin Range(up)' /\ \A n \in Nat : Chunk(r, n) \notin Range(up)'
    BY SMTT(60), Z3T(60), <2>2, <2>3, <2>5, Fields
  <2>8. Msg("error", r) \in Range(up)' => k = "error"
    BY SMTT(60), Z3T(60), <2>3, <2>5, Fields DEF Begins
  <2>9. responses'[r] = "none" /\ sent'[r] = 0
    BY ZenonT(60), <1>1, <1>6, <2>2, <2>3
  <2>10. EndOnWay(r)'
    BY Zenon, <1>6, <2>6, <2>7 DEF EndOnWay
  <2>11. ChunksOnWay(r)'
    BY SMTT(60), Z3T(60), <2>6, <2>7, <2>9 DEF ChunksOnWay
  <2>12. SentSoFar(r)'
    BY SMTT(60), Z3T(60), <1>0, <1>6, <2>6, <2>8, <2>9 DEF SentSoFar
  <2>13. ResponseWay(r)'
    BY Zenon, <2>9, <2>10, <2>11, <2>12 DEF ResponseWay
  <2> QED
    BY ZenonT(60), <1>2, <2>1, <2>4, <2>13
<1>7. CASE LocalAnswers(r)
  <2>1. PICK n \in 0..MaxChunks : size' = [size EXCEPT ![r] = n]
    BY Zenon, <1>7 DEF LocalAnswers
  <2>2. /\ job[r] = "local" /\ Send("ok", r, 0) /\ UNCHANGED sent /\ job'[r] = "body"
        /\ size'[r] \in 0..MaxChunks
    BY ZenonT(60), <1>7, <2>1 DEF LocalAnswers, TypeOK
  <2> QED
    BY ZenonT(60), <1>6, <2>2
<1>8. CASE LocalFails(r)
  <2>1. job[r] = "local" /\ Send("error", r, 0) /\ UNCHANGED <<sent, size>> /\ job'[r] = "ending"
    BY ZenonT(60), <1>8 DEF LocalFails, TypeOK
  <2>2. size'[r] \in 0..MaxChunks
    BY SMTT(60), Z3T(60), <1>0, <2>1 DEF ResponseWay, SentSoFar
  <2> QED
    BY ZenonT(60), <1>6, <2>1, <2>2
<1>9. CASE SendChunk(r)
  <2> DEFINE n == sent[r]
             m == Chunk(r, n)
  <2>1. /\ job[r] = "body" /\ n < size[r] /\ UNCHANGED <<job, size>> /\ sent'[r] = n + 1
        /\ up' = Append(up, m)
    BY Zenon, <1>9 DEF SendChunk, Send, Chunk, TypeOK
  <2>2. m \in UpMessage /\ m.req = r /\ m.type = "chunk" /\ m.seq = n
    BY SMTT(60), Z3T(60), <1>0, Fields DEF UpMessage
  <2>3. /\ Open(r) /\ Msg("end", r) \notin Range(up) /\ Msg("error", r) \notin Range(up)
        /\ responses[r] # "error" /\ Expected(r) <= n
        /\ \A i \in Nat : Chunk(r, i) \in Range(up) <=> Expected(r) <= i /\ i < n
    <3>1. Open(r) /\ Msg("end", r) \notin Range(up)
      BY Zenon, <1>0, <2>1 DEF ResponseWay, EndOnWay
    <3>2. Msg("error", r) \notin Range(up) /\ responses[r] # "error" /\ Expected(r) <= n
      BY Zenon, <1>0, <2>1, <3>1 DEF ResponseWay, SentSoFar
    <3> QED
      BY ZenonT(60), <1>0, <3>1, <3>2 DEF ResponseWay, ChunksOnWay
  <2>4. ASSUME NEW x \in Range(up), x.req = r
        PROVE  Before(x, m)
    <3>1. x = Msg("ok", r) \/ (x.seq \in Nat /\ x = Chunk(r, x.seq) /\ x.seq < n)
      BY ZenonT(60), <2>3, <2>4, SentMessages
    <3> QED
      BY SMTT(60), Z3T(60), <2>2, <3>1, Fields DEF Before
  <2>5. Range(up)' = Range(up) \cup {m}
    BY Zenon, <1>3, <2>1, <2>2
  <2>6. \A t \in {"ok", "error", "end"} : Msg(t, r) \in Range(up)' <=> Msg(t, r) \in Range(up)
    BY SMTT(60), Z3T(60), <2>2, <2>5, Fields
  <2>7. (Begins(r)' <=> Begins(r)) /\ Open(r)'
    BY Zenon, <1>4, <2>3, <2>6 DEF Begins
  <2>8. \A i \in Nat : Chunk(r, i) \in Range(up)' <=> Chunk(r, i) \in Range(up) \/ i = n
    BY SMTT(60), Z3T(60), <2>5, Fields
  <2>9. \A i \in Nat : Chunk(r, i) \in Range(up)' <=> Expected(r) <= i /\ i < n + 1
    BY SMTT(60), Z3T(60), <1>0, <2>3, <2>8
  <2> HIDE DEF m, n
  <2>10. n \in Nat /\ n = sent[r]
    BY Zenon, <1>0 DEF n
  <2>11. responses'[r] = responses[r] /\ job'[r] = job[r] /\ size'[r] = size[r]
    BY Zenon, <1>1, <2>1
  <2>12. EndOnWay(r)'
    BY Zenon, <2>1, <2>3, <2>6, <2>7, <2>11 DEF EndOnWay
  <2>13. ChunksOnWay(r)'
    BY ZenonT(60), <1>5, <2>1, <2>7, <2>9 DEF ChunksOnWay
  <2>14. n + 1 <= size[r] /\ size[r] <= MaxChunks /\ Expected(r)' <= n + 1
    BY SMTT(60), Z3T(60), <1>0, <1>5, <2>1, <2>3, <2>10 DEF ResponseWay, SentSoFar
  <2>15. SentSoFar(r)'
    BY Zenon, <2>1, <2>3, <2>6, <2>11, <2>14 DEF SentSoFar
  <2>16. ResponseWay(r)'
    BY Zenon, <1>0, <2>7, <2>11, <2>12, <2>13, <2>15 DEF ResponseWay
  <2> QED
    BY ZenonT(60), <1>2, <2>1, <2>2, <2>4, <2>16
<1>10. CASE BodyFails(r)
  <2>1. /\ job[r] = "body" /\ job'[r] = "ending" /\ UNCHANGED <<up, size, sent>>
    BY Zenon, <1>10 DEF BodyFails, TypeOK
  <2>2. (Begins(r)' <=> Begins(r)) /\ (Open(r)' <=> Open(r))
    BY Zenon, <1>4, <2>1 DEF Begins
  <2>3. ResponseWay(r)'
    <3>1. EndOnWay(r)'
      BY ZenonT(60), <1>0, <2>1, <2>2 DEF ResponseWay, EndOnWay
    <3>2. ChunksOnWay(r)'
      BY Zenon, <1>0, <1>5, <2>1, <2>2 DEF ResponseWay, ChunksOnWay
    <3>3. SentSoFar(r)'
      BY Zenon, <1>0, <1>1, <1>5, <2>1, <2>2 DEF ResponseWay, SentSoFar
    <3> QED
      BY ZenonT(60), <1>0, <1>1, <2>2, <3>1, <3>2, <3>3 DEF ResponseWay
  <2>4. \A q \in Requests \ {r} : ResponseWay(q)'
    BY ZenonT(60), <1>1, <2>1, ResponseKept
  <2> QED
    BY ZenonT(60), <2>1, <2>3, <2>4
<1>11. CASE SendEnd(r)
  <2> DEFINE m == Msg("end", r)
  <2>1. /\ job[r] \in {"ending", "body"} /\ job'[r] = "done" /\ UNCHANGED <<sent, size>>
        /\ up' = Append(up, m)
    BY Zenon, <1>11 DEF SendEnd, Send, Msg, TypeOK
  <2>2. m \in UpMessage /\ m.req = r /\ m.type = "end"
    BY SMTT(60), Z3T(60), Fields DEF UpMessage
  <2>3. Open(r) /\ m \notin Range(up)
    BY Zenon, <1>0, <2>1 DEF ResponseWay, EndOnWay
  <2>4. ASSUME NEW x \in Range(up), x.req = r
        PROVE  Before(x, m)
    <3>1. x \in {Msg("ok", r), Msg("error", r)} \/ x = Chunk(r, x.seq)
      BY Zenon, <2>3, <2>4, SentMessages
    <3>2. x.type \in {"ok", "error", "chunk"}
      BY SMTT(60), Z3T(60), <3>1, Fields
    <3> QED
      BY <2>2, <3>2 DEF Before
  <2>5. Range(up)' = Range(up) \cup {m}
    BY Zenon, <1>3, <2>1, <2>2
  <2>6. \A t \in {"ok", "error"} : Msg(t, r) \in Range(up)' <=> Msg(t, r) \in Range(up)
    BY SMTT(60), Z3T(60), <2>2, <2>5, Fields
  <2>7. (Begins(r)' <=> Begins(r)) /\ Open(r)'
    BY Zenon, <1>4, <2>3, <2>6 DEF Begins
  <2>8. \A i \in Nat : Chunk(r, i) \in Range(up)' <=> Chunk(r, i) \in Range(up)
    BY SMTT(60), Z3T(60), <2>2, <2>5, Fields
  <2>9. m \in Range(up)'
    BY ZenonT(60), <2>5
  <2> HIDE DEF m
  <2>10. responses'[r] = responses[r] /\ sent'[r] = sent[r] /\ size'[r] = size[r]
    BY Zenon, <1>1, <2>1
  <2>11. EndOnWay(r)'
    BY Zenon, <2>1, <2>7, <2>9 DEF EndOnWay, m
  <2>12. ChunksOnWay(r)'
    BY ZenonT(60), <1>0, <1>5, <2>3, <2>7, <2>8, <2>10 DEF ResponseWay, ChunksOnWay
  <2>13. SentSoFar(r)'
    BY ZenonT(60), <1>0, <1>5, <2>1, <2>3, <2>6, <2>10 DEF ResponseWay, SentSoFar
  <2>14. ResponseWay(r)'
    BY Zenon, <1>0, <2>7, <2>10, <2>11, <2>12, <2>13 DEF ResponseWay
  <2> QED
    BY ZenonT(60), <1>2, <2>1, <2>2, <2>4, <2>14
<1> QED
  BY ZenonT(60), <1>7, <1>8, <1>9, <1>10, <1>11 DEF JobStep

\* Of natural numbers.
LEMMA NatOrder ==
    /\ \A a \in Nat : a <= a /\ 0 <= a
    /\ \A a, b \in Nat : a <= b /\ ~(a < b) => a = b
BY SMTT(60), Z3T(60)

\* When the gateway receives the end of a response it has all that was sent.
LEMMA WholeReceived ==
    ASSUME TypeOK, QueuesHold, Ordered(up), NEW r \in Requests, ResponseWay(r),
           up # <<>>, Head(up) = Msg("end", r), responses[r] # "none"
    PROVE  /\ job[r] = "done" /\ next[r] = sent[r] /\ ~Begins(r)
           /\ Msg("end", r) \notin Range(Tail(up))
           /\ \A n : Chunk(r, n) \notin Range(Tail(up))
<1> DEFINE m == Msg("end", r)
<1>1. Range(up) = Range(Tail(up)) \cup {m}
  BY TakeFromQueue DEF QueuesHold
<1>2. \A x \in Range(Tail(up)) : Before(m, x)
  <2>1. \A x \in Range(Tail(up)) : Before(Head(up), x)
    BY ZenonT(60), TakeFromQueue DEF QueuesHold
  <2> QED
    BY ZenonT(60), <2>1
<1>3. ~Before(m, m) /\ \A n : ~Before(m, Chunk(r, n)) /\ Chunk(r, n) # m
  BY SMTT(60), Z3T(60), Fields DEF Before
<1>4. m \notin Range(Tail(up)) /\ \A n : Chunk(r, n) \notin Range(up)
  BY Zenon, <1>1, <1>2, <1>3
<1>5. m \in Range(up)
  BY Zenon, <1>1
<1>6. job[r] = "done" /\ ~Begins(r) /\ Open(r)
  BY ZenonT(60), <1>5 DEF ResponseWay, EndOnWay, Open
<1>7. next[r] = sent[r]
  <2>1. Expected(r) = next[r] /\ next[r] \in Nat /\ sent[r] \in Nat
    BY Zenon DEF Expected, TypeOK
  <2>2. next[r] <= sent[r]
    BY ZenonT(60), <1>6, <2>1 DEF ResponseWay, SentSoFar
  <2>3. Expected(r) <= next[r]
    BY Zenon, <2>1, NatOrder
  <2>4. ~(next[r] < sent[r])
    BY Zenon, <1>4, <1>6, <2>1, <2>3 DEF ResponseWay, ChunksOnWay
  <2> QED
    BY Zenon, <2>1, <2>2, <2>4, NatOrder
<1> QED
  BY Zenon, <1>1, <1>4, <1>6, <1>7

\* The gateway takes the oldest message of the agent.
LEMMA ReceiveResponses ==
    ASSUME TypeOK, QueuesHold, Ordered(up), \A r \in Requests : ResponseWay(r),
           Receive, session' = "up"
    PROVE  Ordered(up') /\ \A r \in Requests : ResponseWay(r)'
<1> DEFINE m == Head(up)
<1>1. up # <<>> /\ up' = Tail(up) /\ Valid(m) /\ UNCHANGED <<job, size, sent>>
  BY ZenonT(60) DEF Receive, agentVars
<1>2. m \in UpMessage /\ Range(up) = Range(up)' \cup {m}
  BY <1>1, TakeFromQueue DEF QueuesHold
<1>3. Ordered(up') /\ \A x \in Range(up)' : Before(m, x)
  BY Zenon, <1>1, TakeFromQueue DEF QueuesHold
<1>4. /\ m.type = "pong" => UNCHANGED <<responses, next>>
      /\ m.type \in {"ok", "error"} => Assemble(m)
      /\ m.type = "chunk" => AddChunk(m)
      /\ m.type = "end" => Deliver(m)
  BY ZenonT(60), <1>1 DEF Receive
<1>5. m.type = "end" => m = Head(up) /\ up # <<>>
  BY <1>1
<1> HIDE DEF m
<1>6. m.req \in Requests \/ (m.type = "pong" /\ m.req = None)
  BY Zenon, <1>2, UpCases
<1>7. ASSUME NEW r \in Requests, r # m.req
      PROVE  ResponseWay(r)'
  <2>1. (\A t : Msg(t, r) # m) /\ (\A n : Chunk(r, n) # m)
    BY SMTT(60), Z3T(60), <1>7, Fields
  <2>2. /\ \A t : Msg(t, r) \in Range(up)' <=> Msg(t, r) \in Range(up)
        /\ \A n : Chunk(r, n) \in Range(up)' <=> Chunk(r, n) \in Range(up)
    BY ZenonT(60), <1>2, <2>1
  <2>3. responses'[r] = responses[r] /\ next'[r] = next[r]
    <3>1. CASE m.type \in {"ok", "error"}
      BY Zenon, <1>4, <1>7, <3>1 DEF Assemble, TypeOK
    <3>2. CASE m.type = "chunk"
      BY ZenonT(60), <1>4, <1>7, <3>2 DEF AddChunk, TypeOK
    <3>3. CASE m.type = "end"
      BY Zenon, <1>4, <1>7, <3>3 DEF Deliver, TypeOK
    <3> QED
      BY Zenon, <1>2, <1>4, <3>1, <3>2, <3>3, UpCases
  <2> QED
    BY Zenon, <1>1, <2>2, <2>3, ResponseKept
<1>8. ASSUME NEW r \in Requests, r = m.req
      PROVE  ResponseWay(r)'
  <2>0. /\ ResponseWay(r) /\ sent[r] \in Nat /\ size[r] \in Nat /\ next[r] \in Nat
        /\ Expected(r) \in Nat /\ m \in Range(up)
    BY <1>2 DEF TypeOK, Expected
  <2>1. job'[r] = job[r] /\ sent'[r] = sent[r] /\ size'[r] = size[r]
    BY ZenonT(60), <1>1
  <2>2. CASE m.type \in {"ok", "error"}
    <3>1. m = Msg(m.type, r) /\ Begins(r)
      BY Zenon, <1>2, <1>8, <2>0, <2>2, UpCases DEF Begins
    <3>2. responses[r] = "none" /\ Open(r) /\ Expected(r) = 0
      BY ZenonT(60), <2>0, <3>1 DEF ResponseWay, Expected, Open
    <3>3. responses'[r] = m.type /\ next'[r] = 0
      BY Zenon, <1>4, <1>8, <2>2 DEF Assemble, TypeOK
    <3>4. ~Before(m, Msg("ok", r)) /\ ~Before(m, Msg("error", r))
      BY SMTT(60), Z3T(60), <1>8, <2>2, Fields DEF Before
    <3>5. ~Begins(r)'
      BY Zenon, <1>3, <3>4 DEF Begins
    <3>6. Open(r)' /\ Expected(r)' = 0
      BY <2>2, <3>3 DEF Open, Expected
    <3>7. Msg("end", r) # m /\ \A n : Chunk(r, n) # m
      BY SMTT(60), Z3T(60), <2>2, Fields
    <3>8. /\ Msg("end", r) \in Range(up)' <=> Msg("end", r) \in Range(up)
          /\ \A n : Chunk(r, n) \in Range(up)' <=> Chunk(r, n) \in Range(up)
      BY Zenon, <1>2, <3>7
    <3>9. responses'[r] = "error" => Msg("error", r) \in Range(up)
      BY Zenon, <2>0, <3>1, <3>3
    <3>10. Msg("error", r) \notin Range(up)'
      BY ZenonT(60), <1>3, <3>4
    <3> QED
      <4>1. EndOnWay(r)'
        BY ZenonT(60), <2>0, <2>1, <3>2, <3>6, <3>8 DEF ResponseWay, EndOnWay
      <4>2. ChunksOnWay(r)'
        BY Zenon, <2>0, <2>1, <3>2, <3>6, <3>8 DEF ResponseWay, ChunksOnWay
      <4>3. Expected(r)' <= sent'[r]
        BY Zenon, <2>0, <2>1, <3>6, NatOrder
      <4>4. SentSoFar(r)'
        BY ZenonT(60), <2>0, <2>1, <3>9, <3>10, <4>3 DEF ResponseWay, SentSoFar
      <4> QED
        BY Zenon, <3>5, <4>1, <4>2, <4>4 DEF ResponseWay
  <2>3. CASE m.type = "chunk"
    <3> DEFINE n == m.seq
    <3>1. m = Chunk(r, n) /\ n \in Nat
      BY Zenon, <1>2, <1>8, <2>3, UpCases
    <3>2. responses[r] = "ok" /\ n = next[r]
      BY Zenon, <1>1, <1>8, <2>3 DEF Valid, ValidChunk
    <3>3. responses'[r] = "ok" /\ next'[r] = n + 1
      BY ZenonT(60), <1>4, <1>8, <2>3, <3>2 DEF AddChunk, TypeOK
    <3>4. \A t \in {"ok", "error", "end"} : Msg(t, r) # m
      BY SMTT(60), Z3T(60), <2>3, Fields
    <3>5. \A t \in {"ok", "error", "end"} : Msg(t, r) \in Range(up)' <=> Msg(t, r) \in Range(up)
      BY ZenonT(60), <1>2, <3>4
    <3>6. Expected(r) = n /\ Expected(r)' = n + 1 /\ Open(r) /\ Open(r)'
      BY <3>2, <3>3 DEF Expected, Open
    <3>7. Begins(r)' <=> Begins(r)
      BY Zenon, <3>5 DEF Begins
    <3>8. ~Before(m, m)
      BY SMTT(60), Z3T(60), <1>8, <2>3, <3>1 DEF Before
    <3>9. \A i \in Nat : Chunk(r, i) \in Range(up)' <=> Chunk(r, i) \in Range(up) /\ i # n
      BY SMTT(60), Z3T(60), <1>2, <1>3, <3>1, <3>8, Fields
    <3>10. n < sent[r]
      BY ZenonT(60), <2>0, <3>1 DEF ResponseWay, ChunksOnWay
    <3> HIDE DEF n
    <3>11. EndOnWay(r)'
      BY Zenon, <2>0, <2>1, <3>5, <3>6 DEF ResponseWay, EndOnWay
    <3>12. \A i \in Nat : Chunk(r, i) \in Range(up) <=> n <= i /\ i < sent[r]
      BY ZenonT(60), <2>0, <3>6 DEF ResponseWay, ChunksOnWay
    <3>13. \A i \in Nat : Chunk(r, i) \in Range(up)' <=> n + 1 <= i /\ i < sent[r]
      BY SMTT(60), Z3T(60), <2>0, <3>1, <3>9, <3>12
    <3>14. ChunksOnWay(r)'
      BY ZenonT(60), <2>1, <3>6, <3>13 DEF ChunksOnWay
    <3>15. Expected(r)' <= sent'[r]
      BY SMTT(60), Z3T(60), <2>0, <2>1, <3>1, <3>6, <3>10
    <3>16. SentSoFar(r)'
      BY ZenonT(60), <2>0, <2>1, <3>2, <3>3, <3>5, <3>15 DEF ResponseWay, SentSoFar
    <3> QED
      BY Zenon, <2>0, <3>2, <3>7, <3>11, <3>14, <3>16 DEF ResponseWay
  <2>4. CASE m.type = "end"
    <3>1. m = Msg("end", r) /\ responses[r] # "none"
      BY <1>1, <1>2, <1>8, <2>4, UpCases DEF Valid, ValidEnd, Assembling
    <3>2. /\ job[r] = "done" /\ ~Begins(r) /\ Msg("end", r) \notin Range(up)'
          /\ \A n : Chunk(r, n) \notin Range(up)'
      BY ZenonT(60), <1>1, <1>5, <2>0, <2>4, <3>1, WholeReceived
    <3>3. responses'[r] = "none" /\ next' = next
      BY Zenon, <1>4, <1>8, <2>4 DEF Deliver, TypeOK
    <3>4. ~Begins(r)' /\ ~Open(r)' /\ Msg("error", r) \notin Range(up)'
      BY Zenon, <1>2, <3>2, <3>3 DEF Begins, Open
    <3> QED
      <4>1. EndOnWay(r)'
        BY ZenonT(60), <2>1, <3>2, <3>4 DEF EndOnWay
      <4>2. ChunksOnWay(r)'
        BY ZenonT(60), <3>2, <3>4 DEF ChunksOnWay
      <4>3. SentSoFar(r)'
        BY ZenonT(60), <2>0, <2>1, <3>2, <3>3, <3>4 DEF ResponseWay, SentSoFar
      <4> QED
        BY Zenon, <3>4, <4>1, <4>2, <4>3 DEF ResponseWay
  <2> QED
    BY <1>2, <1>8, <2>2, <2>3, <2>4, UpCases, NoneAssumption
<1> QED
  BY ZenonT(60), <1>3, <1>7, <1>8

\* Every step keeps the messages to the gateway in order and every response on its way.
LEMMA UpStep ==
    ASSUME TypeOK, QueuesHold, Ordered(up), JobsQueued,
           \A r \in Requests : RequestWay(r) /\ ResponseWay(r), [Next]_vars, session' = "up"
    PROVE  Ordered(up') /\ \A r \in Requests : ResponseWay(r)'
<1>1. ASSUME UNCHANGED <<up, responses, next, sent, size>>,
             \A r \in Requests :
                 \/ job'[r] = job[r]
                 \/ {job[r], job'[r]} \subseteq {"none", "queued", "local"}
      PROVE  Ordered(up') /\ \A r \in Requests : ResponseWay(r)'
  BY ZenonT(60), <1>1, ResponseKept
<1>2. CASE UNCHANGED vars
  BY Zenon, <1>1, <1>2 DEF vars, gatewayVars, agentVars
<1>3. ASSUME NEW r \in Requests, HandlerStep(r)
      PROVE  Ordered(up') /\ \A q \in Requests : ResponseWay(q)'
  BY Zenon, <1>1, <1>3 DEF HandlerStep, QueueStart, QueueEnd, Queue, GiveUp, agentVars
<1>4. CASE Tick \/ TakeOutbound \/ Write \/ Read
  BY ZenonT(60), <1>1, <1>4 DEF Tick, TakeOutbound, Write, Read, gatewayVars, agentVars
<1>5. CASE Receive
  BY Zenon, <1>5, ReceiveResponses
<1>6. CASE SendPong
  <2> DEFINE p == Msg("pong", None)
  <2>1. up' = Append(up, p) /\ UNCHANGED <<responses, next, sent, size, job>>
    BY ZenonT(60), <1>6 DEF SendPong, Send, Msg, gatewayVars
  <2>2. p \in UpMessage /\ p.req = None /\ None \notin Requests
    BY SMTT(60), Z3T(60), NoneAssumption, Fields DEF UpMessage
  <2>3. \A x : Before(x, p)
    BY Zenon, <2>2 DEF Before
  <2>4. \A r \in Requests : (\A t : Msg(t, r) # p) /\ (\A n : Chunk(r, n) # p)
    BY SMTT(60), Z3T(60), <2>2, Fields
  <2>5. Ordered(up') /\ Range(up)' = Range(up) \cup {p}
    BY SMTT(60), Z3T(60), <2>1, <2>2, <2>3, AppendToQueue DEF QueuesHold
  <2> QED
    BY Zenon, <2>1, <2>4, <2>5, ResponseKept
<1>7. CASE Dispatch
  <2>1. PICK r \in Requests : reader = Msg("end", r)
    BY SMTT(60), Z3T(60), <1>7, Fields DEF Dispatch, QueuesHold
  <2>2. reader.req = r /\ job[r] = "none"
    BY SMTT(60), Z3T(60), <2>1, Fields DEF RequestWay
  <2>3. job' = [job EXCEPT ![r] = "queued"] /\ UNCHANGED <<up, responses, next, sent, size>>
    BY ZenonT(60), <1>7, <2>2 DEF Dispatch, gatewayVars
  <2>4. \A q \in Requests : \/ job'[q] = job[q]
                            \/ {job[q], job'[q]} \subseteq {"none", "queued", "local"}
    BY <2>2, <2>3 DEF TypeOK
  <2> QED
    BY ZenonT(60), <1>1, <2>3, <2>4
<1>8. CASE StartJob
  <2>1. Head(jobs) \in Requests /\ job[Head(jobs)] = "queued"
    BY SMTT(60), Z3T(60), <1>8 DEF StartJob, TypeOK, JobsQueued
  <2>2. \A q \in Requests : \/ job'[q] = job[q]
                            \/ {job[q], job'[q]} \subseteq {"none", "queued", "local"}
    BY ZenonT(60), <1>8, <2>1 DEF StartJob, TypeOK
  <2> QED
    BY ZenonT(60), <1>1, <1>8, <2>2 DEF StartJob, gatewayVars
<1>9. ASSUME NEW r \in Requests, JobStep(r)
      PROVE  Ordered(up') /\ \A q \in Requests : ResponseWay(q)'
  BY Zenon, <1>9, JobStepResponses
<1>10. ~Close
  BY DEF Close
<1> QED
  BY ZenonT(60), <1>2, <1>3, <1>4, <1>5, <1>6, <1>7, <1>8, <1>9, <1>10
  DEF Next, GatewayStep, AgentStep, Terminated

\* Every step keeps every answer that of the request's own job.
LEMMA AnswerStep ==
    ASSUME TypeOK, QueuesHold, OwnAnswer, [Next]_vars,
           session = "up" => /\ Ordered(up) /\ JobsQueued
                             /\ \A r \in Requests : RequestWay(r) /\ ResponseWay(r)
    PROVE  OwnAnswer'
<1>1. ASSUME \A r \in Requests :
                 /\ got'[r] = got[r] /\ (job[r] = "done" => job'[r] = "done" /\ sent'[r] = sent[r])
                 /\ handler'[r] \in {"ok", "error"} => handler[r] \in {"ok", "error"}
      PROVE  OwnAnswer'
  BY Zenon, <1>1 DEF OwnAnswer
<1>2. CASE UNCHANGED vars
  BY Zenon, <1>1, <1>2 DEF vars, gatewayVars, agentVars
<1>3. ASSUME NEW r \in Requests, HandlerStep(r)
      PROVE  OwnAnswer'
  <2>1. \A q \in Requests : handler'[q] \in {"ok", "error"} => handler[q] \in {"ok", "error"}
    BY ZenonT(60), <1>3 DEF HandlerStep, QueueStart, QueueEnd, Queue, GiveUp, TypeOK
  <2>2. UNCHANGED <<got, job, sent>>
    BY Zenon, <1>3 DEF HandlerStep, QueueStart, QueueEnd, Queue, GiveUp, agentVars
  <2> QED
    BY ZenonT(60), <1>1, <2>1, <2>2
<1>4. CASE Tick \/ TakeOutbound \/ Write \/ Read \/ SendPong \/ Close
  BY Zenon, <1>1, <1>4 DEF Tick, TakeOutbound, Write, Read, SendPong, Close, gatewayVars, agentVars
<1>5. CASE Receive
  <2> DEFINE m == Head(up)
  <2>1. session = "up" /\ up # <<>> /\ UNCHANGED <<job, sent>> /\ m \in UpMessage
    BY SMTT(60), Z3T(60), <1>5 DEF Receive, Selecting, agentVars, QueuesHold
  <2>2. (Valid(m) /\ m.type = "end" /\ Deliver(m)) \/ UNCHANGED <<handler, got>>
    BY ZenonT(60), <1>5, <2>1, UpCases DEF Receive, Assemble, AddChunk
  <2>3. CASE UNCHANGED <<handler, got>>
    BY ZenonT(60), <1>1, <2>1, <2>3
  <2>4. CASE Valid(m) /\ m.type = "end" /\ Deliver(m)
    <3>1. PICK r \in Requests : r = m.req /\ m = Msg("end", r) /\ responses[r] # "none"
      BY ZenonT(60), <2>1, <2>4, UpCases DEF Valid, ValidEnd, Assembling
    <3>2. job[r] = "done" /\ next[r] = sent[r]
      BY ZenonT(60), <2>1, <3>1, WholeReceived
    <3>3. CASE handler[r] = "waiting"
      <4>1. handler' = [handler EXCEPT ![r] = responses[r]] /\ got' = [got EXCEPT ![r] = next[r]]
        BY ZenonT(60), <2>4, <3>1, <3>3 DEF Deliver
      <4>2. got'[r] = sent[r] /\ \A q \in Requests \ {r} : handler'[q] = handler[q] /\ got'[q] = got[q]
        BY Zenon, <3>2, <4>1 DEF TypeOK
      <4> QED
        BY Zenon, <2>1, <3>2, <4>2 DEF OwnAnswer
    <3>4. CASE handler[r] # "waiting"
      BY ZenonT(60), <2>3, <2>4, <3>1, <3>4 DEF Deliver
    <3> QED
      BY Zenon, <3>3, <3>4
  <2> QED
    BY Zenon, <2>2, <2>3, <2>4
<1>6. ASSUME NEW r \in Requests, job[r] # "done",
             \A q \in Requests \ {r} : job'[q] = job[q] /\ sent'[q] = sent[q],
             UNCHANGED <<handler, got>>
      PROVE  OwnAnswer'
  BY ZenonT(60), <1>1, <1>6
<1>7. CASE Dispatch
  <2>1. PICK r \in Requests : reader = Msg("end", r)
    BY SMTT(60), Z3T(60), <1>7, Fields DEF Dispatch, QueuesHold
  <2>2. reader.req = r /\ session = "up"
    BY SMTT(60), Z3T(60), <1>7, <2>1, Fields DEF Dispatch
  <2>3. job[r] = "none"
    BY ZenonT(60), <2>1, <2>2 DEF RequestWay
  <2>4. job' = [job EXCEPT ![r] = "queued"] /\ UNCHANGED <<handler, got, sent>>
    BY ZenonT(60), <1>7, <2>2 DEF Dispatch, gatewayVars
  <2> QED
    BY Zenon, <1>6, <2>3, <2>4 DEF TypeOK
<1>8. CASE StartJob
  <2>1. Head(jobs) \in Requests /\ job[Head(jobs)] = "queued"
    BY SMTT(60), Z3T(60), <1>8 DEF StartJob, TypeOK, JobsQueued
  <2>2. job' = [job EXCEPT ![Head(jobs)] = "local"] /\ UNCHANGED <<handler, got, sent>>
    BY ZenonT(60), <1>8 DEF StartJob, gatewayVars
  <2> QED
    BY Zenon, <1>6, <2>1, <2>2 DEF TypeOK
<1>9. ASSUME NEW r \in Requests, JobStep(r)
      PROVE  OwnAnswer'
  <2>1. job[r] # "done" /\ UNCHANGED <<handler, got>>
    BY Zenon, <1>9 DEF JobStep, LocalAnswers, LocalFails, SendChunk, BodyFails, SendEnd, gatewayVars
  <2>2. \A q \in Requests \ {r} : job'[q] = job[q] /\ sent'[q] = sent[q]
    BY ZenonT(60), <1>9 DEF JobStep, LocalAnswers, LocalFails, SendChunk, BodyFails, SendEnd, TypeOK
  <2> QED
    BY ZenonT(60), <1>6, <2>1, <2>2
<1> QED
  BY ZenonT(60), <1>2, <1>3, <1>4, <1>5, <1>7, <1>8, <1>9 DEF Next, GatewayStep, AgentStep, Terminated

--------------------------------------------------------------------------------
(* The flow of requests and responses *)

LEMMA FlowStart == Init => FlowInvariant
<1> SUFFICES ASSUME Init PROVE FlowInvariant
  OBVIOUS
<1>1. TypeOK
  BY SMTT(60), Z3T(60) DEF Init, TypeOK, Handlers, Jobs
<1>2. QueuesHold /\ OwnAnswer
  BY SMTT(60), Z3T(60) DEF Init, QueuesHold, OwnAnswer
<1>3. Range(<<>>) = {} /\ Len(<<>>) = 0
  BY SMTT(60), Z3T(60) DEF Range
<1>4. Queued = {} /\ Range(up) = {}
  BY Zenon, <1>3 DEF Queued, Init
<1>5. DownOrdered /\ Ordered(up) /\ JobsQueued
  BY SMTT(60), Z3T(60), <1>3 DEF Init, DownOrdered, Ordered, JobsQueued
<1>6. ASSUME NEW r \in Requests
      PROVE  RequestWay(r)
  <2>1. handler[r] = "new" /\ streams = {} /\ job[r] = "none" /\ reader = None
    BY Zenon DEF Init
  <2>2. Msg("end", r) # None
    BY SMTT(60), Z3T(60), DownCases DEF DownMessage
  <2> QED
    BY Zenon, <1>4, <2>1, <2>2 DEF RequestWay
<1>7. ASSUME NEW r \in Requests
      PROVE  ResponseWay(r)
  <2>1. responses[r] = "none" /\ job[r] = "none" /\ sent[r] = 0 /\ size[r] = 0 /\ MaxChunks \in Nat
    BY CapacityAssumption DEF Init
  <2>2. ~Begins(r) /\ ~Open(r)
    BY <1>4, <2>1 DEF Begins, Open
  <2> QED
    BY SMTT(60), Z3T(60), <1>4, <2>1, <2>2 DEF ResponseWay, EndOnWay, ChunksOnWay, SentSoFar
<1> QED
  BY Zenon, <1>1, <1>2, <1>5, <1>6, <1>7 DEF FlowInvariant

LEMMA FlowStep == FlowInvariant /\ [Next]_vars => FlowInvariant'
<1> SUFFICES ASSUME FlowInvariant, [Next]_vars PROVE FlowInvariant'
  OBVIOUS
<1>1. TypeOK /\ QueuesHold /\ OwnAnswer
  BY Zenon DEF FlowInvariant
<1>2. session = "up" => /\ DownOrdered /\ Ordered(up) /\ JobsQueued
                        /\ \A r \in Requests : RequestWay(r) /\ ResponseWay(r)
  BY Zenon DEF FlowInvariant
<1>3. TypeOK' /\ QueuesHold'
  BY Zenon, <1>1, FlowTypes
<1>4. OwnAnswer'
  BY Zenon, <1>1, <1>2, AnswerStep
<1>5. session' = "up" => session = "up"
  <2>1. CASE UNCHANGED vars
    BY Zenon, <2>1 DEF vars
  <2>2. ASSUME NEW r \in Requests, HandlerStep(r) \/ JobStep(r)
        PROVE  session' = session
    BY Zenon, <2>2 DEF HandlerStep, QueueStart, QueueEnd, Queue, GiveUp,
       JobStep, LocalAnswers, LocalFails, SendChunk, BodyFails, SendEnd
  <2>3. CASE Tick \/ TakeOutbound \/ Write \/ SendPong \/ Dispatch \/ StartJob
    BY Zenon, <2>3 DEF Tick, TakeOutbound, Write, SendPong, Dispatch, StartJob
  <2>4. CASE Receive \/ Read \/ Close
    BY Zenon, <2>4 DEF Receive, Selecting, Read, Close
  <2> QED
    BY ZenonT(60), <2>1, <2>2, <2>3, <2>4 DEF Next, GatewayStep, AgentStep, Terminated
<1>6. ASSUME session' = "up"
      PROVE  /\ DownOrdered' /\ Ordered(up)' /\ JobsQueued'
             /\ \A r \in Requests : RequestWay(r)' /\ ResponseWay(r)'
  <2>1. DownOrdered' /\ \A r \in Requests : RequestWay(r)'
    BY ZenonT(60), <1>1, <1>2, <1>5, <1>6, DownStep
  <2>2. Ordered(up') /\ \A r \in Requests : ResponseWay(r)'
    BY Zenon, <1>1, <1>2, <1>5, <1>6, UpStep
  <2>3. JobsQueued'
    BY Zenon, <1>1, <1>2, <1>5, <1>6, JobsStep
  <2> QED
    BY Zenon, <2>1, <2>2, <2>3
<1> QED
  BY Zenon, <1>3, <1>4, <1>6 DEF FlowInvariant

\* Whatever the capacities of the queues, the number of workers and the limits of the two
\* ends are: while the session lives the messages of every request pass every queue in the
\* order in which they were sent, none of them twice, and none but those.
THEOREM FlowInOrder == Spec => []FlowInvariant
<1> QED
  BY FlowStart, FlowStep, PTL DEF Spec

\* The handlers, the loop of serveSession, the agent's reader, workers and queues keep
\* their types, and every queue holds messages only.
THEOREM TypeCorrect == Spec => []TypeOK
<1>1. FlowInvariant => TypeOK
  BY Zenon DEF FlowInvariant
<1> QED
  BY <1>1, FlowInOrder, PTL

\* However the responses of the workers interleave, an answer that ServeHTTP is given is
\* of its own request's job, and its body is all that this job sent.
THEOREM AnswersAreOwn == Spec => []OwnAnswer
<1>1. FlowInvariant => OwnAnswer
  BY Zenon DEF FlowInvariant
<1> QED
  BY <1>1, FlowInOrder, PTL

--------------------------------------------------------------------------------
(* No request is lost *)

LEMMA RangeOfConcat ==
    ASSUME NEW S, NEW p \in Seq(S), NEW q \in Seq(S)
    PROVE  Range(p \o q) = Range(p) \cup Range(q)
<1> DEFINE c == p \o q
<1>1. /\ Len(p) \in Nat /\ Len(q) \in Nat /\ DOMAIN p = 1..Len(p) /\ DOMAIN q = 1..Len(q)
      /\ DOMAIN c = 1..(Len(p) + Len(q)) /\ \A i \in 1..Len(p) : c[i] = p[i]
      /\ \A i \in 1..Len(q) : c[i + Len(p)] = q[i]
  BY SMTT(60), Z3T(60)
<1>2. \A i \in DOMAIN c : i \in 1..Len(p) \/ (i - Len(p) \in 1..Len(q) /\ c[i] = q[i - Len(p)])
  BY SMTT(60), Z3T(60)
<1> HIDE DEF c
<1>3. ASSUME NEW x \in Range(c)
      PROVE  x \in Range(p) \cup Range(q)
  BY SMTT(60), Z3T(60), <1>1, <1>2 DEF Range
<1>4. ASSUME NEW x \in Range(p)
      PROVE  x \in Range(c)
  BY SMTT(60), Z3T(60), <1>1 DEF Range
<1>5. ASSUME NEW i \in 1..Len(q)
      PROVE  q[i] \in Range(c)
  <2>1. i + Len(p) \in DOMAIN c /\ c[i + Len(p)] = q[i]
    BY SMTT(60), Z3T(60), <1>1
  <2> QED
    BY ZenonT(60), <2>1 DEF Range
<1> QED
  BY ZenonT(60), <1>1, <1>3, <1>4, <1>5 DEF Range, c

\* Where a request in transit is.
LEMMA TransitPlaces ==
    QueuesHold => \A r \in Requests :
        InTransit(r) <=> \/ Msg("end", r) \in Queued \/ reader = Msg("end", r)
                         \/ job[r] \in {"queued", "local", "body", "ending"}
                         \/ Msg("end", r) \in Range(up)
<1> SUFFICES ASSUME QueuesHold, NEW r \in Requests
             PROVE  InTransit(r) <=> \/ Msg("end", r) \in Queued \/ reader = Msg("end", r)
                                     \/ job[r] \in {"queued", "local", "body", "ending"}
                                     \/ Msg("end", r) \in Range(up)
  OBVIOUS
<1>1. Range(out \o down) = Range(out) \cup Range(down)
  <2>1. out \in Seq(DownMessage) /\ down \in Seq(DownMessage)
    BY Zenon DEF QueuesHold
  <2> QED
    BY Zenon, <2>1, RangeOfConcat
<1>2. Msg("end", r) # None
  BY SMTT(60), Z3T(60), DownCases DEF DownMessage
<1> QED
  BY ZenonT(60), <1>1, <1>2 DEF InTransit, Queued

\* Every step keeps the request of a handler that waits in transit.
LEMMA TransitStep == FlowInvariant /\ NotLost /\ [Next]_vars => NotLost'
<1> DEFINE Held(r) == \/ Msg("end", r) \in Queued \/ reader = Msg("end", r)
                      \/ job[r] \in {"queued", "local", "body", "ending"}
                      \/ Msg("end", r) \in Range(up)
<1> SUFFICES ASSUME FlowInvariant, NotLost, [Next]_vars, session' = "up"
             PROVE  \A r \in Requests : handler'[r] = "waiting" => InTransit(r)'
  BY Zenon DEF NotLost
<1>1. TypeOK /\ QueuesHold /\ QueuesHold'
  BY Zenon, FlowTypes DEF FlowInvariant
<1>2. \A r \in Requests : InTransit(r)' <=> Held(r)'
  <2>1. (QueuesHold => \A r \in Requests : InTransit(r) <=> Held(r))'
    BY TransitPlaces, PTL
  <2> QED
    BY Zenon, <1>1, <2>1
<1>3. session = "up" => \A r \in Requests : handler[r] = "waiting" => Held(r)
  BY Zenon, <1>1, TransitPlaces DEF NotLost
<1>4. session = "up" => /\ DownOrdered /\ JobsQueued /\ \A r \in Requests : RequestWay(r)
  BY Zenon DEF FlowInvariant
<1>5. \A r \in Requests : Msg("end", r) # None
  BY SMTT(60), Z3T(60), DownCases DEF DownMessage
<1> SUFFICES \A r \in Requests : handler'[r] = "waiting" => Held(r)'
  BY Zenon, <1>2
<1>6. ASSUME session = "up",
             \A r \in Requests : /\ handler'[r] = "waiting" => handler[r] = "waiting"
                                 /\ handler'[r] = "waiting" /\ Held(r) => Held(r)'
      PROVE  \A r \in Requests : handler'[r] = "waiting" => Held(r)'
  BY Zenon, <1>3, <1>6
<1> HIDE DEF Held
<1>7. ASSUME session = "up", UNCHANGED <<handler, reader, job, up>>,
             \A r \in Requests : Msg("end", r) \in Queued => Msg("end", r) \in Queued'
      PROVE  \A r \in Requests : handler'[r] = "waiting" => Held(r)'
  BY ZenonT(60), <1>6, <1>7 DEF Held
<1>8. CASE UNCHANGED vars
  BY Zenon, <1>7, <1>8 DEF vars, gatewayVars, agentVars, Queued
<1>9. ASSUME NEW r \in Requests, HandlerStep(r)
      PROVE  \A q \in Requests : handler'[q] = "waiting" => Held(q)'
  <2>1. session = "up" /\ UNCHANGED <<down, writing, reader, job, up>>
    BY ZenonT(60), <1>9 DEF HandlerStep, QueueStart, QueueEnd, Queue, GiveUp, agentVars
  <2>2. \A t \in {"start", "end", "cancel"} : Msg(t, r) \in DownMessage
    BY SMTT(60), Z3T(60) DEF DownMessage
  <2>3. Range(out) \subseteq Range(out')
    <3>1. \A m \in DownMessage : Range(out) \subseteq Range(Append(out, m))
      BY SMTT(60), Z3T(60), <1>1, AppendToQueue DEF QueuesHold
    <3> QED
      BY ZenonT(60), <1>9, <2>2, <3>1 DEF HandlerStep, QueueStart, QueueEnd, Queue, GiveUp
  <2>4. Queued \subseteq Queued'
    BY ZenonT(60), <2>1, <2>3 DEF Queued
  <2>5. \A q \in Requests \ {r} : handler'[q] = handler[q]
    BY Zenon, <1>1, <1>9 DEF HandlerStep, QueueStart, QueueEnd, Queue, GiveUp, TypeOK
  <2>6. ASSUME handler'[r] = "waiting"
        PROVE  Msg("end", r) \in Queued'
    <3>1. QueueEnd(r)
      BY Zenon, <1>1, <1>9, <2>6 DEF HandlerStep, QueueStart, Queue, GiveUp, TypeOK
    <3>2. out' = Append(out, Msg("end", r)) /\ Msg("end", r) \in DownMessage
      BY ZenonT(60), <2>2, <3>1 DEF QueueEnd, Queue
    <3>3. Msg("end", r) \in Range(out')
      BY SMTT(60), Z3T(60), <1>1, <3>2, AppendToQueue DEF QueuesHold
    <3> QED
      BY Zenon, <3>3 DEF Queued
  <2>7. ASSUME NEW q \in Requests, handler'[q] = "waiting"
        PROVE  Held(q)'
    <3>1. CASE q = r
      BY Zenon, <2>6, <2>7, <3>1 DEF Held
    <3>2. CASE q # r
      BY ZenonT(60), <1>3, <2>1, <2>4, <2>5, <2>7, <3>2 DEF Held
    <3> QED
      BY ZenonT(60), <3>1, <3>2
  <2> QED
    BY Zenon, <2>7
<1>10. CASE Tick
  <2>1. session = "up" /\ writing = None /\ UNCHANGED <<handler, out, down, reader, job, up>>
    BY Zenon, <1>10 DEF Tick, Selecting, agentVars
  <2>2. Queued \subseteq Queued'
    BY Zenon, <2>1 DEF Queued
  <2> QED
    BY Zenon, <1>7, <2>1, <2>2
<1>11. CASE TakeOutbound \/ Write
  <2>1. session = "up" /\ UNCHANGED <<handler, reader, job, up>>
    BY Zenon, <1>11 DEF TakeOutbound, Write, Selecting, agentVars
  <2>2. Queued' = Queued
    BY Zenon, <1>1, <1>4, <1>11, <2>1, MoveOn
  <2> QED
    BY ZenonT(60), <1>7, <2>1, <2>2
<1>12. CASE Receive
  <2> DEFINE m == Head(up)
  <2>1. /\ session = "up" /\ up # <<>> /\ up' = Tail(up) /\ Valid(m)
        /\ UNCHANGED <<out, down, writing, reader, job>>
    BY Zenon, <1>12 DEF Receive, Selecting, agentVars
  <2>2. m \in UpMessage /\ Range(up) = Range(up)' \cup {m}
    BY Zenon, <1>1, <2>1, TakeFromQueue DEF QueuesHold
  <2>3. (m.type = "end" /\ Deliver(m)) \/ (m.type # "end" /\ handler' = handler)
    BY ZenonT(60), <1>12, <2>1, <2>2, UpCases DEF Receive, Assemble, AddChunk
  <2>4. m.type = "end" => m.req \in Requests /\ responses[m.req] \in {"ok", "error"}
    BY ZenonT(60), <1>1, <2>1 DEF Valid, ValidEnd, Assembling, TypeOK
  <2> HIDE DEF m
  <2>5. ASSUME NEW r \in Requests, handler'[r] = "waiting"
        PROVE  handler[r] = "waiting" /\ m # Msg("end", r)
    <3>1. CASE m.type # "end" /\ handler' = handler
      BY SMTT(60), Z3T(60), <2>5, <3>1, Fields
    <3>2. CASE m.type = "end" /\ Deliver(m)
      <4>1. r # m.req
        BY ZenonT(60), <1>1, <2>4, <2>5, <3>2 DEF Deliver, TypeOK
      <4>2. handler'[r] = handler[r]
        BY ZenonT(60), <1>1, <3>2, <4>1 DEF Deliver, TypeOK
      <4> QED
        BY SMTT(60), Z3T(60), <2>5, <4>1, <4>2, Fields
    <3> QED
      BY ZenonT(60), <2>3, <3>1, <3>2
  <2>6. Queued' = Queued
    BY Zenon, <2>1 DEF Queued
  <2> QED
    BY ZenonT(60), <1>6, <2>1, <2>2, <2>5, <2>6 DEF Held
<1>13. CASE Read
  <2> DEFINE m == Head(down)
  <2>1. /\ session = "up" /\ down # <<>> /\ down' = Tail(down) /\ reader = None /\ Accepts(m)
        /\ UNCHANGED <<handler, out, writing, job, up>>
    BY ZenonT(60), <1>13 DEF Read, gatewayVars
  <2>2. m.type \in {"end", "ping"} => reader' = m
    BY ZenonT(60), <1>13, <2>1 DEF Read
  <2>3. Range(down) = Range(down') \cup {m}
    BY Zenon, <1>1, <2>1, TakeFromQueue DEF QueuesHold
  <2> HIDE DEF m
  <2>4. Queued \subseteq Queued' \cup {m}
    BY ZenonT(60), <2>1, <2>3 DEF Queued
  <2>5. \A r \in Requests : m = Msg("end", r) => reader' = Msg("end", r)
    BY ZenonT(60), <2>2, Fields
  <2> QED
    BY Zenon, <1>5, <1>6, <2>1, <2>4, <2>5 DEF Held
<1>14. CASE SendPong
  <2>1. /\ session = "up" /\ reader.type = "ping" /\ up' = Append(up, Msg("pong", None))
        /\ UNCHANGED <<handler, out, down, writing, job>>
    BY Zenon, <1>14 DEF SendPong, Send, Msg, gatewayVars
  <2>2. \A r : reader # Msg("end", r)
    BY SMTT(60), Z3T(60), <2>1, Fields
  <2>3. Range(up) \subseteq Range(up)' /\ Queued' = Queued
    <3>1. Msg("pong", None) \in UpMessage
      BY SMTT(60), Z3T(60) DEF UpMessage
    <3> QED
      BY SMTT(60), Z3T(60), <1>1, <2>1, <3>1, AppendToQueue DEF QueuesHold, Queued
  <2> QED
    BY ZenonT(60), <1>6, <2>1, <2>2, <2>3 DEF Held
<1>15. CASE Dispatch
  <2>1. PICK r \in Requests : reader = Msg("end", r)
    BY SMTT(60), Z3T(60), <1>1, <1>15, Fields DEF Dispatch, QueuesHold
  <2>2. reader.req = r /\ \A q \in Requests \ {r} : reader # Msg("end", q)
    BY SMTT(60), Z3T(60), <2>1, Fields
  <2>3. /\ session = "up" /\ job' = [job EXCEPT ![r] = "queued"]
        /\ UNCHANGED <<handler, out, down, writing, up>>
    BY ZenonT(60), <1>15, <2>2 DEF Dispatch, gatewayVars
  <2>4. job'[r] = "queued" /\ \A q \in Requests \ {r} : job'[q] = job[q]
    BY Zenon, <1>1, <2>3 DEF TypeOK
  <2>5. Queued' = Queued
    BY Zenon, <2>3 DEF Queued
  <2> QED
    BY ZenonT(60), <1>6, <2>2, <2>3, <2>4, <2>5 DEF Held
<1>16. CASE StartJob
  <2>1. /\ session = "up" /\ UNCHANGED <<handler, out, down, writing, reader, up>>
        /\ job' = [job EXCEPT ![Head(jobs)] = "local"]
    BY ZenonT(60), <1>16 DEF StartJob, gatewayVars
  <2>2. \A q \in Requests : job'[q] = job[q] \/ job'[q] = "local"
    BY <1>1, <2>1 DEF TypeOK
  <2>3. Queued' = Queued
    BY Zenon, <2>1 DEF Queued
  <2> QED
    BY Zenon, <1>6, <2>1, <2>2, <2>3 DEF Held
<1>17. ASSUME NEW r \in Requests, JobStep(r)
       PROVE  \A q \in Requests : handler'[q] = "waiting" => Held(q)'
  <2>1. session = "up" /\ UNCHANGED <<handler, out, down, writing, reader>>
    BY Zenon, <1>17
       DEF JobStep, LocalAnswers, LocalFails, SendChunk, BodyFails, SendEnd, Send, gatewayVars
  <2>2. Queued' = Queued
    BY Zenon, <2>1 DEF Queued
  <2>3. up' = up \/ \E x \in UpMessage : up' = Append(up, x) /\ (SendEnd(r) => x = Msg("end", r))
    <3>1. \A k \in {"ok", "error", "end"} : [type |-> k, req |-> r, seq |-> 0] \in UpMessage
      BY SMTT(60), Z3T(60) DEF UpMessage, Msg
    <3>2. [type |-> "chunk", req |-> r, seq |-> sent[r]] \in UpMessage
      BY SMTT(60), Z3T(60), <1>1 DEF UpMessage, Chunk, TypeOK
    <3>3. CASE SendEnd(r)
      BY Zenon, <3>1, <3>3 DEF SendEnd, Send, Msg
    <3>4. CASE LocalAnswers(r) \/ LocalFails(r)
      <4>1. ~SendEnd(r)
        BY Zenon, <3>4 DEF LocalAnswers, LocalFails, SendEnd
      <4> QED
        BY ZenonT(60), <3>1, <3>4, <4>1 DEF LocalAnswers, LocalFails, Send
    <3>5. CASE SendChunk(r)
      <4>1. ~SendEnd(r)
        BY ZenonT(60), <1>1, <3>5 DEF SendChunk, SendEnd, TypeOK
      <4> QED
        BY ZenonT(60), <3>2, <3>5, <4>1 DEF SendChunk, Send
    <3> QED
      BY ZenonT(60), <1>17, <3>3, <3>4, <3>5 DEF JobStep, BodyFails
  <2>4. \A x \in UpMessage : Range(Append(up, x)) = Range(up) \cup {x}
    BY SMTT(60), Z3T(60), <1>1, AppendToQueue DEF QueuesHold
  <2>5. Range(up) \subseteq Range(up)' /\ (SendEnd(r) => Msg("end", r) \in Range(up)' \/ up' = up)
    BY Zenon, <2>3, <2>4
  <2>6. SendEnd(r) => up' # up
    <3>1. \A x : Append(up, x) # up
      BY SMTT(60), Z3T(60), <1>1 DEF QueuesHold
    <3> QED
      BY ZenonT(60), <3>1 DEF SendEnd, Send
  <2>7. \A q \in Requests : \/ job[q] \in {"queued", "local", "body", "ending"}
                                 => job'[q] \in {"queued", "local", "body", "ending"}
                            \/ q = r /\ SendEnd(r)
    BY SMTT(60), Z3T(60), <1>1, <1>17 DEF JobStep, LocalAnswers, LocalFails, SendChunk, BodyFails, SendEnd, TypeOK
  <2> QED
    BY ZenonT(60), <1>6, <2>1, <2>2, <2>5, <2>6, <2>7 DEF Held
<1>18. ~Close
  BY DEF Close
<1> QED
  BY Zenon, <1>8, <1>9, <1>10, <1>11, <1>12, <1>13, <1>14, <1>15, <1>16, <1>17, <1>18
  DEF Next, GatewayStep, AgentStep, Terminated

\* No full queue, cancel or interleaving loses a request: while the session lives, a handler
\* that waits has its request in a queue or at a worker, or its response on the way back.
THEOREM RequestsAreKept == Spec => []NotLost
<1>1. Init => NotLost
  BY DEF Init, NotLost
<1> QED
  BY <1>1, FlowInOrder, TransitStep, PTL DEF Spec

--------------------------------------------------------------------------------
(* No protocol error *)

\* The limits under which neither end takes the other for a peer that violates the protocol.
Limits ==
    /\ IsFiniteSet(Requests) /\ Cardinality(Requests) <= MaxStreams
    /\ MaxConcurrent <= MaxResponses /\ MaxChunks <= BodyLimit

\* The agent's reader accepts the message it reads.
LEMMA ReaderAccepts ==
    ASSUME Limits, TypeOK, QueuesHold, DownOrdered, \A r \in Requests : RequestWay(r), down # <<>>
    PROVE  Accepts(Head(down))
<1> DEFINE m == Head(down)
<1>1. m \in DownMessage /\ m \in Queued /\ Range(down) = Range(Tail(down)) \cup {m}
  BY SMTT(60), Z3T(60), TakeFromQueue DEF QueuesHold, Queued
<1>2. \A x \in Queued : x = m \/ Before(m, x)
  <2>1. \A x \in Range(Tail(down)) : Before(m, x)
    BY Zenon, TakeFromQueue DEF QueuesHold, DownOrdered
  <2>2. m \in Range(down)
    BY <1>1
  <2> QED
    BY Zenon, <1>1, <2>1, <2>2 DEF DownOrdered, Queued
<1> HIDE DEF m
<1>3. CASE m.type = "start"
  <2>1. PICK r \in Requests : r = m.req /\ m = Msg("start", r)
    BY <1>1, <1>3, DownCases
  <2>2. r \notin streams
    BY ZenonT(60), <1>1, <2>1 DEF RequestWay
  <2>3. Cardinality(streams) < MaxStreams
    <3>1. streams \subseteq Requests \ {r}
      BY <2>2 DEF TypeOK
    <3>2. IsFiniteSet(Requests \ {r}) /\ Cardinality(Requests \ {r}) = Cardinality(Requests) - 1
      BY Zenon, FS_RemoveElement DEF Limits
    <3>3. Cardinality(streams) <= Cardinality(Requests \ {r}) /\ IsFiniteSet(streams)
      BY ZenonT(60), <3>1, <3>2, FS_Subset
    <3>4. Cardinality(streams) \in Nat /\ Cardinality(Requests) \in Nat /\ MaxStreams \in Nat
      BY <3>3, FS_CardinalityType, CapacityAssumption DEF Limits
    <3> QED
      BY SMTT(60), Z3T(60), <3>2, <3>3, <3>4 DEF Limits
  <2> QED
    BY Zenon, <1>3, <2>1, <2>2, <2>3 DEF Accepts, m
<1>4. CASE m.type = "end"
  <2>1. PICK r \in Requests : r = m.req /\ m = Msg("end", r)
    BY Zenon, <1>1, <1>4, DownCases
  <2>2. Msg("start", r) # m /\ ~Before(m, Msg("start", r))
    BY SMTT(60), Z3T(60), <1>4, <2>1, Fields DEF Before
  <2>3. r \in streams
    BY ZenonT(60), <1>1, <1>2, <2>1, <2>2 DEF RequestWay
  <2> QED
    BY Zenon, <1>4, <2>1, <2>3 DEF Accepts, m
<1>5. CASE m.type \notin {"start", "end"}
  BY <1>5 DEF Accepts, m
<1> QED
  BY Zenon, <1>3, <1>4, <1>5

\* The loop of serveSession accepts the message it receives.
LEMMA GatewayAccepts ==
    ASSUME Limits, TypeOK, QueuesHold, Ordered(up), \A r \in Requests : ResponseWay(r),
           RoomForResponses, up # <<>>
    PROVE  Valid(Head(up))
<1> DEFINE m == Head(up)
<1>1. m \in UpMessage /\ Range(up) = Range(Tail(up)) \cup {m}
  BY TakeFromQueue DEF QueuesHold
<1>2. \A x \in Range(up) : x = m \/ Before(m, x)
  BY Zenon, <1>1, TakeFromQueue DEF QueuesHold
<1>3. m \in Range(up)
  BY Zenon, <1>1
<1>4. m.type \in {"ok", "error"} => Cardinality(OpenAt(up, 1)) < MaxConcurrent
  BY SMTT(60), Z3T(60) DEF RoomForResponses, QueuesHold
<1> HIDE DEF m
<1>5. ASSUME NEW r \in Requests, m.req = r, m.type \in {"chunk", "end"}
      PROVE  ~Begins(r)
  <2>1. \A t \in {"ok", "error"} : Msg(t, r) # m /\ ~Before(m, Msg(t, r))
    BY SMTT(60), Z3T(60), <1>5, Fields DEF Before
  <2> QED
    BY ZenonT(60), <1>2, <2>1 DEF Begins
<1>6. CASE m.type \in {"ok", "error"}
  <2>1. OpenAt(up, 1) = Assembling
    BY SMTT(60), Z3T(60) DEF OpenAt, Assembling
  <2>2. IsFiniteSet(Assembling)
    <3>1. Assembling \subseteq Requests
      BY DEF Assembling
    <3> QED
      BY ZenonT(60), <3>1, FS_Subset DEF Limits
  <2>3. Cardinality(Assembling) < MaxResponses
    BY SMTT(60), Z3T(60), <1>4, <1>6, <2>1, <2>2, FS_CardinalityType, CapacityAssumption DEF Limits
  <2> QED
    BY ZenonT(60), <1>6, <2>3 DEF Valid, ValidStart, m
<1>7. CASE m.type = "chunk"
  <2>1. PICK r \in Requests : r = m.req /\ m.seq \in Nat /\ m = Chunk(r, m.seq)
    BY <1>1, <1>7, UpCases
  <2> DEFINE n == m.seq
  <2>2. /\ ResponseWay(r) /\ ~Begins(r) /\ next[r] \in Nat /\ sent[r] \in Nat /\ size[r] \in Nat
        /\ n \in Nat /\ Chunk(r, n) \in Range(up)
    BY Zenon, <1>3, <1>5, <1>7, <2>1 DEF TypeOK
  <2>3. Open(r) /\ Expected(r) <= n /\ n < sent[r]
    BY ZenonT(60), <2>2 DEF ResponseWay, ChunksOnWay
  <2>4. responses[r] # "none" /\ Expected(r) = next[r]
    BY Zenon, <2>2, <2>3 DEF Open, Expected
  <2>5. responses[r] = "ok"
    <3>1. responses[r] \in {"none", "ok", "error"}
      BY Zenon DEF TypeOK
    <3>2. sent[r] # 0
      BY SMTT(60), Z3T(60), <2>2, <2>3
    <3>3. responses[r] # "error"
      BY Zenon, <2>2, <3>2 DEF ResponseWay, SentSoFar
    <3> QED
      BY Zenon, <2>4, <3>1, <3>3
  <2>6. n = next[r]
    <3>0. next[r] <= n
      BY ZenonT(60), <2>3, <2>4
    <3>1. SUFFICES ASSUME next[r] < n
                   PROVE  FALSE
      BY SMTT(60), Z3T(60), <2>2, <3>0
    <3>2. Chunk(r, next[r]) \in Range(up)
      <4>1. Expected(r) <= next[r] /\ next[r] < sent[r]
        BY SMTT(60), Z3T(60), <2>2, <2>3, <2>4, <3>1
      <4> QED
        BY ZenonT(60), <2>2, <2>3, <4>1 DEF ResponseWay, ChunksOnWay
    <3>3. Chunk(r, next[r]) # m /\ ~Before(m, Chunk(r, next[r]))
      <4>1. m.seq # next[r] /\ ~(m.seq < next[r])
        BY SMTT(60), Z3T(60), <2>2, <3>1
      <4>2. \A i : Chunk(r, i).seq = i /\ Chunk(r, i).req = r /\ Chunk(r, i).type = "chunk"
        BY ZenonT(60), Fields
      <4> QED
        BY ZenonT(60), <1>7, <2>1, <4>1, <4>2 DEF Before
    <3> QED
      BY ZenonT(60), <1>2, <3>2, <3>3
  <2>7. next[r] < BodyLimit
    <3>1. sent[r] <= size[r] /\ size[r] <= MaxChunks
      BY ZenonT(60), <2>2 DEF ResponseWay, SentSoFar
    <3> QED
      BY SMTT(60), Z3T(60), <2>2, <2>3, <2>6, <3>1, CapacityAssumption DEF Limits
  <2> QED
    BY ZenonT(60), <1>7, <2>1, <2>5, <2>6, <2>7 DEF Valid, ValidChunk, m
<1>8. CASE m.type = "end"
  <2>1. PICK r \in Requests : r = m.req /\ m = Msg("end", r)
    BY Zenon, <1>1, <1>8, UpCases
  <2>2. Open(r) /\ ~Begins(r)
    BY Zenon, <1>3, <1>5, <1>8, <2>1 DEF ResponseWay, EndOnWay
  <2>3. r \in Assembling
    BY Zenon, <2>2 DEF Open, Assembling
  <2> QED
    BY ZenonT(60), <1>8, <2>1, <2>3 DEF Valid, ValidEnd, m
<1>9. CASE m.type = "pong"
  BY ZenonT(60), <1>9 DEF Valid, m
<1> QED
  BY Zenon, <1>1, <1>6, <1>7, <1>8, <1>9, UpCases

\* A subset of the requests has no more members than a larger subset.
LEMMA FewerRequests ==
    ASSUME Limits, NEW S \in SUBSET Requests, NEW T \in SUBSET S
    PROVE  /\ IsFiniteSet(S) /\ Cardinality(S) \in Nat /\ Cardinality(T) \in Nat
           /\ Cardinality(T) <= Cardinality(S)
           /\ \A r \in S : Cardinality(S \ {r}) = Cardinality(S) - 1
<1>1. IsFiniteSet(S)
  BY Zenon, FS_Subset DEF Limits
<1>2. IsFiniteSet(T) /\ Cardinality(T) <= Cardinality(S)
  BY ZenonT(60), <1>1, FS_Subset
<1>3. \A r \in S : Cardinality(S \ {r}) = Cardinality(S) - 1
  BY Zenon, <1>1, FS_RemoveElement
<1> QED
  BY Zenon, <1>1, <1>2, <1>3, FS_CardinalityType

\* A message that is appended leaves room for the responses before it.
LEMMA RoomAfterSend ==
    ASSUME Limits, QueuesHold, RoomForResponses, NEW m \in UpMessage, up' = Append(up, m),
           responses' = responses, Running' \subseteq Running,
           m.type \in {"ok", "error"} => Cardinality(OpenAt(up, Len(up) + 1)) < MaxConcurrent
    PROVE  RoomForResponses'
<1>1. /\ Len(up) \in Nat /\ Len(up') = Len(up) + 1 /\ up'[Len(up) + 1] = m
      /\ \A i \in 1..Len(up) : up'[i] = up[i]
  BY SMTT(60), Z3T(60) DEF QueuesHold
<1>2. ASSUME NEW i \in 1..(Len(up) + 1)
      PROVE  OpenAt(up, i)' = OpenAt(up, i)
  <2>1. \A j \in 1..(i - 1) : up'[j] = up[j]
    BY SMTT(60), Z3T(60), <1>1
  <2> QED
    BY ZenonT(60), <2>1 DEF OpenAt
<1>3. ASSUME NEW i \in 1..Len(up'), up'[i].type \in {"ok", "error"}
      PROVE  Cardinality(OpenAt(up, i)') < MaxConcurrent
  <2>1. CASE i = Len(up) + 1
    BY Zenon, <1>1, <1>2, <1>3, <2>1
  <2>2. CASE i # Len(up) + 1
    <3>1. i \in 1..Len(up) /\ i \in 1..(Len(up) + 1) /\ up'[i] = up[i]
      BY SMTT(60), Z3T(60), <1>1, <2>2
    <3> QED
      BY Zenon, <1>2, <1>3, <3>1 DEF RoomForResponses
  <2> QED
    BY ZenonT(60), <2>1, <2>2
<1>4. Cardinality(Running)' <= MaxConcurrent
  <2>1. Running \subseteq Requests
    BY DEF Running
  <2>2. /\ Cardinality(Running) \in Nat /\ Cardinality(Running)' \in Nat
        /\ Cardinality(Running)' <= Cardinality(Running)
    BY Zenon, <2>1, FewerRequests
  <2> QED
    BY SMTT(60), Z3T(60), <2>2, CapacityAssumption DEF RoomForResponses
<1> QED
  BY Zenon, <1>3, <1>4 DEF RoomForResponses

\* A message that the gateway receives leaves room for the responses after it.
LEMMA RoomAfterReceive ==
    ASSUME Limits, TypeOK, QueuesHold, Ordered(up), RoomForResponses, Receive, session' = "up"
    PROVE  RoomForResponses'
<1> DEFINE m == Head(up)
<1>1. up # <<>> /\ up' = Tail(up) /\ Valid(m) /\ job' = job
  BY Zenon DEF Receive, agentVars
<1>2. /\ Len(up) \in Nat /\ Len(up') = Len(up) - 1 /\ m = up[1] /\ m \in UpMessage
      /\ \A i \in 1..Len(up') : i + 1 \in 1..Len(up) /\ up'[i] = up[i + 1]
  BY SMTT(60), Z3T(60), <1>1 DEF QueuesHold
<1>3. \A i \in 1..Len(up') : Before(m, up'[i])
  BY SMTT(60), Z3T(60), <1>2 DEF Ordered
<1>4. /\ m.type = "pong" => responses' = responses
      /\ m.type \in {"ok", "error"} => Assemble(m)
      /\ m.type = "chunk" => AddChunk(m)
      /\ m.type = "end" => Deliver(m)
  BY ZenonT(60), <1>1 DEF Receive
<1> HIDE DEF m
<1>5. ASSUME NEW r \in Requests
      PROVE  /\ responses'[r] # "none" =>
                    responses[r] # "none" \/ m \in {Msg("ok", r), Msg("error", r)}
             /\ m = Msg("end", r) => responses'[r] = "none"
  <2>1. CASE m.type \in {"ok", "error"}
    <3>1. r = m.req => m \in {Msg("ok", r), Msg("error", r)}
      BY Zenon, <1>2, <2>1, UpCases
    <3>2. r # m.req => responses'[r] = responses[r]
      BY ZenonT(60), <1>4, <2>1 DEF Assemble, TypeOK
    <3> QED
      BY SMTT(60), Z3T(60), <2>1, <3>1, <3>2, Fields
  <2>2. CASE m.type \in {"chunk", "pong"}
    BY SMTT(60), Z3T(60), <1>4, <2>2, Fields DEF AddChunk
  <2>3. CASE m.type = "end"
    <3>1. responses' = [responses EXCEPT ![m.req] = "none"]
      BY Zenon, <1>4, <2>3 DEF Deliver
    <3>2. responses'[r] = (IF r = m.req THEN "none" ELSE responses[r])
      BY <3>1 DEF TypeOK
    <3>3. m = Msg("end", r) => r = m.req
      BY SMTT(60), Z3T(60), Fields
    <3> QED
      BY Zenon, <3>2, <3>3
  <2> QED
    BY Zenon, <1>2, <2>1, <2>2, <2>3, UpCases
<1>6. ASSUME NEW i \in 1..Len(up'), NEW r \in OpenAt(up, i)'
      PROVE  r \in OpenAt(up, i + 1)
  <2>1. /\ r \in Requests
        /\ responses'[r] # "none" \/ \E j \in 1..(i - 1) : up'[j] \in {Msg("ok", r), Msg("error", r)}
        /\ \A j \in 1..(i - 1) : up'[j] # Msg("end", r)
    BY ZenonT(60), <1>6 DEF OpenAt
  <2>2. \A j \in 1..(i - 1) : j \in 1..Len(up') /\ up'[j] = up[j + 1] /\ j + 1 \in 1..i
    BY SMTT(60), Z3T(60), <1>2
  <2>3. 1 \in 1..i /\ m = up[1]
    BY SMTT(60), Z3T(60), <1>2
  <2>4. responses[r] # "none" \/ \E j \in 1..i : up[j] \in {Msg("ok", r), Msg("error", r)}
    BY ZenonT(60), <1>5, <2>1, <2>2, <2>3
  <2>5. m # Msg("end", r)
    <3>1. SUFFICES ASSUME m = Msg("end", r)
                   PROVE  FALSE
      BY Zenon
    <3>2. PICK j \in 1..(i - 1) : up'[j] \in {Msg("ok", r), Msg("error", r)}
      BY Zenon, <1>5, <2>1, <3>1
    <3>3. Before(m, up'[j])
      BY ZenonT(60), <1>3, <2>2
    <3> QED
      BY SMTT(60), Z3T(60), <2>1, <3>1, <3>2, <3>3, Fields DEF Before
  <2>6. ASSUME NEW j \in 1..i
        PROVE  up[j] # Msg("end", r)
    <3>1. CASE j = 1
      BY ZenonT(60), <2>3, <2>5, <3>1
    <3>2. CASE j # 1
      <4>1. j - 1 \in 1..(i - 1) /\ (j - 1) + 1 = j
        BY SMTT(60), Z3T(60), <3>2
      <4> QED
        BY Zenon, <2>1, <2>2, <4>1
    <3> QED
      BY ZenonT(60), <3>1, <3>2
  <2>7. i + 1 - 1 = i
    BY SMTT(60), Z3T(60), <1>2
  <2> QED
    BY SMTT(60), Z3T(60), <2>1, <2>4, <2>6, <2>7 DEF OpenAt
<1>7. ASSUME NEW i \in 1..Len(up'), up'[i].type \in {"ok", "error"}
      PROVE  Cardinality(OpenAt(up, i)') < MaxConcurrent
  <2>1. Cardinality(OpenAt(up, i + 1)) < MaxConcurrent
    BY Zenon, <1>2, <1>7 DEF RoomForResponses
  <2>2. OpenAt(up, i + 1) \subseteq Requests /\ OpenAt(up, i)' \subseteq OpenAt(up, i + 1)
    BY Zenon, <1>6 DEF OpenAt
  <2>3. /\ Cardinality(OpenAt(up, i + 1)) \in Nat /\ Cardinality(OpenAt(up, i)') \in Nat
        /\ Cardinality(OpenAt(up, i)') <= Cardinality(OpenAt(up, i + 1))
    BY Zenon, <2>2, FewerRequests
  <2> QED
    BY SMTT(60), Z3T(60), <2>1, <2>3, CapacityAssumption
<1>8. Running' = Running
  BY ZenonT(60), <1>1 DEF Running
<1> QED
  BY ZenonT(60), <1>7, <1>8 DEF RoomForResponses

\* Every step leaves room for the responses that have been sent.
LEMMA RoomStep ==
    ASSUME Limits, TypeOK, QueuesHold, Ordered(up), JobsQueued, RoomForResponses,
           \A r \in Requests : RequestWay(r) /\ ResponseWay(r), [Next]_vars, session' = "up"
    PROVE  RoomForResponses'
<1>0. /\ Running \subseteq Requests /\ MaxConcurrent \in Nat
      /\ Cardinality(Running) \in Nat /\ Cardinality(Running) <= MaxConcurrent
  <2>1. Running \subseteq Requests
    BY DEF Running
  <2> QED
    BY <2>1, FewerRequests, CapacityAssumption DEF RoomForResponses
<1>1. ASSUME UNCHANGED <<up, responses>>, Cardinality(Running)' <= MaxConcurrent
      PROVE  RoomForResponses'
  BY Zenon, <1>1 DEF RoomForResponses, OpenAt
<1>2. ASSUME UNCHANGED <<up, responses>>, Running' \subseteq Running
      PROVE  RoomForResponses'
  <2>1. Cardinality(Running)' \in Nat /\ Cardinality(Running)' <= Cardinality(Running)
    BY Zenon, <1>0, <1>2, FewerRequests
  <2>2. Cardinality(Running)' <= MaxConcurrent
    BY SMTT(60), Z3T(60), <1>0, <2>1
  <2> QED
    BY ZenonT(60), <1>1, <1>2, <2>2
<1>3. job' = job => Running' = Running
  BY ZenonT(60) DEF Running
<1>4. CASE UNCHANGED vars
  BY Zenon, <1>2, <1>3, <1>4 DEF vars, gatewayVars, agentVars
<1>5. ASSUME NEW r \in Requests, HandlerStep(r)
      PROVE  RoomForResponses'
  BY Zenon, <1>2, <1>3, <1>5 DEF HandlerStep, QueueStart, QueueEnd, Queue, GiveUp, agentVars
<1>6. CASE Tick \/ TakeOutbound \/ Write \/ Read
  BY ZenonT(60), <1>2, <1>3, <1>6 DEF Tick, TakeOutbound, Write, Read, gatewayVars, agentVars
<1>7. CASE Receive
  BY Zenon, <1>7, RoomAfterReceive
<1>8. CASE SendPong
  <2>1. up' = Append(up, Msg("pong", None)) /\ UNCHANGED <<responses, job>>
    BY ZenonT(60), <1>8 DEF SendPong, Send, Msg, gatewayVars
  <2>2. Msg("pong", None) \in UpMessage /\ Msg("pong", None).type \notin {"ok", "error"}
    BY SMTT(60), Z3T(60), Fields DEF UpMessage
  <2> QED
    BY Zenon, <1>3, <2>1, <2>2, RoomAfterSend
<1>9. CASE Dispatch
  <2>1. job' = [job EXCEPT ![reader.req] = "queued"] /\ UNCHANGED <<up, responses>>
    BY ZenonT(60), <1>9 DEF Dispatch, gatewayVars
  <2>2. Running' \subseteq Running
    BY <2>1 DEF Running, TypeOK
  <2> QED
    BY Zenon, <1>2, <2>1, <2>2
<1>10. CASE StartJob
  <2> DEFINE h == Head(jobs)
  <2>1. /\ job' = [job EXCEPT ![h] = "local"] /\ UNCHANGED <<up, responses>>
        /\ Cardinality(Running) < MaxConcurrent
    BY ZenonT(60), <1>10 DEF StartJob, gatewayVars
  <2>2. h \in Requests /\ job[h] = "queued"
    BY SMTT(60), Z3T(60), <1>10 DEF StartJob, TypeOK, JobsQueued
  <2>3. h \notin Running /\ Running' = Running \cup {h}
    BY ZenonT(60), <2>1, <2>2 DEF Running, TypeOK
  <2>4. IsFiniteSet(Running)
    BY Zenon, <1>0, FewerRequests
  <2>5. Cardinality(Running \cup {h}) = Cardinality(Running) + 1
    BY <2>3, <2>4, FS_AddElement
  <2>6. Cardinality(Running)' = Cardinality(Running) + 1
    BY ZenonT(60), <2>3, <2>5
  <2> QED
    BY SMTT(60), Z3T(60), <1>0, <1>1, <2>1, <2>6
<1>11. ASSUME NEW r \in Requests, JobStep(r)
       PROVE  RoomForResponses'
  <2>1. Running' \subseteq Running /\ responses' = responses
    BY ZenonT(60), <1>11
       DEF JobStep, LocalAnswers, LocalFails, SendChunk, BodyFails, SendEnd, Running, TypeOK,
           gatewayVars
  <2>2. CASE LocalAnswers(r) \/ LocalFails(r)
    <3>1. PICK t \in {"ok", "error"} : up' = Append(up, Msg(t, r))
      BY Zenon, <2>2 DEF LocalAnswers, LocalFails, Send, Msg
    <3>2. job[r] = "local" /\ r \in Running
      BY Zenon, <2>2 DEF LocalAnswers, LocalFails, Running
    <3>3. ASSUME NEW q \in OpenAt(up, Len(up) + 1)
          PROVE  q \in Running \ {r}
      <4>1. /\ Len(up) \in Nat /\ Len(up) + 1 - 1 = Len(up) /\ DOMAIN up = 1..Len(up)
        BY SMTT(60), Z3T(60) DEF QueuesHold
      <4>2. /\ q \in Requests
            /\ responses[q] # "none" \/ \E j \in 1..Len(up) : up[j] \in {Msg("ok", q), Msg("error", q)}
            /\ \A j \in 1..Len(up) : up[j] # Msg("end", q)
        BY SMTT(60), Z3T(60), <3>3, <4>1 DEF OpenAt
      <4>3. Open(q) /\ Msg("end", q) \notin Range(up)
        BY Zenon, <4>1, <4>2 DEF Open, Begins, Range
      <4>4. job[q] \in {"body", "ending"}
        BY Zenon, <4>2, <4>3 DEF ResponseWay, EndOnWay
      <4> QED
        BY ZenonT(60), <3>2, <4>2, <4>4 DEF Running
    <3>4. /\ Cardinality(Running \ {r}) = Cardinality(Running) - 1
          /\ Cardinality(Running \ {r}) \in Nat
          /\ Cardinality(OpenAt(up, Len(up) + 1)) <= Cardinality(Running \ {r})
          /\ Cardinality(OpenAt(up, Len(up) + 1)) \in Nat
      <4>1. OpenAt(up, Len(up) + 1) \subseteq Running \ {r} /\ Running \ {r} \subseteq Requests
        BY ZenonT(60), <1>0, <3>3
      <4> QED
        BY ZenonT(60), <1>0, <3>2, <4>1, FewerRequests
    <3>5. Cardinality(OpenAt(up, Len(up) + 1)) < MaxConcurrent
      BY SMTT(60), Z3T(60), <1>0, <3>4
    <3>6. Msg(t, r) \in UpMessage
      BY SMTT(60), Z3T(60) DEF UpMessage
    <3> QED
      BY Zenon, <2>1, <3>1, <3>5, <3>6, RoomAfterSend
  <2>3. CASE SendChunk(r)
    <3>1. up' = Append(up, Chunk(r, sent[r]))
      BY ZenonT(60), <2>3 DEF SendChunk, Send, Chunk
    <3>2. Chunk(r, sent[r]) \in UpMessage /\ Chunk(r, sent[r]).type \notin {"ok", "error"}
      BY SMTT(60), Z3T(60), Fields DEF UpMessage, TypeOK
    <3> QED
      BY ZenonT(60), <2>1, <3>1, <3>2, RoomAfterSend
  <2>4. CASE SendEnd(r)
    <3>1. up' = Append(up, Msg("end", r))
      BY ZenonT(60), <2>4 DEF SendEnd, Send, Msg
    <3>2. Msg("end", r) \in UpMessage /\ Msg("end", r).type \notin {"ok", "error"}
      BY SMTT(60), Z3T(60), Fields DEF UpMessage
    <3> QED
      BY ZenonT(60), <2>1, <3>1, <3>2, RoomAfterSend
  <2>5. CASE BodyFails(r)
    BY ZenonT(60), <1>2, <2>1, <2>5 DEF BodyFails
  <2> QED
    BY ZenonT(60), <1>11, <2>2, <2>3, <2>4, <2>5 DEF JobStep
<1>12. ~Close
  BY DEF Close
<1> QED
  BY ZenonT(60), <1>4, <1>5, <1>6, <1>7, <1>8, <1>9, <1>10, <1>11, <1>12
  DEF Next, GatewayStep, AgentStep, Terminated

\* While the limits hold no check closes the session, and room is kept.
Accepted == NoProtocolError /\ (session = "up" => RoomForResponses)

LEMMA AcceptedStep ==
    ASSUME Limits, FlowInvariant, Accepted, [Next]_vars
    PROVE  Accepted'
<1>1. TypeOK /\ QueuesHold
  BY Zenon DEF FlowInvariant
<1>2. session = "up" => /\ DownOrdered /\ Ordered(up) /\ JobsQueued /\ RoomForResponses
                        /\ \A r \in Requests : RequestWay(r) /\ ResponseWay(r)
  BY Zenon DEF FlowInvariant, Accepted
<1>3. session' = session \/ (session = "up" /\ session' \in {"up", "closed"})
  <2>1. CASE UNCHANGED vars
    BY Zenon, <2>1 DEF vars
  <2>2. ASSUME NEW r \in Requests, HandlerStep(r) \/ JobStep(r)
        PROVE  session' = session
    BY Zenon, <2>2 DEF HandlerStep, QueueStart, QueueEnd, Queue, GiveUp,
       JobStep, LocalAnswers, LocalFails, SendChunk, BodyFails, SendEnd
  <2>3. CASE Tick \/ TakeOutbound \/ Write \/ SendPong \/ Dispatch \/ StartJob
    BY Zenon, <2>3 DEF Tick, TakeOutbound, Write, SendPong, Dispatch, StartJob
  <2>4. CASE Receive
    <3>1. session = "up" /\ up # <<>>
      BY Zenon, <2>4 DEF Receive, Selecting
    <3>2. Valid(Head(up))
      BY ZenonT(60), <1>1, <1>2, <3>1, GatewayAccepts
    <3> QED
      BY Zenon, <2>4, <3>1, <3>2 DEF Receive
  <2>5. CASE Read
    <3>1. session = "up" /\ down # <<>>
      BY Zenon, <2>5 DEF Read
    <3>2. Accepts(Head(down))
      BY Zenon, <1>1, <1>2, <3>1, ReaderAccepts
    <3> QED
      BY Zenon, <2>5, <3>1, <3>2 DEF Read
  <2>6. CASE Close
    BY Zenon, <2>6 DEF Close
  <2> QED
    BY ZenonT(60), <2>1, <2>2, <2>3, <2>4, <2>5, <2>6 DEF Next, GatewayStep, AgentStep, Terminated
<1>4. session' # "rejected"
  BY <1>3 DEF Accepted, NoProtocolError
<1>5. ASSUME session' = "up"
      PROVE  RoomForResponses'
  BY ZenonT(60), <1>1, <1>2, <1>3, <1>5, RoomStep
<1> QED
  BY Zenon, <1>4, <1>5 DEF Accepted, NoProtocolError

\* Gateway and agent never take each other for a peer that violates the protocol, if the
\* agent runs no more workers than the gateway assembles responses, has room for the streams
\* of all the requests, and bodies are within the gateway's limit: whatever the capacities of
\* the queues are, no check of serveSession or of Connect closes the session.
THEOREM ProtocolIsKept ==
    ASSUME IsFiniteSet(Requests), Cardinality(Requests) <= MaxStreams,
           MaxConcurrent <= MaxResponses, MaxChunks <= BodyLimit
    PROVE  Spec => []NoProtocolError
<1>1. Limits
  BY ZenonT(60) DEF Limits
<1>2. Init => Accepted
  <2> SUFFICES ASSUME Init PROVE Accepted
    OBVIOUS
  <2>1. Running = {} /\ Len(up) = 0 /\ session = "up"
    BY DEF Init, Running
  <2>2. Cardinality(Running) <= MaxConcurrent
    BY SMTT(60), Z3T(60), <2>1, FS_EmptySet, CapacityAssumption
  <2> QED
    <3>1. NoProtocolError
      BY Zenon, <2>1 DEF NoProtocolError
    <3>2. 1..Len(up) = {}
      BY SMTT(60), Z3T(60), <2>1
    <3>3. RoomForResponses
      BY ZenonT(60), <2>2, <3>2 DEF RoomForResponses
    <3> QED
      BY Zenon, <3>1, <3>3 DEF Accepted
<1>3. FlowInvariant /\ Accepted /\ [Next]_vars => Accepted'
  BY Zenon, <1>1, AcceptedStep
<1>4. Accepted => NoProtocolError
  BY Zenon DEF Accepted
<1> QED
  BY <1>2, <1>3, <1>4, FlowInOrder, PTL DEF Spec

--------------------------------------------------------------------------------
(* Who waits for whom *)

\* Every job that is queued is in the channel of jobs, and finitely many are running.
JobsHeld ==
    /\ \A r \in Requests : job[r] = "queued" => \E i \in 1..Len(jobs) : jobs[i] = r
    /\ IsFiniteSet(Running)

\* No step loses a queued job.
LEMMA HeldStep == TypeOK /\ JobsHeld /\ [Next]_vars => JobsHeld'
<1> SUFFICES ASSUME TypeOK, JobsHeld, [Next]_vars PROVE JobsHeld'
  OBVIOUS
<1>0. /\ jobs \in Seq(Requests) /\ Len(jobs) \in Nat /\ job \in [Requests -> Jobs]
      /\ \A i \in 1..Len(jobs) : jobs[i] \in Requests
  BY SMTT(60), Z3T(60) DEF TypeOK
<1>1. ASSUME NEW x, \A q \in Requests \ {x} : job'[q] = job[q] \/ job[q] \in {"local", "body", "ending"}
      PROVE  IsFiniteSet(Running')
  <2>1. Running' \subseteq Running \cup {x}
    BY Zenon, <1>1 DEF Running
  <2>2. IsFiniteSet(Running \cup {x})
    BY Zenon, FS_AddElement DEF JobsHeld
  <2> QED
    BY Zenon, <2>1, <2>2, FS_Subset
<1>2. ASSUME jobs' = jobs,
             \A q \in Requests : job'[q] = job[q]
                \/ (job[q] \in {"local", "body", "ending"} /\ job'[q] # "queued")
      PROVE  JobsHeld'
  <2>1. IsFiniteSet(Running')
    BY Zenon, <1>1, <1>2
  <2> QED
    BY Zenon, <1>2, <2>1 DEF JobsHeld
<1>3. CASE UNCHANGED vars
  BY Zenon, <1>2, <1>3 DEF vars, agentVars
<1>4. ASSUME NEW r \in Requests, HandlerStep(r)
      PROVE  JobsHeld'
  BY ZenonT(60), <1>2, <1>4 DEF HandlerStep, QueueStart, QueueEnd, Queue, GiveUp, agentVars
<1>5. CASE GatewayStep \/ Read \/ SendPong \/ Close
  BY Zenon, <1>2, <1>5
     DEF GatewayStep, Tick, TakeOutbound, Write, Receive, Read, SendPong, Close, agentVars
<1>6. CASE Dispatch
  <2>1. jobs' = Append(jobs, reader.req) /\ job' = [job EXCEPT ![reader.req] = "queued"]
    BY Zenon, <1>6 DEF Dispatch
  <2>2. /\ Len(jobs) + 1 \in 1..Len(jobs') /\ jobs'[Len(jobs) + 1] = reader.req
        /\ \A i \in 1..Len(jobs) : jobs'[i] = jobs[i] /\ i \in 1..Len(jobs')
    <3> DEFINE x == reader.req
    <3>1. jobs' = Append(jobs, x)
      BY Zenon, <2>1
    <3> HIDE DEF x
    <3>2. /\ Len(jobs) + 1 \in 1..Len(jobs') /\ jobs'[Len(jobs) + 1] = x
          /\ \A i \in 1..Len(jobs) : jobs'[i] = jobs[i] /\ i \in 1..Len(jobs')
      BY SMTT(60), Z3T(60), <1>0, <3>1
    <3> QED
      BY Zenon, <3>2 DEF x
  <2>3. \A q \in Requests : q # reader.req => job'[q] = job[q]
    BY Zenon, <1>0, <2>1
  <2>4. IsFiniteSet(Running')
    BY Zenon, <1>1, <2>3
  <2> QED
    BY Zenon, <2>2, <2>3, <2>4 DEF JobsHeld
<1>7. CASE StartJob
  <2>1. jobs # <<>> /\ jobs' = Tail(jobs) /\ job' = [job EXCEPT ![Head(jobs)] = "local"]
    BY Zenon, <1>7 DEF StartJob
  <2>2. /\ Head(jobs) = jobs[1] /\ Head(jobs) \in Requests
        /\ \A i \in 1..Len(jobs) : i = 1 \/ (i - 1 \in 1..Len(jobs') /\ jobs'[i - 1] = jobs[i])
    BY SMTT(60), Z3T(60), <1>0, <2>1
  <2>3. job'[Head(jobs)] = "local" /\ \A q \in Requests : q # Head(jobs) => job'[q] = job[q]
    BY Zenon, <1>0, <2>1, <2>2
  <2>4. IsFiniteSet(Running')
    BY Zenon, <1>1, <2>3
  <2>5. ASSUME NEW q \in Requests, job'[q] = "queued"
        PROVE  \E i \in 1..Len(jobs') : jobs'[i] = q
    <3>1. q # Head(jobs) /\ job[q] = "queued"
      BY <2>3, <2>5
    <3>2. PICK i \in 1..Len(jobs) : jobs[i] = q
      BY Zenon, <3>1 DEF JobsHeld
    <3> QED
      BY Zenon, <2>2, <3>1, <3>2
  <2> QED
    BY Zenon, <2>4, <2>5 DEF JobsHeld
<1>8. ASSUME NEW r \in Requests, JobStep(r)
      PROVE  JobsHeld'
  <2>1. jobs' = jobs /\ job[r] \in {"local", "body", "ending"}
    BY ZenonT(60), <1>8 DEF JobStep, LocalAnswers, LocalFails, SendChunk, BodyFails, SendEnd
  <2>2. job' = job \/ \E to \in {"body", "ending", "done"} : job' = [job EXCEPT ![r] = to]
    BY ZenonT(60), <1>8 DEF JobStep, LocalAnswers, LocalFails, SendChunk, BodyFails, SendEnd
  <2>3. job'[r] # "queued" /\ \A q \in Requests \ {r} : job'[q] = job[q]
    BY SMTT(60), Z3T(60), <1>0, <2>1, <2>2
  <2> QED
    BY Zenon, <1>2, <2>1, <2>3
<1> QED
  BY ZenonT(60), <1>3, <1>4, <1>5, <1>6, <1>7, <1>8 DEF Next, AgentStep, Terminated

\* So it is in every reachable state.
LEMMA AlwaysHeld == Spec => []JobsHeld
<1>1. Init => JobsHeld
  <2> SUFFICES ASSUME Init PROVE JobsHeld
    OBVIOUS
  <2>1. Running = {} /\ \A q \in Requests : job[q] # "queued"
    BY Zenon DEF Init, Running
  <2> QED
    BY Zenon, <2>1, FS_EmptySet DEF JobsHeld
<1>2. FlowInvariant => TypeOK
  BY Zenon DEF FlowInvariant
<1> QED
  BY <1>1, <1>2, HeldStep, FlowInOrder, PTL DEF Spec

\* When nothing of the agent can go on, a request that it has waits for room in up, and so
\* does its reader.
LEMMA AgentWaits ==
    ASSUME TypeOK, QueuesHold, JobsHeld, ~CanGoOn
    PROVE  /\ \A r \in Requests : job[r] \in {"queued", "local", "body", "ending"}
                                      => Len(up) >= UpCapacity
           /\ reader # None => /\ Len(up) >= UpCapacity
                               /\ reader.type = "end" => /\ Len(jobs) >= MaxConcurrent
                                                         /\ Cardinality(Running) >= MaxConcurrent
<1>0. /\ Len(jobs) \in Nat /\ Len(up) \in Nat /\ MaxConcurrent \in Nat \ {0} /\ UpCapacity \in Nat
      /\ jobs = <<>> <=> Len(jobs) = 0
  BY SMTT(60), Z3T(60), CapacityAssumption DEF TypeOK
<1>1. Cardinality(Running) \in Nat
  BY Zenon, FS_CardinalityType DEF JobsHeld
<1>2. CASE Running = {}
  <2>1. Cardinality(Running) = 0
    BY Zenon, <1>2, FS_EmptySet
  <2>2. jobs = <<>>
    BY SMTT(60), Z3T(60), <1>0, <2>1 DEF CanGoOn
  <2>3. \A r \in Requests : job[r] \notin {"queued", "local", "body", "ending"}
    <3>1. \A r \in Requests : job[r] # "queued"
      BY SMTT(60), Z3T(60), <1>0, <2>2 DEF JobsHeld
    <3> QED
      BY Zenon, <1>2, <3>1 DEF Running
  <2>4. Len(jobs) < MaxConcurrent
    BY SMTT(60), Z3T(60), <1>0, <2>2
  <2>5. reader # None => reader.type = "ping" /\ ~(Len(up) < UpCapacity)
    <3>1. reader # None => reader.type \in {"end", "ping"}
      BY SMTT(60), Z3T(60), Fields DEF QueuesHold
    <3> QED
      BY Zenon, <2>4, <3>1 DEF CanGoOn
  <2>6. reader # None => Len(up) >= UpCapacity /\ reader.type # "end"
    BY SMTT(60), Z3T(60), <1>0, <2>5
  <2> QED
    BY Zenon, <2>3, <2>6
<1>3. CASE Running # {}
  <2>1. Len(up) >= UpCapacity
    BY SMTT(60), Z3T(60), <1>0, <1>3 DEF CanGoOn
  <2>2. ASSUME reader # None, reader.type = "end"
        PROVE  Len(jobs) >= MaxConcurrent /\ Cardinality(Running) >= MaxConcurrent
    <3>1. Len(jobs) >= MaxConcurrent /\ jobs # <<>>
      BY SMTT(60), Z3T(60), <1>0, <2>2 DEF CanGoOn
    <3>2. ~(Cardinality(Running) < MaxConcurrent)
      BY Zenon, <3>1 DEF CanGoOn
    <3> QED
      BY SMTT(60), Z3T(60), <1>0, <1>1, <3>1, <3>2
  <2> QED
    BY Zenon, <2>1, <2>2
<1> QED
  BY Zenon, <1>2, <1>3

\* A request that a handler waits for is somewhere, and what could move it waits too.
LEMMA WaitIsWedge == FlowInvariant /\ NotLost /\ JobsHeld => OnlyWedged
<1> SUFFICES ASSUME FlowInvariant, NotLost, JobsHeld, session = "up", ~CanGoOn,
                    NEW r \in Requests, handler[r] = "waiting"
             PROVE  Wedged
  BY Zenon DEF OnlyWedged
<1>0. TypeOK /\ QueuesHold
  BY Zenon DEF FlowInvariant
<1>1. /\ Len(up) \in Nat /\ Len(down) \in Nat /\ UpCapacity \in Nat \ {0} /\ DownCapacity \in Nat \ {0}
      /\ up # <<>> <=> Len(up) # 0
      /\ down # <<>> <=> Len(down) # 0
  <2>1. up \in Seq(UpMessage) /\ down \in Seq(DownMessage)
    BY Zenon, <1>0 DEF QueuesHold
  <2> QED
    BY SMTT(60), Z3T(60), <2>1, CapacityAssumption
<1>2. \/ Msg("end", r) \in Queued \/ reader = Msg("end", r)
      \/ job[r] \in {"queued", "local", "body", "ending"}
      \/ Msg("end", r) \in Range(up)
  BY Zenon, <1>0, TransitPlaces DEF NotLost
<1>3. writing # None
  <2> SUFFICES ASSUME writing = None PROVE FALSE
    OBVIOUS
  <2>1. out = <<>> /\ up = <<>>
    BY Zenon DEF CanGoOn
  <2>2. Range(out) = {} /\ Range(up) = {} /\ ~(Len(up) >= UpCapacity)
    BY SMTT(60), Z3T(60), <1>1, <2>1 DEF Range
  <2>3. reader = None /\ job[r] \notin {"queued", "local", "body", "ending"}
    BY Zenon, <1>0, <2>2, AgentWaits
  <2>4. down = <<>>
    BY Zenon, <2>3 DEF CanGoOn
  <2>5. Range(down) = {}
    BY SMTT(60), Z3T(60), <2>4 DEF Range
  <2>6. Msg("end", r) # None
    BY SMTT(60), Z3T(60), DownCases DEF DownMessage
  <2> QED
    BY Zenon, <1>2, <2>2, <2>3, <2>5, <2>6 DEF Queued
<1>4. Len(down) >= DownCapacity /\ down # <<>>
  BY SMTT(60), Z3T(60), <1>1, <1>3 DEF CanGoOn
<1>5. reader # None
  BY Zenon, <1>4 DEF CanGoOn
<1> QED
  BY Zenon, <1>0, <1>3, <1>4, <1>5, AgentWaits DEF Wedged

\* Loop, reader, workers and writer wait for each other only when all of them do, in a
\* circle of full queues: for every capacity of the queues and every number of requests
\* and workers, whatever pings and cancels come between.
THEOREM WaitsAreCircular == Spec => []OnlyWedged
BY AlwaysHeld, WaitIsWedge, FlowInOrder, RequestsAreKept, PTL

\* A wedged session stays so until the connection ends: a heartbeat, a client that leaves
\* or a local body that breaks off makes no room in the circle.
THEOREM WedgeLasts == Spec => [][session = "up" /\ Wedged => Wedged' \/ session' # "up"]_vars
<1>1. FlowInvariant /\ JobsHeld /\ [Next]_vars
         => [session = "up" /\ Wedged => Wedged' \/ session' # "up"]_vars
  <2> SUFFICES ASSUME FlowInvariant, JobsHeld, [Next]_vars, session = "up", Wedged
               PROVE  Wedged' \/ session' # "up"
    BY Zenon
  <2>0. /\ Len(up) \in Nat /\ Len(down) \in Nat /\ UpCapacity \in Nat /\ DownCapacity \in Nat
        /\ Len(jobs) \in Nat /\ MaxConcurrent \in Nat /\ job \in [Requests -> Jobs]
    BY SMTT(60), Z3T(60), CapacityAssumption DEF FlowInvariant, TypeOK
  <2>1. /\ writing # None /\ Len(down) >= DownCapacity
        /\ reader # None /\ Len(up) >= UpCapacity
    BY Zenon DEF Wedged
  <2>2. ~(Len(down) < DownCapacity) /\ ~(Len(up) < UpCapacity)
    BY SMTT(60), Z3T(60), <2>0, <2>1
  <2>3. ~Write /\ ~Tick /\ ~TakeOutbound /\ ~Receive /\ ~Read /\ ~SendPong
    BY Zenon, <2>1, <2>2 DEF Write, Tick, TakeOutbound, Receive, Selecting, Read, SendPong, Send
  <2>4. \A r \in Requests : JobStep(r) => BodyFails(r)
    BY Zenon, <2>2 DEF JobStep, LocalAnswers, LocalFails, SendChunk, SendEnd, Send
  <2>5. ~Dispatch
    <3>1. reader.type = "end" => ~(Len(jobs) < MaxConcurrent)
      BY SMTT(60), Z3T(60), <2>0 DEF Wedged
    <3> QED
      BY Zenon, <3>1 DEF Dispatch
  <2>6. ASSUME UNCHANGED <<writing, down, up, reader, jobs>>, UNCHANGED Running
        PROVE  Wedged'
    BY Zenon, <2>6 DEF Wedged
  <2>7. ASSUME NEW r \in Requests, HandlerStep(r)
        PROVE  Wedged'
    BY ZenonT(60), <2>6, <2>7 DEF HandlerStep, QueueStart, QueueEnd, Queue, GiveUp, agentVars, Running
  <2>8. ASSUME NEW r \in Requests, BodyFails(r)
        PROVE  Wedged'
    <3>1. /\ UNCHANGED <<writing, down, up, reader, jobs>>
          /\ job[r] = "body" /\ job' = [job EXCEPT ![r] = "ending"]
      BY Zenon, <2>8 DEF BodyFails, gatewayVars
    <3>2. Running' = Running
      BY SMTT(60), Z3T(60), <2>0, <3>1 DEF Running
    <3> QED
      BY Zenon, <2>6, <3>1, <3>2
  <2>9. ASSUME StartJob
        PROVE  Wedged'
    <3>1. /\ UNCHANGED <<writing, down, up, reader>> /\ Cardinality(Running) < MaxConcurrent
      BY Zenon, <2>9 DEF StartJob, gatewayVars
    <3>2. Cardinality(Running) \in Nat
      BY Zenon, FS_CardinalityType DEF JobsHeld
    <3>3. reader.type # "end"
      BY SMTT(60), Z3T(60), <2>0, <3>1, <3>2 DEF Wedged
    <3> QED
      BY Zenon, <2>1, <3>1, <3>3 DEF Wedged
  <2>10. CASE UNCHANGED vars
    BY Zenon, <2>6, <2>10 DEF vars, gatewayVars, agentVars, Running
  <2>11. CASE Close
    BY <2>11 DEF Close
  <2> QED
    BY Zenon, <2>3, <2>4, <2>5, <2>7, <2>8, <2>9, <2>10, <2>11
    DEF Next, GatewayStep, AgentStep, Terminated
<1> QED
  BY <1>1, AlwaysHeld, FlowInOrder, PTL DEF Spec
================================================================================
