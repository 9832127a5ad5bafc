-------------------------- MODULE PublicProxyDelivery --------------------------
(***************************************************************************)
(* Proofs about PublicProxy, for any sets of requests, sessions and        *)
(* subdomains and any capacities of queues and sockets: its types, and how *)
(* responses reach the handlers: the accounting of the responses, of the   *)
(* pending map, of the routes and of the sessions.                         *)
(***************************************************************************)
EXTENDS PublicProxy, FiniteSetTheorems, TLAPS

\* A frame other than tunnel_opened names a request and a sequence number.
LEMMA RequestFrame ==
    ASSUME NEW m \in Frame, m.type # "opened"
    PROVE  /\ m.req \in Requests /\ m.seq \in Nat
           /\ m.type \in {"start", "chunk", "end", "cancel"}
BY DEF Frame

\* The agent's read loop keeps each stream in one of the named states.
LEMMA StreamAfterType ==
    ASSUME TypeOK, NEW s \in Sessions, NEW m \in Frame, m.type # "opened"
    PROVE  StreamAfter(s, m) \in Streams
<1>1. m.req \in Requests /\ m.type \in {"start", "chunk", "end", "cancel"}
  BY RequestFrame
<1>2. stream[m.req] \in Streams
  BY <1>1 DEF TypeOK
<1>3. CASE m.type = "start"
  BY <1>3 DEF StreamAfter, Streams
<1>4. CASE m.type = "chunk"
  BY <1>4 DEF StreamAfter, Streams
<1>5. CASE m.type = "end"
  BY <1>5 DEF StreamAfter, Streams
<1>6. CASE m.type = "cancel"
  BY <1>2, <1>6 DEF StreamAfter, Streams
<1> QED
  BY <1>1, <1>3, <1>4, <1>5, <1>6

\* Every step of a session's goroutine keeps the types.
LEMMA SessionStepType ==
    ASSUME TypeOK, NEW s \in Sessions, SessionStep(s)
    PROVE  TypeOK'
<1> USE DEF TypeOK
<1>1. CASE Register(s)
  BY SMTT(60), Z3T(60), <1>1 DEF Register, registryVars, handlerVars, agentVars, Phases
<1>2. ASSUME NEW d \in Subdomains, OpenTunnel(s, d)
      PROVE  TypeOK'
  BY <1>2 DEF OpenTunnel, managerVars, handlerVars, agentVars, Phases
<1>8. CASE SendOpened(s)
  <2>1. [type |-> "opened"] \in Frame
    BY DEF Frame
  <2>2. Append(outbound[s], [type |-> "opened"]) \in Seq(Frame)
    BY SMTT(60), Z3T(60), <2>1
  <2>3. outbound' \in [Sessions -> Seq(Frame)]
    BY Zenon, <1>8, <2>2 DEF SendOpened
  <2> QED
    BY Zenon, <1>8, <2>3 DEF SendOpened, registryVars, handlerVars, agentVars, Phases
<1>3. CASE WriteOutbound(s)
  <2>1. Head(outbound[s]) \in Frame /\ Tail(outbound[s]) \in Seq(Frame)
    BY SMTT(60), Z3T(60), <1>3 DEF WriteOutbound
  <2>2. Append(wire[s], Head(outbound[s])) \in Seq(Frame)
    BY SMTT(60), Z3T(60), <2>1
  <2>3. outbound' \in [Sessions -> Seq(Frame)] /\ wire' \in [Sessions -> Seq(Frame)]
    BY Zenon, <1>3, <2>1, <2>2 DEF WriteOutbound
  <2> QED
    BY <1>3, <2>3 DEF WriteOutbound, registryVars, sessionVars, handlerVars
<1>9. CASE AgentReads(s)
  <2> DEFINE m == Head(wire[s])
  <2>1. m \in Frame /\ Tail(wire[s]) \in Seq(Frame)
    BY SMTT(60), Z3T(60), <1>9 DEF AgentReads
  <2>2. wire' \in [Sessions -> Seq(Frame)]
    BY <1>9, <2>1 DEF AgentReads
  <2>3. stream' \in [Requests -> Streams] /\ next' \in [Requests -> Nat]
    <3>1. CASE m.type = "opened"
      BY <1>9, <3>1 DEF AgentReads
    <3>2. CASE m.type # "opened"
      <4>1. m.req \in Requests /\ StreamAfter(s, m) \in Streams
        BY Zenon, <2>1, <3>2, RequestFrame, StreamAfterType
      <4>2. /\ stream' = [stream EXCEPT ![m.req] = StreamAfter(s, m)]
            /\ next' = [next EXCEPT ![m.req] = CASE m.type = "start" -> 0
                                                [] m.type = "chunk" -> @ + 1
                                                [] OTHER -> @]
        BY <1>9, <3>2 DEF AgentReads
      <4> HIDE DEF m
      <4> QED
        BY SMTT(60), Z3T(60), <4>1, <4>2
    <3> QED
      BY <3>1, <3>2
  <2> QED
    BY <1>9, <2>2, <2>3 DEF AgentReads, managerVars, registryVars, sessionVars, handlerVars
<1>4. ASSUME NEW r \in Requests, NEW k \in Kinds, DeliverResponse(s, r, k)
      PROVE  TypeOK'
  <2>1. [req |-> r, kind |-> k] \in Response
    BY DEF Response
  <2> QED
    BY SMTT(60), Z3T(60), <1>4, <2>1 DEF DeliverResponse, registryVars, handlerVars, Streams
<1>5. CASE SendResponse(s)
  <2>1. PICK m \in unsent[s] :
          /\ response' = [response EXCEPT ![m.req] = m.kind]
          /\ unsent' = [unsent EXCEPT ![s] = @ \ {m}]
    BY Zenon, <1>5 DEF SendResponse
  <2>2. m.req \in Requests /\ m.kind \in Kinds
    BY SMTT(60), Z3T(60) DEF Response
  <2> QED
    BY SMTT(60), Z3T(60), <1>5, <2>1, <2>2 DEF SendResponse, registryVars, handlerVars, agentVars
<1>6. CASE Remove(s)
  <2>1. {[req |-> r, kind |-> "error"] : r \in {q \in Requests : pending[q] = s}}
            \in SUBSET Response
    BY SMTT(60), Z3T(60) DEF Response, Kinds
  <2> QED
    BY SMTT(60), Z3T(60), <1>6, <2>1 DEF Remove, registryVars, handlerVars, agentVars, Phases
<1>7. CASE CloseSession(s)
  BY <1>7 DEF CloseSession, managerVars, handlerVars, agentVars, Phases
<1> HIDE DEF TypeOK
<1> QED
  BY <1>1, <1>2, <1>3, <1>4, <1>5, <1>6, <1>7, <1>8, <1>9 DEF SessionStep

\* sendCancel puts at most a frame of the declared type in a queue.
LEMMA SendCancelType ==
    ASSUME TypeOK, NEW r \in Requests, sendCancel(r)
    PROVE  outbound' \in [Sessions -> Seq(Frame)]
<1>1. [type |-> "cancel", req |-> r, seq |-> 0] \in Frame
  BY DEF Frame
<1> QED
  BY SMTT(60), Z3T(60), <1>1 DEF sendCancel, CanSend, TypeOK

\* Every step of a public handler keeps the types.
LEMMA RequestStepType ==
    ASSUME TypeOK, NEW r \in Requests, RequestStep(r)
    PROVE  TypeOK'
<1> USE DEF TypeOK
<1>1. ASSUME NEW d \in Subdomains, Route(r, d)
      PROVE  TypeOK'
  BY ZenonT(150), <1>1 DEF Route, managerVars, registryVars, sessionVars, agentVars, PCs, Codes
<1>2. CASE RegisterRequest(r)
  BY <1>2 DEF RegisterRequest, registryVars, sessionVars, agentVars, PCs
<1>3. ASSUME SendFails(r)
      PROVE  /\ outbound' \in [Sessions -> Seq(Frame)]
             /\ pc' \in [Requests -> PCs] /\ status' \in [Requests -> Codes]
  BY <1>3, SendCancelType DEF SendFails, Finish, PCs, Codes
<1>4. CASE LookupSession(r)
  BY Zenon, <1>3, <1>4 DEF LookupSession, registryVars, sessionVars, agentVars, PCs
<1>5. CASE Enqueue(r)
  <2>1. [type |-> frame[r], req |-> r, seq |-> sequence[r]] \in Frame
    BY DEF Frame
  <2>2. target[r] \in Sessions =>
          Append(outbound[target[r]], [type |-> frame[r], req |-> r, seq |-> sequence[r]])
              \in Seq(Frame)
    BY SMTT(60), Z3T(60), <2>1
  <2>3. outbound' \in [Sessions -> Seq(Frame)]
    BY Zenon, <1>5, <2>2 DEF Enqueue
  <2> QED
    BY SMTT(60), Z3T(60), <1>5, <2>3 DEF Enqueue, registryVars, sessionVars, agentVars, PCs
<1>6. CASE AbandonSend(r)
  BY <1>3, <1>6 DEF AbandonSend, registryVars, sessionVars, agentVars
<1>7. CASE ReadBody(r)
  <2>1. outbound' \in [Sessions -> Seq(Frame)]
    BY <1>7, SendCancelType DEF ReadBody
  <2>2. frame' \in [Requests -> {"start", "chunk", "end"}]
    BY Zenon, <1>7 DEF ReadBody
  <2>3. pc' \in [Requests -> PCs]
    <3>1. pc' = [pc EXCEPT ![r] = "lookup"] \/ pc' = [pc EXCEPT ![r] = "returning"]
      BY <1>7 DEF ReadBody, Finish
    <3> QED
      BY ZenonT(60), <3>1 DEF PCs
  <2>4. status' \in [Requests -> Codes]
    BY Zenon, <1>7 DEF ReadBody, Finish, Codes
  <2> QED
    BY <1>7, <2>1, <2>2, <2>3, <2>4 DEF ReadBody, registryVars, sessionVars, agentVars
<1>8. CASE ReceiveResponse(r)
  BY SMTT(60), Z3T(60), <1>8 DEF ReceiveResponse, Finish, sessionVars, agentVars, PCs, Codes
<1>9. CASE GiveUp(r)
  BY <1>9, SendCancelType DEF GiveUp, Finish, registryVars, sessionVars, agentVars, PCs, Codes
<1>10. CASE CancelRequest(r)
  BY <1>10 DEF CancelRequest, registryVars, sessionVars, agentVars, PCs
<1> HIDE DEF TypeOK
<1> QED
  BY <1>1, <1>2, <1>4, <1>5, <1>6, <1>7, <1>8, <1>9, <1>10 DEF RequestStep

\* The variables keep their types in every behaviour of the gateway.
THEOREM TypeCorrect == Spec => []TypeOK
<1>1. Init => TypeOK
  BY SMTT(60), Z3T(60) DEF Init, TypeOK, Phases, PCs, Streams, Codes, Frame
<1>2. TypeOK /\ [Next]_vars => TypeOK'
  <2> SUFFICES ASSUME TypeOK, [Next]_vars
               PROVE  TypeOK'
    OBVIOUS
  <2>1. CASE UNCHANGED vars
    BY <2>1 DEF TypeOK, vars, managerVars, registryVars, sessionVars, handlerVars, agentVars
  <2> QED
    BY <2>1, SessionStepType, RequestStepType DEF Next, Terminated
<1> QED
  BY <1>1, <1>2, PTL DEF Spec

--------------------------------------------------------------------------------

\* A step of a handler leaves the sessions, their goroutines and the routes alone.
LEMMA RequestStepFrame ==
    ASSUME NEW r \in Requests, RequestStep(r)
    PROVE  UNCHANGED <<sessions, phase, unsent, bySubdomain>>
BY Zenon DEF RequestStep, Route, RegisterRequest, LookupSession, Enqueue, AbandonSend, ReadBody,
       ReceiveResponse, GiveUp, CancelRequest, managerVars, registryVars, sessionVars

\* A handler that only goes on from one place to the next, between RegisterRequest
\* and its return, keeps the accounting of responses.
LEMMA HandlerMoves ==
    ASSUME TypeOK, DeliveryInvariant, NEW r \in Requests, RequestStep(r),
           pc[r] \in Registered,
           NEW p \in Registered \cup {"returning"}, pc' = [pc EXCEPT ![r] = p],
           UNCHANGED <<pending, response, target>>,
           \A q \in Requests \ {r} : frame'[q] = frame[q],
           p # "returning" => pc[r] # "lookup" \/ target[r] \in sessions
    PROVE  DeliveryInvariant'
<1>1. UNCHANGED <<sessions, phase, unsent, bySubdomain>>
  BY Zenon, RequestStepFrame
<1>2. \A q \in Requests : pc'[q] = IF q = r THEN p ELSE pc[q]
  BY Zenon DEF TypeOK
<1>3. SessionsServed' /\ RoutesHaveOwners'
  BY Zenon, <1>1 DEF DeliveryInvariant, SessionsServed, RoutesHaveOwners
<1>4. PendingHasHandler'
  BY ZenonT(60), <1>2 DEF DeliveryInvariant, PendingHasHandler
<1>5. OneResponse'
  <2>1. SendersNeverBlock'
    BY SMTT(60), Z3T(60), <1>1 DEF DeliveryInvariant, OneResponse, SendersNeverBlock
  <2>2. \A s \in Sessions : \A m \in unsent[s] : m.req \in Requests
    BY SMTT(60), Z3T(60) DEF TypeOK, Response
  <2>3. \A q \in Requests : Underway(q)' <=> Underway(q)
    BY Zenon, <1>1 DEF Underway
  <2> QED
    BY SMTT(60), Z3T(60), <1>1, <1>2, <2>1, <2>2, <2>3 DEF DeliveryInvariant, OneResponse, Registered
<1>6. StaleEntries'
  BY SMTT(60), Z3T(60), <1>1, <1>2 DEF DeliveryInvariant, StaleEntries, PendingHasHandler, Registered
<1> QED
  BY Zenon, <1>3, <1>4, <1>5, <1>6 DEF DeliveryInvariant

\* Every step of a handler keeps the accounting of responses.
LEMMA RequestStepDelivery ==
    ASSUME TypeOK, DeliveryInvariant, NEW r \in Requests, RequestStep(r)
    PROVE  DeliveryInvariant'
<1>1. UNCHANGED <<sessions, phase, unsent, bySubdomain>>
  BY Zenon, RequestStepFrame
<1>2. SessionsServed' /\ RoutesHaveOwners'
  BY Zenon, <1>1 DEF DeliveryInvariant, SessionsServed, RoutesHaveOwners
<1>3. \A s \in Sessions : \A m \in unsent[s] : m.req \in Requests
  BY SMTT(60), Z3T(60) DEF TypeOK, Response
<1>4. \A q \in Requests : Underway(q)' <=> Underway(q)
  BY Zenon, <1>1 DEF Underway
<1>5. ASSUME NEW d \in Subdomains, Route(r, d)
      PROVE  DeliveryInvariant'
  <2>1. UNCHANGED <<pending, response, frame>>
    BY Zenon, <1>5 DEF Route, managerVars
  <2>2. pending[r] = None /\ response[r] = "empty" /\ ~Underway(r)
    <3>1. pc[r] = "new"
      BY Zenon, <1>5 DEF Route
    <3>2. pending[r] = None
      BY ZenonT(60), <3>1 DEF DeliveryInvariant, PendingHasHandler, Registered
    <3>3. response[r] = "empty" /\ ~Underway(r)
      BY SMTT(60), Z3T(60), <1>3, <3>1 DEF DeliveryInvariant, OneResponse, Underway
    <3> QED
      BY Zenon, <3>2, <3>3
  <2>3. \A q \in Requests \ {r} : pc'[q] = pc[q] /\ target'[q] = target[q]
    BY Zenon, <1>5 DEF Route, TypeOK
  <2>4. \/ pc'[r] = "done"
        \/ pc'[r] = "routed" /\ target'[r] \in Sessions
    BY Zenon, <1>5 DEF Route, TypeOK
  <2>5. PendingHasHandler'
    BY Zenon, <2>1, <2>2, <2>3 DEF DeliveryInvariant, PendingHasHandler
  <2>6. OneResponse'
    <3>1. SendersNeverBlock'
      BY SMTT(60), Z3T(60), <1>1, <2>1 DEF DeliveryInvariant, OneResponse, SendersNeverBlock
    <3>2. \A s \in Sessions : \A m \in unsent[s] : m.req # r
      BY Zenon, <2>2 DEF Underway
    <3> QED
      BY SMTT(60), Z3T(60), <1>1, <1>3, <1>4, <2>1, <2>2, <2>3, <2>4, <3>1, <3>2
         DEF DeliveryInvariant, OneResponse, Registered
  <2>7. StaleEntries'
    BY Zenon, <1>1, <1>5, <2>1, <2>2, <2>3, <2>4
       DEF DeliveryInvariant, StaleEntries, Registered, Route
  <2> QED
    BY Zenon, <1>2, <2>5, <2>6, <2>7 DEF DeliveryInvariant
<1>6. CASE RegisterRequest(r)
  <2>1. UNCHANGED <<response, frame, target>>
    BY Zenon, <1>6 DEF RegisterRequest
  <2>2. pc[r] = "routed" /\ frame[r] = "start" /\ target[r] \in Sessions
    BY Zenon, <1>6 DEF RegisterRequest, DeliveryInvariant, StaleEntries
  <2>3. response[r] = "empty" /\ ~Underway(r)
    BY SMTT(60), Z3T(60), <1>3, <2>2 DEF DeliveryInvariant, OneResponse, Underway
  <2>4. \A q \in Requests :
          /\ pc'[q] = IF q = r THEN "lookup" ELSE pc[q]
          /\ pending'[q] = IF q = r THEN target[r] ELSE pending[q]
    BY Zenon, <1>6 DEF RegisterRequest, TypeOK
  <2>5. PendingHasHandler'
    BY ZenonT(60), <2>1, <2>4 DEF DeliveryInvariant, PendingHasHandler, Registered
  <2>6. OneResponse'
    <3>1. SendersNeverBlock'
      BY SMTT(60), Z3T(60), <1>1, <2>1 DEF DeliveryInvariant, OneResponse, SendersNeverBlock
    <3>2. \A s \in Sessions : \A m \in unsent[s] : m.req # r
      BY Zenon, <2>3 DEF Underway
    <3>3. target[r] # None
      BY Zenon, <2>2, NoneAssumption
    <3> QED
      BY SMTT(60), Z3T(60), <1>1, <1>3, <1>4, <2>1, <2>2, <2>3, <2>4, <3>1, <3>2, <3>3
         DEF DeliveryInvariant, OneResponse, Registered
  <2>7. StaleEntries'
    BY Zenon, <1>1, <2>1, <2>2, <2>4 DEF DeliveryInvariant, StaleEntries, Registered
  <2> QED
    BY Zenon, <1>2, <2>5, <2>6, <2>7 DEF DeliveryInvariant
<1>7. CASE LookupSession(r)
  BY Zenon, <1>7, HandlerMoves DEF LookupSession, SendFails, Finish, Registered
<1>8. CASE Enqueue(r)
  BY Zenon, <1>8, HandlerMoves DEF Enqueue, Registered
<1>9. CASE AbandonSend(r)
  BY Zenon, <1>9, HandlerMoves DEF AbandonSend, SendFails, Finish, Registered
<1>10. CASE ReadBody(r)
  <2>1. \A q \in Requests \ {r} : frame'[q] = frame[q]
    BY Zenon, <1>10 DEF ReadBody, TypeOK
  <2>2. pc[r] = "read" /\ UNCHANGED <<pending, response, target>>
    BY Zenon, <1>10 DEF ReadBody
  <2>3. pc' = [pc EXCEPT ![r] = "lookup"] \/ pc' = [pc EXCEPT ![r] = "returning"]
    BY Zenon, <1>10 DEF ReadBody, Finish
  <2> QED
    BY Zenon, <2>1, <2>2, <2>3, HandlerMoves DEF Registered
<1>11. CASE GiveUp(r)
  BY Zenon, <1>11, HandlerMoves DEF GiveUp, Finish, Registered
<1>12. CASE ReceiveResponse(r)
  <2>1. UNCHANGED <<pending, frame, target>>
    BY Zenon, <1>12 DEF ReceiveResponse
  <2>2. \A q \in Requests :
          /\ pc'[q] = IF q = r THEN "returning" ELSE pc[q]
          /\ response'[q] = IF q = r THEN "empty" ELSE response[q]
    BY ZenonT(60), <1>12 DEF ReceiveResponse, Finish, TypeOK
  <2>3. PendingHasHandler'
    BY ZenonT(60), <2>1, <2>2 DEF DeliveryInvariant, PendingHasHandler
  <2>4. OneResponse'
    <3>1. SendersNeverBlock'
      BY SMTT(60), Z3T(60), <1>1, <1>3, <2>2 DEF DeliveryInvariant, OneResponse, SendersNeverBlock
    <3> QED
      BY ZenonT(60), <1>1, <1>3, <1>4, <2>1, <2>2, <3>1 DEF DeliveryInvariant, OneResponse, Registered
  <2>5. StaleEntries'
    BY Zenon, <1>1, <1>12, <2>1, <2>2 DEF DeliveryInvariant, StaleEntries, Registered, ReceiveResponse
  <2> QED
    BY Zenon, <1>2, <2>3, <2>4, <2>5 DEF DeliveryInvariant
<1>13. CASE CancelRequest(r)
  <2>1. UNCHANGED <<response, frame, target>>
    BY Zenon, <1>13 DEF CancelRequest
  <2>2. \A q \in Requests :
          /\ pc'[q] = IF q = r THEN "done" ELSE pc[q]
          /\ pending'[q] = IF q = r THEN None ELSE pending[q]
    BY ZenonT(60), <1>13 DEF CancelRequest, TypeOK
  <2>3. PendingHasHandler'
    BY Zenon, <2>1, <2>2 DEF DeliveryInvariant, PendingHasHandler
  <2>4. OneResponse'
    <3>1. SendersNeverBlock'
      BY ZenonT(150), <1>1, <2>1 DEF DeliveryInvariant, OneResponse, SendersNeverBlock
    <3> QED
      BY ZenonT(60), <1>1, <1>3, <1>4, <2>1, <2>2, <3>1 DEF DeliveryInvariant, OneResponse, Registered
  <2>5. StaleEntries'
    BY Zenon, <1>1, <2>1, <2>2 DEF DeliveryInvariant, StaleEntries, Registered
  <2> QED
    BY Zenon, <1>2, <2>3, <2>4, <2>5 DEF DeliveryInvariant
<1> QED
  BY Zenon, <1>5, <1>6, <1>7, <1>8, <1>9, <1>10, <1>11, <1>12, <1>13 DEF RequestStep

\* A step of a session's goroutine leaves the places of the handlers alone.
LEMMA SessionStepFrame ==
    ASSUME NEW s \in Sessions, SessionStep(s)
    PROVE  UNCHANGED <<pc, frame, target>>
BY Zenon DEF SessionStep, Register, OpenTunnel, SendOpened, WriteOutbound, AgentReads,
       DeliverResponse, SendResponse, Remove, CloseSession, handlerVars

\* A step of a session that touches neither the pending map nor a response keeps
\* the accounting of responses.
LEMMA SessionMoves ==
    ASSUME TypeOK, DeliveryInvariant, NEW s \in Sessions, SessionStep(s),
           UNCHANGED <<pending, response, unsent>>,
           sessions \subseteq sessions',
           SessionsServed', RoutesHaveOwners',
           \A q \in Sessions : unsent[q] # {} => phase'[q] = phase[q]
    PROVE  DeliveryInvariant'
<1>1. UNCHANGED <<pc, frame, target>>
  BY Zenon, SessionStepFrame
<1>2. PendingHasHandler'
  BY Zenon, <1>1 DEF DeliveryInvariant, PendingHasHandler
<1>3. OneResponse'
  <2>1. SendersNeverBlock'
    BY SMTT(60), Z3T(60), <1>1 DEF DeliveryInvariant, OneResponse, SendersNeverBlock
  <2>2. \A q \in Requests : Underway(q)' <=> Underway(q)
    BY Zenon DEF Underway
  <2> QED
    BY ZenonT(60), <1>1, <2>1, <2>2 DEF DeliveryInvariant, OneResponse
<1>4. StaleEntries'
  BY Zenon, <1>1 DEF DeliveryInvariant, StaleEntries
<1> QED
  BY Zenon, <1>2, <1>3, <1>4 DEF DeliveryInvariant

\* Every step of a session's goroutine keeps the accounting of responses.
LEMMA SessionStepDelivery ==
    ASSUME TypeOK, DeliveryInvariant, NEW s \in Sessions, SessionStep(s)
    PROVE  DeliveryInvariant'
<1>1. UNCHANGED <<pc, frame, target>>
  BY Zenon, SessionStepFrame
<1>2. \A q \in Sessions : \A m \in unsent[q] : m.req \in Requests
  BY SMTT(60), Z3T(60) DEF TypeOK, Response
<1>3. CASE Register(s)
  <2>1. unsent[s] = {}
    BY Zenon, <1>3 DEF Register, DeliveryInvariant, OneResponse
  <2>2. \A q \in Sessions : phase'[q] = IF q = s THEN "registered" ELSE phase[q]
    BY Zenon, <1>3 DEF Register, TypeOK
  <2>3. SessionsServed'
    BY Zenon, <1>3, <2>2 DEF Register, DeliveryInvariant, SessionsServed
  <2>4. RoutesHaveOwners'
    BY Zenon, <1>3, <2>2 DEF Register, DeliveryInvariant, RoutesHaveOwners, registryVars
  <2> QED
    BY Zenon, <1>3, <2>1, <2>2, <2>3, <2>4, SessionMoves DEF Register
<1>4. ASSUME NEW d \in Subdomains, OpenTunnel(s, d)
      PROVE  DeliveryInvariant'
  <2>1. unsent[s] = {}
    BY Zenon, <1>4 DEF OpenTunnel, DeliveryInvariant, OneResponse
  <2>2. /\ \A q \in Sessions \ {s} : phase'[q] = phase[q]
        /\ phase[s] = "registered" /\ phase'[s] = "opening"
    BY Zenon, <1>4 DEF OpenTunnel, TypeOK
  <2>3. SessionsServed'
    BY Zenon, <1>4, <2>2 DEF OpenTunnel, DeliveryInvariant, SessionsServed, managerVars
  <2>4. RoutesHaveOwners'
    BY ZenonT(60), <1>4, <2>2 DEF OpenTunnel, DeliveryInvariant, RoutesHaveOwners, TypeOK
  <2> QED
    BY Zenon, <1>4, <2>1, <2>2, <2>3, <2>4, SessionMoves DEF OpenTunnel, managerVars
<1>10. CASE SendOpened(s)
  <2>1. unsent[s] = {}
    BY Zenon, <1>10 DEF SendOpened, DeliveryInvariant, OneResponse
  <2>2. /\ \A q \in Sessions \ {s} : phase'[q] = phase[q]
        /\ phase[s] = "opening" /\ phase'[s] \in {"serving", "leaving"}
    BY Zenon, <1>10 DEF SendOpened, TypeOK
  <2>3. SessionsServed'
    BY Zenon, <1>10, <2>2 DEF SendOpened, DeliveryInvariant, SessionsServed
  <2>4. RoutesHaveOwners'
    BY Zenon, <1>10, <2>2 DEF SendOpened, DeliveryInvariant, RoutesHaveOwners, registryVars
  <2> QED
    BY Zenon, <1>10, <2>1, <2>2, <2>3, <2>4, SessionMoves DEF SendOpened
<1>5. CASE WriteOutbound(s)
  <2>1. UNCHANGED <<sessions, phase, unsent, bySubdomain, pending, response>>
    BY Zenon, <1>5 DEF WriteOutbound, registryVars, sessionVars
  <2>2. SessionsServed' /\ RoutesHaveOwners'
    BY Zenon, <2>1 DEF DeliveryInvariant, SessionsServed, RoutesHaveOwners
  <2> QED
    BY Zenon, <2>1, <2>2, SessionMoves
<1>11. CASE AgentReads(s)
  <2>1. UNCHANGED <<sessions, phase, unsent, bySubdomain, pending, response>>
    BY Zenon, <1>11 DEF AgentReads, managerVars, registryVars, sessionVars
  <2>2. SessionsServed' /\ RoutesHaveOwners'
    BY Zenon, <2>1 DEF DeliveryInvariant, SessionsServed, RoutesHaveOwners
  <2> QED
    BY Zenon, <2>1, <2>2, SessionMoves
<1>6. ASSUME NEW r \in Requests, NEW k \in Kinds, DeliverResponse(s, r, k)
      PROVE  DeliveryInvariant'
  <2>1. UNCHANGED <<sessions, phase, bySubdomain, response>>
    BY Zenon, <1>6 DEF DeliverResponse, registryVars
  <2>2. SessionsServed' /\ RoutesHaveOwners'
    BY Zenon, <2>1 DEF DeliveryInvariant, SessionsServed, RoutesHaveOwners
  <2>3. \A q \in Requests : pending'[q] = IF q = r THEN None ELSE pending[q]
    BY Zenon, <1>6 DEF DeliverResponse, TypeOK
  <2>4. PendingHasHandler' /\ StaleEntries'
    BY Zenon, <1>1, <2>1, <2>3 DEF DeliveryInvariant, PendingHasHandler, StaleEntries
  <2>5. CASE pending[r] = None
    <3>1. UNCHANGED <<pending, unsent>>
      BY Zenon, <1>6, <2>5 DEF DeliverResponse, TypeOK
    <3> QED
      BY Zenon, <2>1, <2>2, <3>1, SessionMoves
  <2>6. CASE pending[r] # None
    <3> DEFINE m == [req |-> r, kind |-> k]
    <3>1. /\ unsent[s] = {} /\ unsent'[s] = {m} /\ phase[s] = "serving"
          /\ \A q \in Sessions \ {s} : unsent'[q] = unsent[q]
      BY Zenon, <1>6, <2>6 DEF DeliverResponse, TypeOK
    <3>2. m.req = r
      BY ZenonT(60)
    <3> HIDE DEF m
    <3>3. /\ response[r] = "empty" /\ pc[r] \notin {"new", "routed"}
          /\ \A q \in Sessions : \A n \in unsent[q] : n.req # r
      BY SMTT(60), Z3T(60), <2>6 DEF DeliveryInvariant, OneResponse, PendingHasHandler, Registered
    <3>4. SendersNeverBlock'
      BY SMTT(60), Z3T(60), <2>1, <3>1, <3>2, <3>3 DEF DeliveryInvariant, OneResponse, SendersNeverBlock
    <3>5. /\ \A q \in Requests \ {r} : Underway(q)' <=> Underway(q)
          /\ Underway(r)'
      BY ZenonT(60), <3>1, <3>2 DEF Underway
    <3>6. OneResponse'
      BY SMTT(60), Z3T(60), <1>1, <1>2, <2>1, <2>3, <3>1, <3>2, <3>3, <3>4, <3>5
         DEF DeliveryInvariant, OneResponse
    <3> QED
      BY Zenon, <2>2, <2>4, <3>6 DEF DeliveryInvariant
  <2> QED
    BY Zenon, <2>5, <2>6
<1>7. CASE SendResponse(s)
  <2>1. PICK m \in unsent[s] :
          /\ response' = [response EXCEPT ![m.req] = m.kind]
          /\ unsent' = [unsent EXCEPT ![s] = @ \ {m}]
    BY Zenon, <1>7 DEF SendResponse
  <2>2. UNCHANGED <<sessions, phase, bySubdomain, pending>>
    BY Zenon, <1>7 DEF SendResponse, registryVars
  <2>3. SessionsServed' /\ RoutesHaveOwners' /\ PendingHasHandler' /\ StaleEntries'
    BY Zenon, <1>1, <2>2 DEF DeliveryInvariant, SessionsServed, RoutesHaveOwners, PendingHasHandler,
                      StaleEntries
  <2>4. /\ m.req \in Requests /\ m.kind # "empty"
        /\ \A q \in Requests : response'[q] = IF q = m.req THEN m.kind ELSE response[q]
        /\ \A q \in Sessions : unsent'[q] = IF q = s THEN unsent[s] \ {m} ELSE unsent[q]
    <3>1. m \in Response
      BY Zenon DEF TypeOK
    <3>2. m.req \in Requests /\ m.kind \in {"ok", "error"}
      BY ZenonT(60), <3>1 DEF Response, Kinds
    <3>3. \A q \in Requests : response'[q] = IF q = m.req THEN m.kind ELSE response[q]
      BY ZenonT(60), <2>1, <3>2 DEF TypeOK
    <3>4. \A q \in Sessions : unsent'[q] = IF q = s THEN unsent[s] \ {m} ELSE unsent[q]
      BY Zenon, <2>1 DEF TypeOK
    <3> QED
      BY Zenon, <3>2, <3>3, <3>4
  <2>5. \A q \in Sessions : \A n \in unsent'[q] : n \in unsent[q] /\ n.req # m.req
    BY SMTT(60), Z3T(60), <2>4 DEF DeliveryInvariant, OneResponse, SendersNeverBlock
  <2>6. SendersNeverBlock'
    BY SMTT(60), Z3T(60), <1>2, <2>4, <2>5 DEF DeliveryInvariant, OneResponse, SendersNeverBlock
  <2>7. \A q \in Requests \ {m.req} : Underway(q) => Underway(q)'
    BY Zenon, <2>4 DEF Underway
  <2>8. pending[m.req] = None /\ pc[m.req] \notin {"new", "routed"}
    BY ZenonT(60) DEF DeliveryInvariant, OneResponse
  <2>9. OneResponse'
    BY SMTT(60), Z3T(60), <1>1, <2>2, <2>4, <2>5, <2>6, <2>7, <2>8 DEF DeliveryInvariant, OneResponse
  <2> QED
    BY Zenon, <2>3, <2>9 DEF DeliveryInvariant
<1>8. CASE Remove(s)
  <2> DEFINE waiting == {q \in Requests : pending[q] = s}
  <2>1. UNCHANGED <<bySubdomain, response>> /\ sessions' = sessions \ {s} /\ unsent[s] = {}
    BY Zenon, <1>8 DEF Remove, registryVars
  <2>2. \A q \in Sessions : phase'[q] = IF q = s THEN "removed" ELSE phase[q]
    BY Zenon, <1>8 DEF Remove, TypeOK
  <2>3. \A q \in Requests : pending'[q] = IF q \in waiting THEN None ELSE pending[q]
    BY ZenonT(60), <1>8 DEF Remove
  <2>4. /\ unsent'[s] = {[req |-> q, kind |-> "error"] : q \in waiting}
        /\ \A q \in Sessions \ {s} : unsent'[q] = unsent[q]
    BY Zenon, <1>8 DEF Remove, TypeOK
  <2>5. \A q \in waiting :
          /\ response[q] = "empty" /\ pc[q] \notin {"new", "routed"} /\ ~Underway(q)
    BY SMTT(60), Z3T(60), NoneAssumption DEF DeliveryInvariant, OneResponse, PendingHasHandler, Registered, Underway
  <2>6. /\ \A m \in unsent'[s] : m.req \in waiting
        /\ \A m, n \in unsent'[s] : m.req = n.req => m = n
        /\ \A q \in waiting : \E m \in unsent'[s] : m.req = q
    <3> HIDE DEF waiting
    <3>1. \A m \in unsent'[s] : \E q \in waiting : m = [req |-> q, kind |-> "error"] /\ m.req = q
      BY SMTT(60), Z3T(60), <2>4
    <3>2. \A q \in waiting : [req |-> q, kind |-> "error"] \in unsent'[s]
      BY Zenon, <2>4
    <3>3. \A q : [req |-> q, kind |-> "error"].req = q
      BY Zenon
    <3>4. \A q \in waiting : \E m \in unsent'[s] : m.req = q
      BY Zenon, <3>2, <3>3
    <3>5. \A m \in unsent'[s] : m.req \in waiting /\ m = [req |-> m.req, kind |-> "error"]
      BY Zenon, <3>1
    <3> QED
      BY Zenon, <3>4, <3>5
  <2> HIDE DEF waiting
  <2>7. SessionsServed'
    BY Zenon, <2>1, <2>2 DEF DeliveryInvariant, SessionsServed
  <2>8. RoutesHaveOwners'
    BY Zenon, <1>8, <2>1, <2>2 DEF DeliveryInvariant, RoutesHaveOwners, Remove
  <2>9. PendingHasHandler'
    BY Zenon, <1>1, <2>3 DEF DeliveryInvariant, PendingHasHandler
  <2>10. StaleEntries'
    BY ZenonT(60), <1>1, <2>1, <2>3 DEF DeliveryInvariant, StaleEntries, waiting
  <2>11. \A q \in Sessions : \A m \in unsent[q] : m.req \notin waiting
    BY Zenon, <2>5 DEF Underway
  <2>12. SendersNeverBlock'
    BY SMTT(60), Z3T(60), <2>1, <2>4, <2>5, <2>6, <2>11 DEF DeliveryInvariant, OneResponse, SendersNeverBlock
  <2>13. \A q \in Requests : Underway(q) \/ q \in waiting => Underway(q)'
    BY SMTT(60), Z3T(60), <2>1, <2>4, <2>6 DEF Underway
  <2>14. OneResponse'
    <3>1. \A q \in Sessions : \A m \in unsent'[q] :
            /\ phase'[q] \in {"serving", "removed"}
            /\ pc'[m.req] \notin {"new", "routed"} /\ pending'[m.req] = None
      BY SMTT(60), Z3T(60), <1>1, <1>2, <2>2, <2>3, <2>4, <2>5, <2>6, <2>11
         DEF DeliveryInvariant, OneResponse, waiting
    <3>2. \A q \in Requests :
            /\ pending'[q] # None => response'[q] = "empty"
            /\ response'[q] # "empty" => pc'[q] \notin {"new", "routed"}
            /\ pc'[q] \in Registered =>
                  pending'[q] # None \/ response'[q] # "empty" \/ Underway(q)'
      BY Zenon, <1>1, <2>1, <2>3, <2>13 DEF DeliveryInvariant, OneResponse
    <3> QED
      BY ZenonT(60), <2>12, <3>1, <3>2 DEF OneResponse
  <2> QED
    BY Zenon, <2>7, <2>8, <2>9, <2>10, <2>14 DEF DeliveryInvariant
<1>9. CASE CloseSession(s)
  <2>1. UNCHANGED <<sessions, unsent, pending, response>> /\ unsent[s] = {}
    BY Zenon, <1>9 DEF CloseSession, managerVars
  <2>2. phase[s] = "removed" /\ \A q \in Sessions : phase'[q] = IF q = s THEN "closed" ELSE phase[q]
    BY Zenon, <1>9 DEF CloseSession, TypeOK
  <2>3. SessionsServed'
    BY Zenon, <2>1, <2>2 DEF DeliveryInvariant, SessionsServed
  <2>4. RoutesHaveOwners'
    BY Zenon, <1>9, <2>2, NoneAssumption DEF CloseSession, DeliveryInvariant, RoutesHaveOwners
  <2> QED
    BY ZenonT(60), <2>1, <2>2, <2>3, <2>4, SessionMoves
<1> QED
  BY Zenon, <1>3, <1>4, <1>5, <1>6, <1>7, <1>8, <1>9, <1>10, <1>11 DEF SessionStep

\* The accounting of responses holds in every state of the gateway.
THEOREM Delivery == Spec => []DeliveryInvariant
<1>1. Init => DeliveryInvariant
  BY SMTT(60), Z3T(60), NoneAssumption DEF Init, DeliveryInvariant, SessionsServed, OneResponse, SendersNeverBlock,
         PendingHasHandler, StaleEntries, RoutesHaveOwners, Registered
<1>2. TypeOK /\ DeliveryInvariant /\ [Next]_vars => DeliveryInvariant'
  <2> SUFFICES ASSUME TypeOK, DeliveryInvariant, [Next]_vars
               PROVE  DeliveryInvariant'
    BY ZenonT(60)
  <2>1. CASE UNCHANGED vars
    <3>1. UNCHANGED <<sessions, phase, unsent, bySubdomain, pending, response, pc, frame, target>>
      BY Zenon, <2>1 DEF vars, managerVars, registryVars, sessionVars, handlerVars
    <3> QED
      BY SMTT(60), Z3T(60), <3>1 DEF DeliveryInvariant, SessionsServed, OneResponse, SendersNeverBlock,
             PendingHasHandler, StaleEntries, RoutesHaveOwners, Underway
  <2> QED
    BY Zenon, <2>1, SessionStepDelivery, RequestStepDelivery DEF Next, Terminated
<1> QED
  BY <1>1, <1>2, TypeCorrect, PTL DEF Spec

\* No handler waits for a response that nobody will send: if its session is not in
\* the map any more, its response is on the channel or in a goroutine's hands.
THEOREM WaitersAreNotOrphaned == Spec => []NoOrphanedWaiter
<1>1. DeliveryInvariant => NoOrphanedWaiter
  BY Zenon DEF DeliveryInvariant, OneResponse, PendingHasHandler, StaleEntries, NoOrphanedWaiter,
         Registered
<1> QED
  BY <1>1, Delivery, PTL

\* DeliverResponse and Remove, which send on response channels outside the lock,
\* always find them empty.
THEOREM SendersDoNotBlock == Spec => []SendersNeverBlock
<1>1. DeliveryInvariant => SendersNeverBlock
  BY Zenon DEF DeliveryInvariant, OneResponse
<1> QED
  BY <1>1, Delivery, PTL

\* The pending map has no entry without a handler in ServeHTTP.
THEOREM PendingDoesNotLeak == Spec => []PendingHasHandler
<1>1. DeliveryInvariant => PendingHasHandler
  BY Zenon DEF DeliveryInvariant
<1> QED
  BY <1>1, Delivery, PTL

\* No subdomain leads to a session that has finished its cleanup.
THEOREM RoutesAreOwned == Spec => []RoutesHaveOwners
<1>1. DeliveryInvariant => RoutesHaveOwners
  BY Zenon DEF DeliveryInvariant
<1> QED
  BY <1>1, Delivery, PTL

\* The connection counters differ by the number of sessions in the map, although
\* Remove counts only a session it finds there.
THEOREM CountersBalance == Spec => []SessionsCounted
<1> DEFINE Counted == IsFiniteSet(sessions) /\ SessionsCounted
<1>1. Init => Counted
  BY SMTT(60), Z3T(60), FS_EmptySet DEF Init, SessionsCounted
<1>2. TypeOK /\ DeliveryInvariant /\ Counted /\ [Next]_vars => Counted'
  <2> SUFFICES ASSUME TypeOK, DeliveryInvariant, Counted, [Next]_vars
               PROVE  Counted'
    BY Zenon
  <2>1. ASSUME NEW s \in Sessions, Register(s)
        PROVE  Counted'
    <3>1. s \notin sessions
      BY Zenon, <2>1 DEF Register, DeliveryInvariant, SessionsServed
    <3>2. IsFiniteSet(sessions') /\ Cardinality(sessions') = Cardinality(sessions) + 1
      BY ZenonT(60), <2>1, <3>1, FS_AddElement DEF Register
    <3>3. Cardinality(sessions) \in Nat
      BY Zenon, FS_CardinalityType
    <3> QED
      BY SMTT(60), Z3T(60), <2>1, <3>2, <3>3 DEF Register, SessionsCounted, TypeOK
  <2>2. ASSUME NEW s \in Sessions, Remove(s)
        PROVE  Counted'
    <3>1. s \in sessions
      BY ZenonT(60), <2>2 DEF Remove, DeliveryInvariant, SessionsServed
    <3>2. IsFiniteSet(sessions') /\ Cardinality(sessions') = Cardinality(sessions) - 1
      BY Zenon, <2>2, <3>1, FS_RemoveElement DEF Remove
    <3>3. Cardinality(sessions) \in Nat
      BY Zenon, FS_CardinalityType
    <3> QED
      BY SMTT(60), Z3T(60), <2>2, <3>1, <3>2, <3>3 DEF Remove, SessionsCounted, TypeOK
  <2>3. CASE UNCHANGED <<sessions, connectionsTotal, disconnectionsTotal>>
    BY Zenon, <2>3 DEF SessionsCounted
  <2>4. ASSUME NEW s \in Sessions, SessionStep(s), ~Register(s), ~Remove(s)
        PROVE  UNCHANGED <<sessions, connectionsTotal, disconnectionsTotal>>
    BY Zenon, <2>4 DEF SessionStep, OpenTunnel, SendOpened, WriteOutbound, AgentReads,
                DeliverResponse, SendResponse, CloseSession, managerVars
  <2>5. ASSUME NEW r \in Requests, RequestStep(r)
        PROVE  UNCHANGED <<sessions, connectionsTotal, disconnectionsTotal>>
    BY Zenon, <2>5 DEF RequestStep, Route, RegisterRequest, LookupSession, Enqueue, AbandonSend,
                ReadBody, ReceiveResponse, GiveUp, CancelRequest, managerVars
  <2>6. CASE UNCHANGED vars
    BY Zenon, <2>3, <2>6 DEF vars, managerVars
  <2> QED
    BY Zenon, <2>1, <2>2, <2>3, <2>4, <2>5, <2>6 DEF Next, Terminated
<1>3. Counted => SessionsCounted
  BY Zenon
<1> QED
  BY <1>1, <1>2, <1>3, TypeCorrect, Delivery, PTL DEF Spec
================================================================================
