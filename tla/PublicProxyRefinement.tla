------------------------- MODULE PublicProxyRefinement -------------------------
(***************************************************************************)
(* ServeHTTP and the sessions implement RequestContract: the invariant of  *)
(* the way of the frames, queue and socket, that the refinement rests on,  *)
(* and the proof.  Then the order in which the frames of concurrent        *)
(* requests reach the agent.                                               *)
(***************************************************************************)
EXTENDS PublicProxyDelivery, SequenceTheorems

Settled == {"waiting", "returning", "done"}
Executed == {"whole", "answered"}

\* The way of the frames from the handlers to the agent's read loop, oldest first.
way == [s \in Sessions |-> wire[s] \o outbound[s]]

\* The response k to r is the answer to an execution, or an error.
Accounted(r, k) == stream[r] = "answered" \/ k = "error"

\* The frame at place i of the way of s, of a request r.  Nothing but a cancel
\* follows the end of a request, on the way and at the agent.
FramePlace(s, i) ==
    way[s][i].type # "opened" =>
        /\ target[way[s][i].req] = s
        /\ pc[way[s][i].req] \notin {"new", "routed"}
        /\ stream[way[s][i].req] \in Executed => way[s][i].type = "cancel"

EndPlace(s, i) ==
    way[s][i].type = "end" =>
        /\ pc[way[s][i].req] \in Settled
        /\ status[way[s][i].req] \in {"none", "502", "504"}
        /\ \A j \in (i + 1)..Len(way[s]) :
              way[s][j].type # "opened" /\ way[s][j].req = way[s][i].req
                  => way[s][j].type = "cancel"

QueueInvariant ==
    \A s \in Sessions : \A i \in 1..Len(way[s]) : FramePlace(s, i) /\ EndPlace(s, i)

\* The handler of r has replied only if it is returning; it has sent the end of a
\* request that was executed.
HandlerInvariant ==
    \A r \in Requests :
        /\ pc[r] \in {"new", "routed"} \cup Registered => status[r] = "none"
        /\ stream[r] \in Executed => pc[r] \in Settled
        /\ response[r] # "empty" => Accounted(r, response[r])

ResponseInvariant ==
    \A s \in Sessions : \A m \in unsent[s] : Accounted(m.req, m.kind)

ExecutionInvariant == QueueInvariant /\ HandlerInvariant /\ ResponseInvariant

--------------------------------------------------------------------------------

\* Two sequences one after the other: what is appended to the second comes last,
\* what moves from the second to the first stays where it is, and what is taken
\* from the first is taken from the whole.
AppendedLast(v, w, e) == v \o Append(w, e) = Append(v \o w, e)

LEMMA ConcatAppend ==
    ASSUME NEW S, NEW v \in Seq(S), NEW w \in Seq(S), NEW e \in S
    PROVE  AppendedLast(v, w, e)
<1>1. /\ Append(w, e) \in Seq(S) /\ Len(Append(w, e)) = Len(w) + 1
      /\ \A i \in 1..Len(w) : Append(w, e)[i] = w[i]
      /\ Append(w, e)[Len(w) + 1] = e
  BY SMTT(60), Z3T(60)
<1>2. v \o w \in Seq(S) /\ Append(v \o w, e) \in Seq(S) /\ v \o Append(w, e) \in Seq(S)
  BY Zenon, <1>1, ConcatProperties, AppendProperties
<1>3. Len(v \o Append(w, e)) = Len(Append(v \o w, e))
  BY SMTT(60), Z3T(60), <1>1, <1>2
<1>4. \A i \in 1..Len(v \o Append(w, e)) : (v \o Append(w, e))[i] = Append(v \o w, e)[i]
  BY SMTT(60), Z3T(60), <1>1, <1>2
<1> QED
  BY Zenon, <1>2, <1>3, <1>4, SeqEqual DEF AppendedLast

LEMMA ConcatMove ==
    ASSUME NEW S, NEW v \in Seq(S), NEW w \in Seq(S), w # <<>>
    PROVE  Append(v, Head(w)) \o Tail(w) = v \o w
<1>1. /\ Head(w) \in S /\ Head(w) = w[1]
      /\ Tail(w) \in Seq(S) /\ Len(w) \in Nat \ {0} /\ Len(Tail(w)) = Len(w) - 1
      /\ \A i \in 1..Len(Tail(w)) : Tail(w)[i] = w[i + 1]
  BY SMTT(60), Z3T(60)
<1>2. /\ Append(v, Head(w)) \in Seq(S) /\ Len(Append(v, Head(w))) = Len(v) + 1
      /\ \A i \in 1..Len(v) : Append(v, Head(w))[i] = v[i]
      /\ Append(v, Head(w))[Len(v) + 1] = w[1]
  BY SMTT(60), Z3T(60), <1>1
<1>3. v \o w \in Seq(S) /\ Append(v, Head(w)) \o Tail(w) \in Seq(S)
  BY Zenon, <1>1, <1>2, ConcatProperties
<1>4. Len(Append(v, Head(w)) \o Tail(w)) = Len(v \o w)
  BY SMTT(60), Z3T(60), <1>1, <1>2, <1>3
<1>5. \A i \in 1..Len(Append(v, Head(w)) \o Tail(w)) :
          (Append(v, Head(w)) \o Tail(w))[i] = (v \o w)[i]
  BY SMTT(60), Z3T(60), <1>1, <1>2, <1>3, <1>4
<1> QED
  BY Zenon, <1>3, <1>4, <1>5, SeqEqual

LEMMA ConcatTail ==
    ASSUME NEW S, NEW v \in Seq(S), NEW w \in Seq(S), v # <<>>
    PROVE  /\ v \o w # <<>> /\ (v \o w)[1] = Head(v)
           /\ Tail(v) \o w = Tail(v \o w)
<1>1. /\ Tail(v) \in Seq(S) /\ Len(v) \in Nat \ {0} /\ Len(Tail(v)) = Len(v) - 1
      /\ \A i \in 1..Len(Tail(v)) : Tail(v)[i] = v[i + 1]
  BY SMTT(60), Z3T(60)
<1>2. /\ v \o w \in Seq(S) /\ Len(v \o w) = Len(v) + Len(w) /\ v \o w # <<>>
      /\ (v \o w)[1] = Head(v)
  BY SMTT(60), Z3T(60), <1>1
<1>3. /\ Tail(v \o w) \in Seq(S) /\ Tail(v) \o w \in Seq(S)
      /\ Len(Tail(v \o w)) = Len(v \o w) - 1
      /\ \A i \in 1..Len(Tail(v \o w)) : Tail(v \o w)[i] = (v \o w)[i + 1]
  BY Zenon, <1>1, <1>2, HeadTailProperties, ConcatProperties
<1>4. Len(Tail(v) \o w) = Len(Tail(v \o w))
  BY SMTT(60), Z3T(60), <1>1, <1>2, <1>3
<1>5. \A i \in 1..Len(Tail(v) \o w) : (Tail(v) \o w)[i] = Tail(v \o w)[i]
  BY SMTT(60), Z3T(60), <1>1, <1>2, <1>3, <1>4
<1> QED
  BY Zenon, <1>2, <1>3, <1>4, <1>5, SeqEqual

\* The way is made of frames.
LEMMA WayType == TypeOK => way \in [Sessions -> Seq(Frame)]
<1> SUFFICES ASSUME TypeOK, NEW s \in Sessions
             PROVE  wire[s] \o outbound[s] \in Seq(Frame)
  BY Zenon DEF way
<1>1. wire[s] \in Seq(Frame) /\ outbound[s] \in Seq(Frame)
  BY Zenon DEF TypeOK
<1> QED
  BY SMTT(60), Z3T(60), <1>1

\* It stays as long as nothing is queued, written or read.
LEMMA WayStays == UNCHANGED <<wire, outbound>> => way' = way
BY Zenon DEF way

\* What is queued comes last.
Queues(s, f) ==
    /\ outbound' = [outbound EXCEPT ![s] = Append(@, f)]
    /\ wire' = wire

LEMMA WayAppends ==
    ASSUME TypeOK, NEW s \in Sessions, NEW f \in Frame, Queues(s, f)
    PROVE  way' = [way EXCEPT ![s] = Append(@, f)]
<1>1. wire[s] \in Seq(Frame) /\ outbound[s] \in Seq(Frame)
  BY Zenon DEF TypeOK
<1>2. AppendedLast(wire[s], outbound[s], f)
  BY Zenon, <1>1, ConcatAppend
<1>3. \A t \in Sessions : outbound'[t] = IF t = s THEN Append(outbound[s], f) ELSE outbound[t]
  BY Zenon DEF TypeOK, Queues
<1>4. way[s] = wire[s] \o outbound[s] /\ DOMAIN way = Sessions /\ wire' = wire
  BY Zenon DEF way, Queues
<1>5. ASSUME NEW t \in Sessions
      PROVE  wire[t] \o outbound'[t] = IF t = s THEN Append(way[s], f) ELSE way[t]
  <2>1. CASE t = s
    BY Zenon, <1>2, <1>3, <1>4, <2>1 DEF AppendedLast
  <2>2. CASE t # s
    BY Zenon, <1>3, <2>2 DEF way
  <2> QED
    BY Zenon, <2>1, <2>2
<1> QED
  BY Zenon, <1>4, <1>5 DEF way

\* The write of the oldest queued frame changes nothing.
LEMMA WayWritten ==
    ASSUME TypeOK, NEW s \in Sessions, WriteOutbound(s)
    PROVE  way' = way
<1>1. wire[s] \in Seq(Frame) /\ outbound[s] \in Seq(Frame) /\ outbound[s] # <<>>
  BY Zenon DEF TypeOK, WriteOutbound
<1>2. Append(wire[s], Head(outbound[s])) \o Tail(outbound[s]) = wire[s] \o outbound[s]
  BY Zenon, <1>1, ConcatMove
<1>3. \A t \in Sessions : /\ t = s => /\ outbound'[t] = Tail(outbound[s])
                                      /\ wire'[t] = Append(wire[s], Head(outbound[s]))
                          /\ t # s => outbound'[t] = outbound[t] /\ wire'[t] = wire[t]
  BY Zenon DEF TypeOK, WriteOutbound
<1>4. \A t \in Sessions : wire'[t] \o outbound'[t] = wire[t] \o outbound[t]
  BY Zenon, <1>2, <1>3
<1> QED
  BY Zenon, <1>4 DEF way

\* The agent reads the first frame.
LEMMA WayRead ==
    ASSUME TypeOK, NEW s \in Sessions, AgentReads(s)
    PROVE  /\ way[s] # <<>> /\ way[s][1] = Head(wire[s])
           /\ way' = [way EXCEPT ![s] = Tail(@)]
<1>1. wire[s] \in Seq(Frame) /\ outbound[s] \in Seq(Frame) /\ wire[s] # <<>>
  BY Zenon DEF TypeOK, AgentReads
<1>2. /\ wire[s] \o outbound[s] # <<>> /\ (wire[s] \o outbound[s])[1] = Head(wire[s])
      /\ Tail(wire[s]) \o outbound[s] = Tail(wire[s] \o outbound[s])
  BY Zenon, <1>1, ConcatTail
<1>3. \A t \in Sessions : wire'[t] = IF t = s THEN Tail(wire[s]) ELSE wire[t]
  BY Zenon DEF TypeOK, AgentReads
<1>4. outbound' = outbound
  BY Zenon DEF AgentReads, managerVars
<1>5. \A t \in Sessions :
          wire'[t] \o outbound'[t] = IF t = s THEN Tail(way[s]) ELSE way[t]
  BY Zenon, <1>2, <1>3, <1>4 DEF way
<1> QED
  BY Zenon, <1>2, <1>5 DEF way

\* A step of the handler of r keeps the frames in order if what it appends, if
\* anything, is a frame of r: a cancel, or a frame that the end does not precede.
LEMMA QueueStep ==
    ASSUME TypeOK, QueueInvariant, NEW r \in Requests,
           UNCHANGED <<target, stream>>,
           \A q \in Requests \ {r} : pc'[q] = pc[q] /\ status'[q] = status[q],
           pc'[r] \notin {"new", "routed"},
           pc[r] \in Settled =>
               /\ pc'[r] \in Settled
               /\ status'[r] \in {status[r], "502", "504"} \/ stream[r] \in Executed,
           \/ way' = way
           \/ /\ target[r] \in Sessions
              /\ \E f \in [type : {"start", "chunk", "end", "cancel"}, req : {r}, seq : Nat] :
                    /\ way' = [way EXCEPT ![target[r]] = Append(@, f)]
                    /\ f.type # "cancel" => pc[r] \notin Settled /\ stream[r] \notin Executed
                    /\ f.type = "end" => pc'[r] \in Settled /\ status'[r] = "none"
    PROVE  QueueInvariant'
<1> SUFFICES ASSUME NEW s \in Sessions, NEW i \in 1..Len(way'[s])
             PROVE  FramePlace(s, i)' /\ EndPlace(s, i)'
  BY ZenonT(60) DEF QueueInvariant
<1>3. way \in [Sessions -> Seq(Frame)]
  BY Zenon, WayType
<1>0. /\ way[s] \in Seq(Frame) /\ Len(way[s]) \in Nat
      /\ \A j \in 1..Len(way[s]) : way[s][j] \in Frame
  BY SMTT(60), Z3T(60), <1>3
<1>1. CASE way'[s] = way[s]
  <2>1. FramePlace(s, i) /\ EndPlace(s, i) /\ way[s][i] \in Frame
    BY Zenon, <1>0, <1>1 DEF QueueInvariant
  <2>2. way[s][i].type # "opened" => way[s][i].req \in Requests
    BY Zenon, <2>1 DEF Frame
  <2> QED
    BY SMTT(60), Z3T(60), <1>1, <2>1, <2>2 DEF FramePlace, EndPlace
<1>2. CASE way'[s] # way[s]
  <2>1. s = target[r]
    BY Zenon, <1>2, <1>3
  <2>2. PICK f \in [type : {"start", "chunk", "end", "cancel"}, req : {r}, seq : Nat] :
            /\ way' = [way EXCEPT ![target[r]] = Append(@, f)]
            /\ f.type # "cancel" => pc[r] \notin Settled /\ stream[r] \notin Executed
            /\ f.type = "end" => pc'[r] \in Settled /\ status'[r] = "none"
    BY Zenon, <1>2
  <2>3. f \in Frame /\ f.req = r /\ f.type # "opened"
    BY Zenon DEF Frame
  <2>4. way'[s] = Append(way[s], f)
    BY Zenon, <1>3, <2>1, <2>2
  <2>5. /\ Len(way'[s]) = Len(way[s]) + 1
        /\ \A j \in 1..Len(way[s]) : way'[s][j] = way[s][j]
        /\ way'[s][Len(way[s]) + 1] = f
    BY SMTT(60), Z3T(60), <1>0, <2>3, <2>4
  <2>6. CASE i = Len(way[s]) + 1
    <3>1. way'[s][i] = f /\ (i + 1)..Len(way'[s]) = {}
      BY SMTT(60), Z3T(60), <1>0, <2>5, <2>6
    <3> QED
      BY ZenonT(60), <2>1, <2>2, <2>3, <3>1 DEF FramePlace, EndPlace
  <2>7. CASE i # Len(way[s]) + 1
    <3>1. i \in 1..Len(way[s])
      BY SMTT(60), Z3T(60), <1>0, <2>5, <2>7
    <3>2. FramePlace(s, i) /\ EndPlace(s, i) /\ way[s][i] \in Frame
          /\ way'[s][i] = way[s][i]
      BY Zenon, <1>0, <2>5, <3>1 DEF QueueInvariant
    <3>3. way[s][i].type # "opened" => way[s][i].req \in Requests
      BY Zenon, <3>2 DEF Frame
    <3>4. FramePlace(s, i)'
      BY ZenonT(60), <3>2, <3>3 DEF FramePlace
    <3>5. EndPlace(s, i)'
      <4> SUFFICES ASSUME way[s][i].type = "end"
                   PROVE  EndPlace(s, i)'
        BY Zenon, <3>2 DEF EndPlace
      <4> DEFINE q == way[s][i].req
      <4>1. q \in Requests /\ pc[q] \in Settled /\ stream[q] \notin Executed
        BY Zenon, <3>2, <3>3 DEF FramePlace, EndPlace
      <4>2. pc'[q] \in Settled
        BY Zenon, <4>1
      <4>3. status'[q] \in {"none", "502", "504"}
        BY ZenonT(60), <2>1, <3>2, <4>1 DEF EndPlace
      <4>4. ASSUME NEW j \in (i + 1)..Len(way'[s]),
                   way'[s][j].type # "opened", way'[s][j].req = q
            PROVE  way'[s][j].type = "cancel"
        <5>1. CASE j = Len(way[s]) + 1
          BY SMTT(60), Z3T(60), <2>2, <2>3, <2>5, <4>1, <4>4, <5>1
        <5>2. CASE j # Len(way[s]) + 1
          <6>1. j \in (i + 1)..Len(way[s]) /\ j \in 1..Len(way[s])
            BY SMTT(60), Z3T(60), <1>0, <2>5, <3>1, <5>2
          <6> QED
            BY SMTT(60), Z3T(60), <2>5, <3>2, <4>4, <6>1 DEF EndPlace
        <5> QED
          BY ZenonT(60), <5>1, <5>2
      <4> QED
        BY ZenonT(60), <3>2, <4>2, <4>3, <4>4 DEF EndPlace
    <3> QED
      BY Zenon, <3>4, <3>5
  <2> QED
    BY Zenon, <2>6, <2>7
<1> QED
  BY ZenonT(60), <1>1, <1>2

\* A step of the handler of r after it was routed keeps the invariant if, besides
\* keeping the frames in order, it replies only when it leaves.
LEMMA HandlerStep ==
    ASSUME TypeOK, ExecutionInvariant, NEW r \in Requests,
           UNCHANGED <<unsent, target, stream>>,
           \A q \in Requests \ {r} :
               pc'[q] = pc[q] /\ status'[q] = status[q] /\ response'[q] = response[q],
           pc'[r] \notin {"new", "routed"},
           pc'[r] \in Registered => status'[r] = status[r] /\ pc[r] \in Registered \cup {"routed"},
           response'[r] \in {response[r], "empty"},
           pc[r] \in Settled =>
               /\ pc'[r] \in Settled
               /\ status'[r] \in {status[r], "502", "504"} \/ stream[r] \in Executed,
           \/ way' = way
           \/ /\ target[r] \in Sessions
              /\ \E f \in [type : {"start", "chunk", "end", "cancel"}, req : {r}, seq : Nat] :
                    /\ way' = [way EXCEPT ![target[r]] = Append(@, f)]
                    /\ f.type # "cancel" => pc[r] \notin Settled /\ stream[r] \notin Executed
                    /\ f.type = "end" => pc'[r] \in Settled /\ status'[r] = "none"
    PROVE  ExecutionInvariant'
<1>1. QueueInvariant'
  BY ZenonT(60), QueueStep DEF ExecutionInvariant
<1>2. ResponseInvariant'
  BY Zenon DEF ExecutionInvariant, ResponseInvariant, Accounted
<1>3. HandlerInvariant'
  <2> SUFFICES ASSUME NEW q \in Requests
               PROVE  /\ pc'[q] \in {"new", "routed"} \cup Registered => status'[q] = "none"
                      /\ stream[q] \in Executed => pc'[q] \in Settled
                      /\ response'[q] # "empty" => Accounted(q, response'[q])
    BY Zenon DEF HandlerInvariant, Accounted
  <2> QED
    BY SMTT(60), Z3T(60) DEF ExecutionInvariant, HandlerInvariant
<1> QED
  BY Zenon, <1>1, <1>2, <1>3 DEF ExecutionInvariant

\* What sendCancel does to the way.
LEMMA SendCancelAppends ==
    ASSUME TypeOK, NEW r \in Requests, wire' = wire, sendCancel(r)
    PROVE  \/ way' = way
           \/ /\ target[r] \in Sessions
              /\ \E f \in [type : {"start", "chunk", "end", "cancel"}, req : {r}, seq : Nat] :
                    /\ f.type = "cancel"
                    /\ way' = [way EXCEPT ![target[r]] = Append(@, f)]
<1> DEFINE f == [type |-> "cancel", req |-> r, seq |-> 0]
<1>1. /\ f \in [type : {"start", "chunk", "end", "cancel"}, req : {r}, seq : Nat]
      /\ f \in Frame /\ f.type = "cancel"
  BY Zenon DEF Frame
<1>2. CASE outbound' = outbound
  BY Zenon, <1>2, WayStays
<1>3. CASE outbound' # outbound
  <2>1. target[r] \in Sessions /\ outbound' = [outbound EXCEPT ![target[r]] = Append(@, f)]
    BY Zenon, <1>3 DEF sendCancel, CanSend, TypeOK
  <2> HIDE DEF f
  <2>2. way' = [way EXCEPT ![target[r]] = Append(@, f)]
    BY Zenon, <1>1, <2>1, WayAppends DEF Queues
  <2> QED
    BY Zenon, <1>1, <2>1, <2>2
<1> QED
  BY Zenon, <1>2, <1>3

\* Every step of a public handler keeps the invariant.
LEMMA RequestStepExecution ==
    ASSUME TypeOK, DeliveryInvariant, ExecutionInvariant, NEW r \in Requests, RequestStep(r)
    PROVE  ExecutionInvariant'
<1>1. UNCHANGED <<wire, unsent, stream>>
  BY Zenon DEF RequestStep, Route, RegisterRequest, LookupSession, Enqueue, AbandonSend, ReadBody,
         ReceiveResponse, GiveUp, CancelRequest, managerVars, registryVars, sessionVars, agentVars
<1>14. outbound' = outbound => way' = way
  BY Zenon, <1>1, WayStays
<1>15. way \in [Sessions -> Seq(Frame)]
  BY Zenon, WayType
<1>2. stream[r] \in Executed => pc[r] \in Settled
  BY Zenon DEF ExecutionInvariant, HandlerInvariant
<1>3. ASSUME NEW d \in Subdomains, Route(r, d)
      PROVE  ExecutionInvariant'
  <2>1. /\ pc[r] = "new" /\ UNCHANGED <<way, response>>
        /\ \A q \in Requests \ {r} : pc'[q] = pc[q] /\ status'[q] = status[q] /\ target'[q] = target[q]
        /\ pc'[r] \in {"routed", "done"} /\ (pc'[r] = "routed" => status'[r] = status[r])
    BY SMTT(60), Z3T(60), <1>3, <1>14 DEF Route, managerVars, TypeOK
  <2>2. \A s \in Sessions : \A i \in 1..Len(way[s]) :
            way[s][i].type # "opened" => way[s][i].req \in Requests \ {r}
    <3> SUFFICES ASSUME NEW s \in Sessions, NEW i \in 1..Len(way[s]),
                        way[s][i].type # "opened"
                 PROVE  way[s][i].req \in Requests \ {r}
      BY Zenon
    <3>1. way[s][i] \in Frame
      BY SMTT(60), Z3T(60), <1>15
    <3>2. FramePlace(s, i)
      BY Zenon DEF ExecutionInvariant, QueueInvariant
    <3> QED
      BY Zenon, <2>1, <3>1, <3>2, RequestFrame DEF FramePlace
  <2>3. QueueInvariant'
    <3> SUFFICES ASSUME NEW s \in Sessions, NEW i \in 1..Len(way[s])
                 PROVE  FramePlace(s, i)' /\ EndPlace(s, i)'
      BY Zenon, <2>1 DEF QueueInvariant
    <3>1. FramePlace(s, i) /\ EndPlace(s, i)
      BY Zenon DEF ExecutionInvariant, QueueInvariant
    <3> QED
      BY Zenon, <1>1, <2>1, <2>2, <3>1 DEF FramePlace, EndPlace
  <2>4. \A s \in Sessions : \A m \in unsent[s] : m.req \in Requests \ {r}
    BY SMTT(60), Z3T(60), <2>1 DEF DeliveryInvariant, OneResponse, TypeOK, Response
  <2>5. ResponseInvariant'
    BY Zenon, <1>1, <2>1, <2>4 DEF ExecutionInvariant, ResponseInvariant, Accounted
  <2>6. response[r] = "empty"
    BY Zenon, <2>1 DEF DeliveryInvariant, OneResponse
  <2>7. HandlerInvariant'
    BY SMTT(60), Z3T(60), <1>1, <1>2, <2>1, <2>6
    DEF ExecutionInvariant, HandlerInvariant, Accounted, Settled, Registered
  <2> QED
    BY Zenon, <2>3, <2>5, <2>7 DEF ExecutionInvariant
<1>4. CASE RegisterRequest(r)
  <2>1. /\ pc[r] = "routed" /\ pc' = [pc EXCEPT ![r] = "lookup"]
        /\ UNCHANGED <<way, response, target, status>>
    BY Zenon, <1>4, <1>14 DEF RegisterRequest
  <2> QED
    BY Zenon, <1>1, <2>1, HandlerStep DEF TypeOK, Registered, Settled
<1>5. ASSUME pc[r] \in {"lookup", "select", "read"},
             pc' = [pc EXCEPT ![r] = "returning"], NEW c \in Codes, status' = [status EXCEPT ![r] = c],
             UNCHANGED <<response, target>>, way' = way \/ sendCancel(r)
      PROVE  ExecutionInvariant'
  <2>1. pc'[r] = "returning" /\ pc[r] \notin Settled
    BY Zenon, <1>5 DEF TypeOK, Settled
  <2>2. \A q \in Requests \ {r} :
            pc'[q] = pc[q] /\ status'[q] = status[q] /\ response'[q] = response[q]
    BY Zenon, <1>5 DEF TypeOK
  <2> QED
    BY SMTT(60), Z3T(60), <1>1, <1>5, <2>1, <2>2, HandlerStep, SendCancelAppends DEF Registered
<1>6. ASSUME pc[r] \in Registered \ {"waiting"}, NEW p \in Registered \ {"waiting"},
             pc' = [pc EXCEPT ![r] = p], UNCHANGED <<response, target, status, way>>
      PROVE  ExecutionInvariant'
  BY ZenonT(60), <1>1, <1>6, HandlerStep DEF TypeOK, Registered, Settled
<1>7. CASE LookupSession(r)
  <2>1. CASE SendFails(r)
    BY Zenon, <1>5, <1>7, <1>14, <2>1 DEF LookupSession, SendFails, Finish, Codes
  <2>2. CASE ~SendFails(r)
    <3>1. /\ pc[r] = "lookup" /\ pc' = [pc EXCEPT ![r] = "select"]
          /\ UNCHANGED <<response, target, status, way>>
      BY Zenon, <1>7, <1>14, <2>2 DEF LookupSession
    <3> QED
      BY Zenon, <1>6, <3>1 DEF Registered
  <2> QED
    BY Zenon, <2>1, <2>2
<1>8. CASE AbandonSend(r)
  BY Zenon, <1>5, <1>8, <1>14 DEF AbandonSend, SendFails, Finish, Codes
<1>9. CASE Enqueue(r)
  <2> DEFINE f == [type |-> frame[r], req |-> r, seq |-> sequence[r]]
  <2>1. /\ pc[r] = "select" /\ target[r] \in Sessions
        /\ pc'[r] = IF frame[r] = "end" THEN "waiting" ELSE "read"
        /\ \A q \in Requests \ {r} : pc'[q] = pc[q]
        /\ outbound' = [outbound EXCEPT ![target[r]] = Append(@, f)]
        /\ UNCHANGED <<response, target, status>>
    BY Zenon, <1>9 DEF Enqueue, DeliveryInvariant, StaleEntries, Registered, TypeOK
  <2>2. f \in [type : {"start", "chunk", "end", "cancel"}, req : {r}, seq : Nat] /\ f \in Frame
    BY Zenon DEF TypeOK, Frame
  <2>3. pc[r] \notin Settled /\ stream[r] \notin Executed /\ status[r] = "none"
    BY Zenon, <1>2, <2>1 DEF ExecutionInvariant, HandlerInvariant, Settled, Registered
  <2>4. /\ pc'[r] \notin {"new", "routed"} /\ (f.type = "end" => pc'[r] \in Settled)
        /\ pc[r] \in Registered
    BY Zenon, <2>1 DEF Settled, Registered
  <2> HIDE DEF f
  <2>5. way' = [way EXCEPT ![target[r]] = Append(@, f)]
    BY Zenon, <1>1, <2>1, <2>2, WayAppends DEF Queues
  <2> QED
    BY ZenonT(60), <1>1, <2>1, <2>2, <2>3, <2>4, <2>5, HandlerStep
<1>10. CASE ReadBody(r)
  <2>1. ASSUME NEW c \in {"refused", "unavailable"}, Finish(r, c), sendCancel(r)
        PROVE  ExecutionInvariant'
    BY Zenon, <1>5, <1>10, <2>1 DEF ReadBody, Finish, Codes
  <2>2. CASE pc' = [pc EXCEPT ![r] = "lookup"] /\ UNCHANGED <<status, outbound>>
    BY Zenon, <1>6, <1>10, <1>14, <2>2 DEF ReadBody, Registered
  <2> QED
    BY Zenon, <1>10, <2>1, <2>2 DEF ReadBody
<1>11. CASE ReceiveResponse(r)
  <2>1. /\ pc[r] = "waiting" /\ response[r] # "empty" /\ pc'[r] = "returning"
        /\ response'[r] = "empty" /\ UNCHANGED <<way, target>>
        /\ status'[r] = "502" \/ response[r] = "ok"
        /\ \A q \in Requests \ {r} :
               pc'[q] = pc[q] /\ status'[q] = status[q] /\ response'[q] = response[q]
    BY Zenon, <1>11, <1>14 DEF ReceiveResponse, Finish, TypeOK, Kinds
  <2>2. status'[r] = "502" \/ stream[r] \in Executed
    BY Zenon, <2>1 DEF ExecutionInvariant, HandlerInvariant, Accounted, Executed
  <2> QED
    BY Zenon, <1>1, <2>1, <2>2, HandlerStep DEF Settled, Registered
<1>12. CASE GiveUp(r)
  <2>1. /\ pc[r] = "waiting" /\ pc'[r] = "returning" /\ status'[r] = "504"
        /\ UNCHANGED <<response, target>> /\ sendCancel(r)
        /\ \A q \in Requests \ {r} : pc'[q] = pc[q] /\ status'[q] = status[q]
    BY Zenon, <1>12 DEF GiveUp, Finish, TypeOK
  <2> QED
    BY Zenon, <1>1, <2>1, HandlerStep, SendCancelAppends DEF Settled, Registered
<1>13. CASE CancelRequest(r)
  <2>1. /\ pc'[r] = "done" /\ UNCHANGED <<way, response, target, status>>
        /\ \A q \in Requests \ {r} : pc'[q] = pc[q]
    BY Zenon, <1>13, <1>14 DEF CancelRequest, TypeOK
  <2> QED
    BY Zenon, <1>1, <2>1, HandlerStep DEF Settled, Registered
<1> QED
  BY Zenon, <1>3, <1>4, <1>7, <1>8, <1>9, <1>10, <1>11, <1>12, <1>13 DEF RequestStep

\* What the agent's read loop makes of a stream: one it has executed stays so
\* unless it is sent more than a cancel, and only an end makes it execute one.
LEMMA StreamAfterExecuted ==
    ASSUME TypeOK, NEW s \in Sessions, NEW m \in Frame, m.type # "opened"
    PROVE  /\ m.type = "cancel" /\ stream[m.req] \in Executed => StreamAfter(s, m) = stream[m.req]
           /\ StreamAfter(s, m) \in Executed =>
                 \/ m.type = "cancel" /\ stream[m.req] \in Executed
                 \/ m.type = "end" /\ stream[m.req] = "open" /\ StreamAfter(s, m) = "whole"
<1>1. m.req \in Requests /\ m.type \in {"start", "chunk", "end", "cancel"}
  BY Zenon, RequestFrame
<1>2. CASE m.type = "start"
  BY Zenon, <1>2 DEF StreamAfter, Executed
<1>3. CASE m.type = "chunk"
  BY Zenon, <1>3 DEF StreamAfter, Executed
<1>4. CASE m.type = "end"
  BY Zenon, <1>4 DEF StreamAfter, Executed
<1>5. CASE m.type = "cancel"
  BY Zenon, <1>5 DEF StreamAfter, Executed
<1> QED
  BY Zenon, <1>1, <1>2, <1>3, <1>4, <1>5

\* What the first frame m does to the agent's streams when it is read.
LEMMA ReadChangesStream ==
    ASSUME TypeOK, ExecutionInvariant, NEW s \in Sessions, AgentReads(s)
    PROVE  \/ stream' = stream
           \/ LET m == way[s][1]
              IN  /\ 1 \in 1..Len(way[s]) /\ m \in Frame /\ m.type # "opened"
                  /\ m.req \in Requests /\ target[m.req] = s /\ s \in Sessions
                  /\ stream' = [stream EXCEPT ![m.req] = StreamAfter(s, m)]
                  /\ stream[m.req] \in Executed => StreamAfter(s, m) = stream[m.req]
                  /\ StreamAfter(s, m) \in Executed =>
                        \/ stream[m.req] \in Executed
                        \/ m.type = "end" /\ stream[m.req] = "open" /\ StreamAfter(s, m) = "whole"
<1> DEFINE m == way[s][1]
<1>1. way[s] \in Seq(Frame) /\ way[s] # <<>> /\ Head(wire[s]) = m
  BY Zenon, WayType, WayRead
<1>2. 1 \in 1..Len(way[s]) /\ m \in Frame
  BY SMTT(60), Z3T(60), <1>1
<1>3. CASE m.type = "opened"
  BY ZenonT(60), <1>1, <1>3 DEF AgentReads
<1>4. CASE m.type # "opened"
  <2>1. FramePlace(s, 1)
    BY Zenon, <1>2 DEF ExecutionInvariant, QueueInvariant
  <2>2. m.req \in Requests
    BY ZenonT(60), <1>2, <1>4, RequestFrame
  <2>3. stream' = [stream EXCEPT ![m.req] = StreamAfter(s, m)]
    BY Zenon, <1>1, <1>4 DEF AgentReads
  <2> QED
    BY Zenon, <1>2, <1>4, <2>1, <2>2, <2>3, StreamAfterExecuted DEF FramePlace
<1> QED
  BY Zenon, <1>3, <1>4

\* Every step of a session keeps the invariant.
LEMMA SessionStepExecution ==
    ASSUME TypeOK, DeliveryInvariant, ExecutionInvariant, NEW s \in Sessions, SessionStep(s)
    PROVE  ExecutionInvariant'
<1>1. UNCHANGED <<pc, target, status>>
  BY Zenon DEF SessionStep, Register, OpenTunnel, SendOpened, WriteOutbound, AgentReads,
         DeliverResponse, SendResponse, Remove, CloseSession, handlerVars
<1>12. wire' = wire /\ outbound' = outbound => way' = way
  BY Zenon, WayStays
<1>13. way \in [Sessions -> Seq(Frame)]
  BY Zenon, WayType
<1>2. \A t \in Sessions : \A m \in unsent[t] : m.req \in Requests
  BY SMTT(60), Z3T(60) DEF TypeOK, Response
<1>3. \A t \in Sessions : \A i \in 1..Len(way[t]) :
          /\ way[t][i] \in Frame /\ FramePlace(t, i) /\ EndPlace(t, i)
          /\ way[t][i].type # "opened" => way[t][i].req \in Requests
  <2>1. \A t \in Sessions : \A i \in 1..Len(way[t]) : way[t][i] \in Frame
    BY SMTT(60), Z3T(60), <1>13
  <2> QED
    BY Zenon, <2>1, RequestFrame DEF ExecutionInvariant, QueueInvariant
<1>14. ASSUME UNCHANGED <<way, response, unsent, stream>>
       PROVE  ExecutionInvariant'
  <2>1. QueueInvariant'
    BY SMTT(60), Z3T(60), <1>1, <1>3, <1>14 DEF QueueInvariant, FramePlace, EndPlace
  <2>2. ResponseInvariant' /\ HandlerInvariant'
    BY ZenonT(60), <1>1, <1>14
    DEF ExecutionInvariant, ResponseInvariant, HandlerInvariant, Accounted
  <2> QED
    BY Zenon, <2>1, <2>2 DEF ExecutionInvariant
<1>4. CASE Register(s)
  BY Zenon, <1>4, <1>12, <1>14 DEF Register, agentVars
<1>11. ASSUME NEW d \in Subdomains, OpenTunnel(s, d)
       PROVE  ExecutionInvariant'
  BY Zenon, <1>11, <1>12, <1>14 DEF OpenTunnel, managerVars, agentVars
<1>15. CASE WriteOutbound(s)
  <2>1. UNCHANGED <<response, unsent, stream>>
    BY Zenon, <1>15 DEF WriteOutbound, sessionVars
  <2> QED
    BY Zenon, <1>14, <1>15, <2>1, WayWritten
<1>5. CASE SendOpened(s)
  <2> DEFINE p == [type |-> "opened"]
  <2>6. p \in Frame
    BY Zenon DEF Frame
  <2>7. /\ UNCHANGED <<response, unsent, stream, wire>>
        /\ outbound' \in {outbound, [outbound EXCEPT ![s] = Append(@, p)]}
    BY ZenonT(60), <1>5 DEF SendOpened, agentVars
  <2>8. way' \in {way, [way EXCEPT ![s] = Append(@, p)]}
    <3> HIDE DEF p
    <3>1. CASE outbound' = outbound
      BY Zenon, <1>12, <2>7, <3>1
    <3>2. CASE outbound' = [outbound EXCEPT ![s] = Append(@, p)]
      BY Zenon, <2>6, <2>7, <3>2, WayAppends DEF Queues
    <3> QED
      BY Zenon, <2>7, <3>1, <3>2
  <2>1. /\ UNCHANGED <<response, unsent, stream>>
        /\ way' \in {way, [way EXCEPT ![s] = Append(@, [type |-> "opened"])]}
    BY Zenon, <2>7, <2>8
  <2>2. ASSUME NEW t \in Sessions, NEW i \in 1..Len(way'[t])
        PROVE  (FramePlace(t, i) /\ EndPlace(t, i))'
    <3>1. CASE way'[t] = way[t]
      BY SMTT(60), Z3T(60), <1>1, <1>3, <2>1, <3>1 DEF FramePlace, EndPlace
    <3>2. CASE way'[t] # way[t]
      <4>1. [type |-> "opened"] \in Frame /\ [type |-> "opened"].type = "opened"
        BY Zenon DEF Frame
      <4>2. way[t] \in Seq(Frame) /\ way'[t] = Append(way[t], [type |-> "opened"])
        BY ZenonT(60), <1>13, <2>1, <3>2
      <4> DEFINE o == [type |-> "opened"]
      <4> HIDE DEF o
      <4>3. /\ Len(way[t]) \in Nat /\ Len(way'[t]) = Len(way[t]) + 1
            /\ \A j \in 1..Len(way[t]) : way'[t][j] = way[t][j]
            /\ way'[t][Len(way[t]) + 1] = o
        BY SMTT(60), Z3T(60), <4>1, <4>2 DEF o
      <4>4. CASE i = Len(way[t]) + 1
        BY ZenonT(60), <4>1, <4>3, <4>4 DEF FramePlace, EndPlace, o
      <4>5. CASE i # Len(way[t]) + 1
        <5>1. i \in 1..Len(way[t]) /\ way'[t][i] = way[t][i]
          BY SMTT(60), Z3T(60), <4>3, <4>5
        <5>2. \A j \in (i + 1)..Len(way'[t]) :
                  \/ j \in (i + 1)..Len(way[t]) /\ way'[t][j] = way[t][j]
                  \/ way'[t][j].type = "opened"
          BY SMTT(60), Z3T(60), <4>1, <4>3, <5>1 DEF o
        <5> QED
          BY SMTT(60), Z3T(60), <1>1, <1>3, <2>1, <5>1, <5>2 DEF FramePlace, EndPlace
      <4> QED
        BY Zenon, <4>4, <4>5
    <3> QED
      BY ZenonT(60), <3>1, <3>2
  <2>3. QueueInvariant'
    BY Zenon, <2>2 DEF QueueInvariant
  <2>4. ResponseInvariant'
    BY Zenon, <1>1, <2>1 DEF ExecutionInvariant, ResponseInvariant, Accounted
  <2>5. HandlerInvariant'
    BY SMTT(60), Z3T(60), <1>1, <2>1 DEF ExecutionInvariant, HandlerInvariant, Accounted, TypeOK
  <2> QED
    BY Zenon, <2>3, <2>4, <2>5 DEF ExecutionInvariant
<1>6. CASE AgentReads(s)
  <2> DEFINE m == way[s][1]
  <2>1. UNCHANGED <<unsent, response>>
    BY Zenon, <1>6 DEF AgentReads, sessionVars, managerVars
  <2>2. /\ way[s] \in Seq(Frame) /\ way[s] # <<>> /\ way'[s] = Tail(way[s])
        /\ \A t \in Sessions : t # s => way'[t] = way[t]
    BY ZenonT(60), <1>6, <1>13, WayRead
  <2>3. /\ Len(way[s]) \in Nat \ {0} /\ Len(way'[s]) = Len(way[s]) - 1
        /\ \A i \in 1..Len(way'[s]) :
               way'[s][i] = way[s][i + 1] /\ i + 1 \in 1..Len(way[s])
        /\ 1 \in 1..Len(way[s])
    BY SMTT(60), Z3T(60), <2>2
  <2>4. \/ stream' = stream
        \/ /\ m.type # "opened" /\ m.req \in Requests /\ target[m.req] = s
           /\ \A q \in Requests \ {m.req} : stream'[q] = stream[q]
           /\ stream[m.req] \in Executed => stream'[m.req] = stream[m.req]
           /\ stream'[m.req] \in Executed => stream[m.req] \in Executed \/ m.type = "end"
    BY SMTT(60), Z3T(60), <1>6, ReadChangesStream DEF TypeOK
  <2>5. \A q \in Requests : stream[q] = "answered" => stream'[q] = "answered"
    BY Zenon, <2>4 DEF Executed
  <2>6. ResponseInvariant'
    BY Zenon, <1>1, <1>2, <2>1, <2>5 DEF ExecutionInvariant, ResponseInvariant, Accounted
  <2>7. \A q \in Requests : stream'[q] \in Executed => pc[q] \in Settled
    <3>1. EndPlace(s, 1)
      BY Zenon, <1>3, <2>3
    <3> QED
      BY ZenonT(60), <2>4, <3>1 DEF ExecutionInvariant, HandlerInvariant, EndPlace
  <2>8. HandlerInvariant'
    BY ZenonT(60), <1>1, <2>1, <2>5, <2>7 DEF ExecutionInvariant, HandlerInvariant, Accounted
  <2>9. ASSUME NEW i \in 1..Len(way'[s])
        PROVE  (FramePlace(s, i) /\ EndPlace(s, i))'
    <3>1. /\ FramePlace(s, i + 1) /\ EndPlace(s, i + 1) /\ EndPlace(s, 1)
          /\ i + 1 \in 2..Len(way[s]) /\ way'[s][i] = way[s][i + 1]
          /\ way[s][i + 1].type # "opened" => way[s][i + 1].req \in Requests
      BY SMTT(60), Z3T(60), <1>3, <2>3
    <3>2. FramePlace(s, i)'
      <4> SUFFICES ASSUME way[s][i + 1].type # "opened",
                          stream'[way[s][i + 1].req] \in Executed
                   PROVE  way[s][i + 1].type = "cancel"
        BY Zenon, <1>1, <3>1 DEF FramePlace
      <4>1. CASE stream[way[s][i + 1].req] \in Executed
        BY ZenonT(60), <3>1, <4>1 DEF FramePlace
      <4>2. CASE stream[way[s][i + 1].req] \notin Executed
        <5>1. way[s][i + 1].req = m.req /\ m.type = "end"
          BY Zenon, <2>4, <3>1, <4>2
        <5> QED
          BY SMTT(60), Z3T(60), <3>1, <5>1 DEF EndPlace
      <4> QED
        BY Zenon, <4>1, <4>2
    <3>3. EndPlace(s, i)'
      <4>1. \A j \in (i + 1)..Len(way'[s]) :
                j + 1 \in ((i + 1) + 1)..Len(way[s]) /\ way'[s][j] = way[s][j + 1]
        BY SMTT(60), Z3T(60), <2>3
      <4> SUFFICES ASSUME way[s][i + 1].type = "end"
                   PROVE  EndPlace(s, i)'
        BY Zenon, <3>1 DEF EndPlace
      <4>2. \A j \in ((i + 1) + 1)..Len(way[s]) :
                way[s][j].type # "opened" /\ way[s][j].req = way[s][i + 1].req
                    => way[s][j].type = "cancel"
        BY Zenon, <3>1 DEF EndPlace
      <4>3. \A j \in (i + 1)..Len(way'[s]) :
                way'[s][j].type # "opened" /\ way'[s][j].req = way[s][i + 1].req
                    => way'[s][j].type = "cancel"
        BY SMTT(60), Z3T(60), <4>1, <4>2
      <4> QED
        BY ZenonT(60), <1>1, <2>1, <3>1, <4>3 DEF EndPlace
    <3> QED
      BY ZenonT(60), <3>2, <3>3
  <2>10. ASSUME NEW t \in Sessions, t # s, NEW i \in 1..Len(way'[t])
         PROVE  (FramePlace(t, i) /\ EndPlace(t, i))'
    <3>1. way'[t] = way[t] /\ FramePlace(t, i) /\ EndPlace(t, i)
          /\ (way[t][i].type # "opened" => way[t][i].req \in Requests)
      BY Zenon, <1>3, <2>2, <2>10
    <3>2. way[t][i].type # "opened" => stream'[way[t][i].req] = stream[way[t][i].req]
      BY ZenonT(60), <2>4, <2>10, <3>1 DEF FramePlace
    <3> QED
      BY Zenon, <1>1, <2>1, <3>1, <3>2 DEF FramePlace, EndPlace
  <2>11. QueueInvariant'
    BY ZenonT(60), <2>9, <2>10 DEF QueueInvariant
  <2> QED
    BY Zenon, <2>6, <2>8, <2>11 DEF ExecutionInvariant
<1>7. ASSUME NEW r \in Requests, NEW k \in Kinds, DeliverResponse(s, r, k)
      PROVE  ExecutionInvariant'
  <2>1. /\ stream[r] = "whole" /\ stream'[r] = "answered" /\ UNCHANGED <<way, response>>
        /\ \A q \in Requests \ {r} : stream'[q] = stream[q]
        /\ \A t \in Sessions : t # s => unsent'[t] = unsent[t]
        /\ \A m \in unsent'[s] : m.req = r
    BY SMTT(60), Z3T(60), <1>7, <1>12 DEF DeliverResponse, TypeOK
  <2>2. QueueInvariant'
    BY SMTT(60), Z3T(60), <1>1, <1>3, <2>1 DEF QueueInvariant, FramePlace, EndPlace, Executed
  <2>3. ResponseInvariant'
    BY ZenonT(60), <1>1, <1>2, <2>1 DEF ExecutionInvariant, ResponseInvariant, Accounted
  <2>4. HandlerInvariant'
    BY ZenonT(60), <1>1, <2>1 DEF ExecutionInvariant, HandlerInvariant, Accounted, Executed
  <2> QED
    BY ZenonT(60), <2>2, <2>3, <2>4 DEF ExecutionInvariant
<1>8. CASE SendResponse(s)
  <2>1. UNCHANGED <<way, stream>>
    BY Zenon, <1>8, <1>12 DEF SendResponse, agentVars
  <2>2. PICK m \in unsent[s] : response' = [response EXCEPT ![m.req] = m.kind]
                               /\ unsent' = [unsent EXCEPT ![s] = @ \ {m}]
    BY Zenon, <1>8 DEF SendResponse
  <2>3. /\ \A q \in Requests : response'[q] = IF q = m.req THEN m.kind ELSE response[q]
        /\ \A t \in Sessions : unsent'[t] \subseteq unsent[t]
    BY ZenonT(60), <2>2 DEF TypeOK
  <2>4. QueueInvariant'
    BY SMTT(60), Z3T(60), <1>1, <1>3, <2>1 DEF QueueInvariant, FramePlace, EndPlace
  <2>5. ResponseInvariant'
    BY ZenonT(60), <1>1, <2>1, <2>3 DEF ExecutionInvariant, ResponseInvariant, Accounted
  <2>6. HandlerInvariant'
    <3>1. \A q \in Requests : response'[q] # "empty" => Accounted(q, response'[q])
      BY ZenonT(30), <2>2, <2>3 DEF ExecutionInvariant, HandlerInvariant, ResponseInvariant
    <3> QED
      BY ZenonT(30), <1>1, <2>1, <3>1 DEF ExecutionInvariant, HandlerInvariant, Accounted
  <2> QED
    BY Zenon, <2>4, <2>5, <2>6 DEF ExecutionInvariant
<1>9. CASE Remove(s)
  <2>1. /\ UNCHANGED <<way, response, stream>>
        /\ \A t \in Sessions : t # s => unsent'[t] = unsent[t]
        /\ \A m \in unsent'[s] : m.kind = "error" /\ m.req \in Requests /\ pending[m.req] = s
    BY SMTT(60), Z3T(60), <1>9, <1>12 DEF Remove, agentVars, TypeOK
  <2>2. QueueInvariant'
    BY SMTT(60), Z3T(60), <1>1, <1>3, <2>1 DEF QueueInvariant, FramePlace, EndPlace
  <2>3. \A m \in unsent'[s] : target[m.req] = s
    BY SMTT(60), Z3T(60), <2>1, NoneAssumption DEF DeliveryInvariant, PendingHasHandler
  <2>4. ResponseInvariant'
    BY ZenonT(60), <1>1, <1>2, <2>1, <2>3 DEF ExecutionInvariant, ResponseInvariant, Accounted
  <2>5. HandlerInvariant'
    BY SMTT(60), Z3T(60), <1>1, <2>1 DEF ExecutionInvariant, HandlerInvariant, Accounted, TypeOK
  <2> QED
    BY Zenon, <2>2, <2>4, <2>5 DEF ExecutionInvariant
<1>10. CASE CloseSession(s)
  BY Zenon, <1>10, <1>12, <1>14 DEF CloseSession, managerVars, agentVars
<1> QED
  BY <1>4, <1>5, <1>6, <1>7, <1>8, <1>9, <1>10, <1>11, <1>15 DEF SessionStep

\* Where the frames and the response of every request are, in relation to its
\* execution by the agent and the reply of ServeHTTP.
THEOREM Execution == Spec => []ExecutionInvariant
<1>1. Init => ExecutionInvariant
  <2>1. Init => QueueInvariant
    BY SMTT(60), Z3T(60) DEF Init, QueueInvariant, way
  <2>2. Init => HandlerInvariant /\ ResponseInvariant
    BY SMTT(60), Z3T(60) DEF Init, HandlerInvariant, ResponseInvariant, Executed
  <2> QED
    BY Zenon, <2>1, <2>2 DEF ExecutionInvariant
<1>2. TypeOK /\ DeliveryInvariant /\ ExecutionInvariant /\ [Next]_vars => ExecutionInvariant'
  <2> SUFFICES ASSUME TypeOK, DeliveryInvariant, ExecutionInvariant, [Next]_vars
               PROVE  ExecutionInvariant'
    BY ZenonT(60)
  <2>1. CASE UNCHANGED vars
    <3>1. UNCHANGED <<way, response, unsent, pc, target, status, stream>>
      BY Zenon, <2>1, WayStays DEF vars, managerVars, sessionVars, handlerVars, agentVars
    <3> QED
      BY SMTT(60), Z3T(60), <3>1 DEF ExecutionInvariant, QueueInvariant, FramePlace, EndPlace, HandlerInvariant,
                  ResponseInvariant, Accounted
  <2> QED
    BY ZenonT(60), <2>1, SessionStepExecution, RequestStepExecution DEF Next, Terminated
<1> QED
  BY <1>1, <1>2, TypeCorrect, Delivery, PTL DEF Spec

\* A step of a session is an execution of the contract, or no step of it: the agent
\* executes a request once, and none that has been refused or not sent in whole.
LEMMA SessionStepRefines ==
    ASSUME TypeOK, DeliveryInvariant, ExecutionInvariant, NEW s \in Sessions, SessionStep(s)
    PROVE  [Contract!Next]_<<status, {r \in Requests : stream[r] \in {"whole", "answered"}}>>
<1> DEFINE executed == {r \in Requests : stream[r] \in {"whole", "answered"}}
<1>1. status' = status
  BY Zenon DEF SessionStep, Register, OpenTunnel, SendOpened, WriteOutbound, AgentReads,
         DeliverResponse, SendResponse, Remove, CloseSession, handlerVars
<1>2. CASE AgentReads(s)
  <2> DEFINE m == way[s][1]
  <2>1. CASE executed' = executed
    BY Zenon, <1>1, <2>1
  <2>2. CASE executed' # executed
    <3>1. /\ stream' # stream /\ 1 \in 1..Len(way[s])
          /\ m.req \in Requests /\ stream' = [stream EXCEPT ![m.req] = StreamAfter(s, m)]
          /\ stream[m.req] \in Executed => StreamAfter(s, m) = stream[m.req]
          /\ StreamAfter(s, m) \in Executed =>
                \/ stream[m.req] \in Executed
                \/ m.type = "end" /\ stream[m.req] = "open" /\ StreamAfter(s, m) = "whole"
      BY ZenonT(60), <1>2, <2>2, ReadChangesStream
    <3>2. m.type = "end" /\ stream[m.req] = "open" /\ stream' = [stream EXCEPT ![m.req] = "whole"]
      BY ZenonT(60), <2>2, <3>1 DEF TypeOK, Executed
    <3>3. m.req \notin executed /\ executed' = executed \cup {m.req}
      BY SMTT(60), Z3T(60), <3>1, <3>2 DEF TypeOK
    <3>5. EndPlace(s, 1)
      BY ZenonT(60), <3>1 DEF ExecutionInvariant, QueueInvariant
    <3>6. status[m.req] \in {"none", "502", "504"}
      BY ZenonT(60), <3>2, <3>5 DEF EndPlace
    <3>7. PICK r \in Requests : r = m.req
      BY Zenon, <3>1
    <3> HIDE DEF m, executed
    <3>8. Contract!Execute(r)
      BY Zenon, <1>1, <3>3, <3>6, <3>7 DEF Contract!Execute, executed
    <3> QED
      BY ZenonT(60), <3>8 DEF Contract!Next
  <2> QED
    BY Zenon, <2>1, <2>2
<1>3. ASSUME NEW r \in Requests, NEW k \in Kinds, DeliverResponse(s, r, k)
      PROVE  executed' = executed
  BY Zenon, <1>3 DEF DeliverResponse, TypeOK
<1>4. CASE stream' = stream
  BY Zenon, <1>1, <1>4
<1>5. Register(s) \/ (\E d \in Subdomains : OpenTunnel(s, d)) \/ SendOpened(s) \/ WriteOutbound(s)
      \/ SendResponse(s) \/ Remove(s) \/ CloseSession(s) => stream' = stream
  BY Zenon DEF Register, OpenTunnel, SendOpened, WriteOutbound, SendResponse, Remove, CloseSession, agentVars
<1> QED
  BY Zenon, <1>1, <1>2, <1>3, <1>4, <1>5 DEF SessionStep

\* A step of a public handler is a reply of the contract, or no step of it: it
\* replies once, with a success only what the agent executed, and what it refuses
\* or cannot send in whole was not executed.
LEMMA RequestStepRefines ==
    ASSUME TypeOK, DeliveryInvariant, ExecutionInvariant, NEW r \in Requests, RequestStep(r)
    PROVE  [Contract!Next]_<<status, {q \in Requests : stream[q] \in {"whole", "answered"}}>>
<1> DEFINE executed == {q \in Requests : stream[q] \in {"whole", "answered"}}
<1>1. stream' = stream
  BY Zenon DEF RequestStep, Route, RegisterRequest, LookupSession, Enqueue, AbandonSend, ReadBody,
         ReceiveResponse, GiveUp, CancelRequest, agentVars
<1>2. CASE status' = status
  BY Zenon, <1>1, <1>2
<1>3. ASSUME pc[r] \in {"new", "routed"} \cup Registered, NEW code \in Codes \ {"none"},
             status' = [status EXCEPT ![r] = code],
             code = "200" => stream[r] = "answered",
             code \in {"refused", "unavailable"} => pc[r] \notin Settled
      PROVE  Contract!Next
  <2>1. /\ status[r] = "none"
        /\ code = "200" => r \in executed
        /\ code \in {"refused", "unavailable"} => r \notin executed
        /\ executed' = executed
    BY Zenon, <1>1, <1>3 DEF ExecutionInvariant, HandlerInvariant, Executed
  <2> HIDE DEF executed
  <2>2. Contract!Reply(r, code)
    BY Zenon, <1>3, <2>1 DEF Contract!Reply, executed
  <2> QED
    BY Zenon, <2>2 DEF Contract!Next
<1>4. ASSUME NEW d \in Subdomains, Route(r, d), status' # status
      PROVE  Contract!Next
  BY ZenonT(60), <1>3, <1>4 DEF Route, Codes, Settled
<1>5. ASSUME LookupSession(r) \/ AbandonSend(r), status' # status
      PROVE  Contract!Next
  BY <1>3, <1>5 DEF LookupSession, AbandonSend, SendFails, Finish, Codes, Settled, Registered
<1>6. ASSUME ReadBody(r), status' # status
      PROVE  Contract!Next
  BY Zenon, <1>3, <1>6 DEF ReadBody, Finish, Codes, Settled, Registered
<1>7. ASSUME ReceiveResponse(r)
      PROVE  Contract!Next
  <2>1. response[r] = "ok" => stream[r] = "answered"
    BY Zenon, <1>7 DEF ExecutionInvariant, HandlerInvariant, Accounted
  <2> QED
    BY Zenon, <1>3, <1>7, <2>1 DEF ReceiveResponse, Finish, Codes, Registered
<1>8. ASSUME GiveUp(r)
      PROVE  Contract!Next
  BY ZenonT(60), <1>3, <1>8 DEF GiveUp, Finish, Codes, Registered
<1>9. RegisterRequest(r) \/ Enqueue(r) \/ CancelRequest(r) => status' = status
  BY Zenon DEF RegisterRequest, Enqueue, CancelRequest
<1> QED
  BY ZenonT(60), <1>2, <1>4, <1>5, <1>6, <1>7, <1>8, <1>9 DEF RequestStep

\* The gateway keeps the contract with its public clients, for any number of
\* requests and sessions and any capacity of the queues: ServeHTTP replies once, a
\* success is what the local service answered, and the agent executes a request at
\* most once and never, before the reply or after it, one that was refused or could
\* not be sent in whole.
THEOREM Refinement == Spec => ImplementsContract
<1>1. Init => Contract!Init
  BY SMTT(60), Z3T(60) DEF Init, Contract!Init
<1>2. TypeOK /\ DeliveryInvariant /\ ExecutionInvariant /\ [Next]_vars
        => [Contract!Next]_<<status, {r \in Requests : stream[r] \in {"whole", "answered"}}>>
  <2> SUFFICES ASSUME TypeOK, DeliveryInvariant, ExecutionInvariant, [Next]_vars
               PROVE  [Contract!Next]_<<status, {r \in Requests : stream[r] \in {"whole", "answered"}}>>
    BY Zenon
  <2>1. CASE UNCHANGED vars
    BY Zenon, <2>1 DEF vars, handlerVars, agentVars
  <2> QED
    BY Zenon, <2>1, SessionStepRefines, RequestStepRefines DEF Next, Terminated
<1> QED
  BY <1>1, <1>2, TypeCorrect, Delivery, Execution, PTL DEF Spec, ImplementsContract, Contract!Spec

--------------------------------------------------------------------------------
(* The order of the frames *)

\* The frame m is one of request r.
IsOf(m, r) == m.type # "opened" /\ m.req = r

\* At place i of the way the agent, whose streams are st and nx now, will have received
\* the start of r and n chunks, and no end and no cancel: it has by now, and nothing of r is
\* on the way before i, or the last frame of r before i is that start or chunk.
Ready(st, nx, queue, i, r, n) ==
    \/ /\ st[r] = "open" /\ nx[r] = n
       /\ \A j \in 1..(i - 1) : ~IsOf(queue[j], r)
    \/ \E j \in 1..(i - 1) :
          /\ IsOf(queue[j], r)
          /\ \/ queue[j].type = "start" /\ n = 0
             \/ queue[j].type = "chunk" /\ n = queue[j].seq + 1
          /\ \A l \in (j + 1)..(i - 1) : ~IsOf(queue[l], r)

\* A start comes first, a chunk when it is the turn of its sequence number, an end
\* after the start or a chunk.
InTurn(st, nx, queue, i) ==
    /\ queue[i].type = "start" =>
          /\ st[queue[i].req] = "none"
          /\ \A j \in 1..(i - 1) : ~IsOf(queue[j], queue[i].req)
    /\ queue[i].type \in {"chunk", "end"} => Ready(st, nx, queue, i, queue[i].req, queue[i].seq)

\* The handler of r has not queued its start; or it has, and the frame it queues next
\* has its turn.
Unbegun(r) == pc[r] \in {"new", "routed"} \/ (pc[r] \in {"lookup", "select"} /\ frame[r] = "start")
Begun(r) == pc[r] = "read" \/ (pc[r] \in {"lookup", "select"} /\ frame[r] # "start")

HandlerInTurn(r) ==
    /\ Unbegun(r) =>
          /\ sequence[r] = 0 /\ stream[r] = "none"
          /\ \A s \in Sessions : \A i \in 1..Len(way[s]) : ~IsOf(way[s][i], r)
    /\ Begun(r) =>
          /\ target[r] \in Sessions
          /\ Ready(stream, next, way[target[r]], Len(way[target[r]]) + 1, r, sequence[r])

StreamInvariant ==
    /\ NoRejectedStream
    /\ \A s \in Sessions : \A i \in 1..Len(way[s]) : InTurn(stream, next, way[s], i)
    /\ \A r \in Requests : HandlerInTurn(r)

\* Whether it is the turn of a frame depends on the frames before it.
LEMMA ReadyPrefix ==
    ASSUME NEW st, NEW nx, NEW st2, NEW nx2, NEW q, NEW q2, NEW i, NEW r, NEW n, Ready(st, nx, q, i, r, n),
           \A j \in 1..(i - 1) : q2[j] = q[j], st2[r] = st[r], nx2[r] = nx[r]
    PROVE  Ready(st2, nx2, q2, i, r, n)
<1>1. CASE st[r] = "open" /\ nx[r] = n /\ \A j \in 1..(i - 1) : ~IsOf(q[j], r)
  BY <1>1 DEF Ready, IsOf
<1>2. CASE ~(st[r] = "open" /\ nx[r] = n /\ \A j \in 1..(i - 1) : ~IsOf(q[j], r))
  <2>1. PICK j \in 1..(i - 1) :
            /\ IsOf(q[j], r)
            /\ \/ q[j].type = "start" /\ n = 0
               \/ q[j].type = "chunk" /\ n = q[j].seq + 1
            /\ \A l \in (j + 1)..(i - 1) : ~IsOf(q[l], r)
    BY <1>2 DEF Ready
  <2>2. \A l \in (j + 1)..(i - 1) : l \in 1..(i - 1)
    BY SMTT(60), Z3T(60)
  <2>3. /\ IsOf(q2[j], r)
        /\ \/ q2[j].type = "start" /\ n = 0
           \/ q2[j].type = "chunk" /\ n = q2[j].seq + 1
        /\ \A l \in (j + 1)..(i - 1) : ~IsOf(q2[l], r)
    BY Zenon, <2>1, <2>2 DEF IsOf
  <2> QED
    BY Zenon, <2>3 DEF Ready, IsOf
<1> QED
  BY ZenonT(60), <1>1, <1>2

\* A frame of another request does not take the turn.
LEMMA ReadySkips ==
    ASSUME NEW st, NEW nx, NEW q, NEW i \in Nat \ {0}, NEW r, NEW n, Ready(st, nx, q, i, r, n), ~IsOf(q[i], r)
    PROVE  Ready(st, nx, q, i + 1, r, n)
<1>0. /\ \A l \in 1..((i + 1) - 1) : l = i \/ l \in 1..(i - 1)
      /\ \A j \in 1..(i - 1) : /\ j \in 1..((i + 1) - 1)
                               /\ \A l \in (j + 1)..((i + 1) - 1) : l = i \/ l \in (j + 1)..(i - 1)
  BY SMTT(60), Z3T(60)
<1>1. CASE st[r] = "open" /\ nx[r] = n /\ \A j \in 1..(i - 1) : ~IsOf(q[j], r)
  BY Zenon, <1>0, <1>1 DEF Ready
<1>2. CASE ~(st[r] = "open" /\ nx[r] = n /\ \A j \in 1..(i - 1) : ~IsOf(q[j], r))
  BY Zenon, <1>0, <1>2 DEF Ready
<1> QED
  BY Zenon, <1>1, <1>2

\* After the start it is the turn of chunk 0, and after each chunk that of the next.
LEMMA ReadyAfter ==
    ASSUME NEW st, NEW nx, NEW q, NEW i \in Nat \ {0}, NEW r, NEW n, IsOf(q[i], r),
           \/ q[i].type = "start" /\ n = 0
           \/ q[i].type = "chunk" /\ n = q[i].seq + 1
    PROVE  Ready(st, nx, q, i + 1, r, n)
<1>1. i \in 1..((i + 1) - 1) /\ (i + 1)..((i + 1) - 1) = {}
  BY SMTT(60), Z3T(60)
<1> QED
  BY Zenon, <1>1 DEF Ready

\* When the first frame is read turns do not change, if the agent takes a start
\* or a chunk that is the head.
LEMMA ReadyTail ==
    ASSUME NEW st, NEW nx, NEW st2, NEW nx2, NEW q \in Seq(Frame), q # <<>>, NEW i \in 1..Len(q),
           NEW r, NEW n, Ready(st, nx, q, i + 1, r, n),
           IsOf(q[1], r) => /\ q[1].type = "start" => st2[r] = "open" /\ nx2[r] = 0
                            /\ q[1].type = "chunk" => st2[r] = "open" /\ nx2[r] = q[1].seq + 1,
           ~IsOf(q[1], r) => st2[r] = st[r] /\ nx2[r] = nx[r]
    PROVE  Ready(st2, nx2, Tail(q), i, r, n)
<1> DEFINE t == Tail(q)
<1>1. \A j \in 1..(i - 1) : t[j] = q[j + 1] /\ j + 1 \in 1..((i + 1) - 1)
  BY SMTT(60), Z3T(60)
<1>2. 1 \in 1..((i + 1) - 1)
  BY SMTT(60), Z3T(60)
<1> HIDE DEF t
<1>3. CASE \A j \in 1..((i + 1) - 1) : ~IsOf(q[j], r)
  <2>1. st[r] = "open" /\ nx[r] = n
    BY Zenon, <1>3 DEF Ready
  <2>2. \A j \in 1..(i - 1) : ~IsOf(t[j], r)
    BY Zenon, <1>1, <1>3
  <2>3. st2[r] = "open" /\ nx2[r] = n
    BY ZenonT(60), <1>2, <1>3, <2>1
  <2> QED
    BY Zenon, <2>2, <2>3 DEF Ready, t, IsOf
<1>4. CASE ~\A j \in 1..((i + 1) - 1) : ~IsOf(q[j], r)
  <2>1. PICK j \in 1..((i + 1) - 1) :
            /\ IsOf(q[j], r)
            /\ \/ q[j].type = "start" /\ n = 0
               \/ q[j].type = "chunk" /\ n = q[j].seq + 1
            /\ \A l \in (j + 1)..((i + 1) - 1) : ~IsOf(q[l], r)
    BY Zenon, <1>4 DEF Ready
  <2>2. CASE j = 1
    <3>1. st2[r] = "open" /\ nx2[r] = n
      BY Zenon, <2>1, <2>2
    <3>2. \A l \in 1..(i - 1) : l + 1 \in (j + 1)..((i + 1) - 1)
      BY SMTT(60), Z3T(60), <2>2
    <3>3. \A l \in 1..(i - 1) : ~IsOf(t[l], r)
      BY ZenonT(60), <1>1, <2>1, <3>2
    <3> QED
      BY ZenonT(60), <3>1, <3>3 DEF Ready, t, IsOf
  <2>3. CASE j # 1
    <3>1. PICK k \in 1..(i - 1) : k + 1 = j
      <4>1. j - 1 \in 1..(i - 1) /\ (j - 1) + 1 = j
        BY SMTT(60), Z3T(60), <2>3
      <4> QED
        BY Zenon, <4>1
    <3>2. \A l \in (k + 1)..(i - 1) : l \in 1..(i - 1) /\ l + 1 \in (j + 1)..((i + 1) - 1)
      BY SMTT(60), Z3T(60), <3>1
    <3>3. /\ IsOf(t[k], r)
          /\ \/ t[k].type = "start" /\ n = 0
             \/ t[k].type = "chunk" /\ n = t[k].seq + 1
          /\ \A l \in (k + 1)..(i - 1) : ~IsOf(t[l], r)
      <4>1. t[k] = q[j]
        BY ZenonT(60), <1>1, <3>1
      <4>2. \A l \in (k + 1)..(i - 1) : ~IsOf(t[l], r)
        BY Zenon, <1>1, <2>1, <3>2
      <4> QED
        BY Zenon, <2>1, <4>1, <4>2
    <3> QED
      BY Zenon, <3>3 DEF Ready, t, IsOf
  <2> QED
    BY Zenon, <2>2, <2>3
<1> QED
  BY Zenon, <1>3, <1>4

\* Appending a frame changes no turn before it, nor that of the requests it is not of.
LEMMA AppendKeepsTurns ==
    ASSUME NEW st, NEW nx, NEW q \in Seq(Frame), NEW f \in Frame,
           NEW q2, q2 = Append(q, f)
    PROVE  /\ q2[Len(q) + 1] = f /\ Len(q2) = Len(q) + 1 /\ Len(q) + 1 \in Nat \ {0}
           /\ 1..Len(q2) = 1..Len(q) \cup {Len(q) + 1}
           /\ \A i \in 1..Len(q) :
                 q2[i] = q[i] /\ (InTurn(st, nx, q, i) => InTurn(st, nx, q2, i))
           /\ \A r, n : Ready(st, nx, q, Len(q) + 1, r, n) =>
                 /\ Ready(st, nx, q2, Len(q) + 1, r, n)
                 /\ ~IsOf(f, r) => Ready(st, nx, q2, Len(q2) + 1, r, n)
<1>1. /\ q2[Len(q) + 1] = f /\ Len(q2) = Len(q) + 1 /\ Len(q) + 1 \in Nat \ {0}
      /\ 1..Len(q2) = 1..Len(q) \cup {Len(q) + 1}
      /\ \A i \in 1..Len(q) : q2[i] = q[i]
      /\ \A i \in 1..Len(q) : \A j \in 1..(i - 1) : q2[j] = q[j]
      /\ \A j \in 1..((Len(q) + 1) - 1) : q2[j] = q[j]
  BY SMTT(60), Z3T(60)
<1>2. ASSUME NEW i \in 1..Len(q), InTurn(st, nx, q, i)
      PROVE  InTurn(st, nx, q2, i)
  <2>1. \A r, n : Ready(st, nx, q, i, r, n) => Ready(st, nx, q2, i, r, n)
    BY Zenon, <1>1, ReadyPrefix
  <2> QED
    BY Zenon, <1>1, <1>2, <2>1 DEF InTurn
<1>3. ASSUME NEW r, NEW n, Ready(st, nx, q, Len(q) + 1, r, n)
      PROVE  /\ Ready(st, nx, q2, Len(q) + 1, r, n)
             /\ ~IsOf(f, r) => Ready(st, nx, q2, Len(q2) + 1, r, n)
  <2>1. Ready(st, nx, q2, Len(q) + 1, r, n)
    BY Zenon, <1>1, <1>3, ReadyPrefix
  <2> QED
    BY ZenonT(60), <1>1, <2>1, ReadySkips
<1> QED
  BY Zenon, <1>1, <1>2, <1>3

\* The step of one handler, of r, keeps the turns if the frame it appends, if any, has
\* its turn and is followed by the next.
LEMMA HandlerKeepsTurns ==
    ASSUME TypeOK, StreamInvariant, NEW r \in Requests, UNCHANGED <<stream, next>>,
           \A q \in Requests \ {r} :
               /\ pc'[q] = pc[q] /\ frame'[q] = frame[q]
               /\ sequence'[q] = sequence[q] /\ target'[q] = target[q],
           \/ /\ way' = way
              /\ Unbegun(r)' => Unbegun(r) /\ sequence'[r] = sequence[r]
              /\ Begun(r)' => Begun(r) /\ sequence'[r] = sequence[r] /\ target'[r] = target[r]
           \/ /\ target[r] \in Sessions /\ target'[r] = target[r] /\ ~Unbegun(r)'
              /\ \E f \in [type : {"start", "chunk", "end", "cancel"}, req : {r}, seq : Nat] :
                    /\ way' = [way EXCEPT ![target[r]] = Append(@, f)]
                    /\ f.type = "start" => Unbegun(r)
                    /\ f.type \in {"chunk", "end"} => Begun(r) /\ f.seq = sequence[r]
                    /\ Begun(r)' => \/ f.type = "start" /\ sequence'[r] = 0
                                    \/ f.type = "chunk" /\ sequence'[r] = f.seq + 1
    PROVE  StreamInvariant'
<1>0. NoRejectedStream'
  BY ZenonT(60) DEF StreamInvariant, NoRejectedStream
<1>4. way \in [Sessions -> Seq(Frame)]
  BY Zenon, WayType
<1>1. \A q \in Requests \ {r} : (Unbegun(q)' <=> Unbegun(q)) /\ (Begun(q)' <=> Begun(q))
  BY Zenon DEF Unbegun, Begun
<1>2. CASE /\ way' = way
           /\ Unbegun(r)' => Unbegun(r) /\ sequence'[r] = sequence[r]
           /\ Begun(r)' => Begun(r) /\ sequence'[r] = sequence[r] /\ target'[r] = target[r]
  <2>1. \A s \in Sessions : \A i \in 1..Len(way'[s]) : InTurn(stream', next', way'[s], i)
    BY ZenonT(60), <1>2 DEF StreamInvariant
  <2>2. ASSUME NEW q \in Requests
        PROVE  HandlerInTurn(q)'
    <3>1. HandlerInTurn(q)
      BY Zenon DEF StreamInvariant
    <3>2. /\ Unbegun(q)' => Unbegun(q) /\ sequence'[q] = sequence[q]
          /\ Begun(q)' => Begun(q) /\ sequence'[q] = sequence[q] /\ target'[q] = target[q]
      BY ZenonT(60), <1>1, <1>2
    <3> QED
      BY Zenon, <1>2, <3>1, <3>2 DEF HandlerInTurn
  <2> QED
    BY Zenon, <1>0, <2>1, <2>2 DEF StreamInvariant
<1>3. CASE /\ target[r] \in Sessions /\ target'[r] = target[r] /\ ~Unbegun(r)'
           /\ \E f \in [type : {"start", "chunk", "end", "cancel"}, req : {r}, seq : Nat] :
                 /\ way' = [way EXCEPT ![target[r]] = Append(@, f)]
                 /\ f.type = "start" => Unbegun(r)
                 /\ f.type \in {"chunk", "end"} => Begun(r) /\ f.seq = sequence[r]
                 /\ Begun(r)' => \/ f.type = "start" /\ sequence'[r] = 0
                                 \/ f.type = "chunk" /\ sequence'[r] = f.seq + 1
  <2> DEFINE s == target[r]
  <2>1. PICK f \in [type : {"start", "chunk", "end", "cancel"}, req : {r}, seq : Nat] :
            /\ way' = [way EXCEPT ![s] = Append(@, f)]
            /\ f.type = "start" => Unbegun(r)
            /\ f.type \in {"chunk", "end"} => Begun(r) /\ f.seq = sequence[r]
            /\ Begun(r)' => \/ f.type = "start" /\ sequence'[r] = 0
                            \/ f.type = "chunk" /\ sequence'[r] = f.seq + 1
    BY ZenonT(60), <1>3
  <2>2. s \in Sessions /\ way[s] \in Seq(Frame) /\ way'[s] = Append(way[s], f)
    BY Zenon, <1>3, <1>4, <2>1
  <2>3. \A t \in Sessions \ {s} : way'[t] = way[t]
    BY ZenonT(60), <1>4, <2>1
  <2>4. f \in Frame /\ f.type # "opened" /\ f.req = r
    BY DEF Frame
  <2>5. \A q \in Requests : IsOf(f, q) <=> q = r
    BY Zenon, <2>4 DEF IsOf
  <2> HIDE DEF s
  <2>6. /\ way'[s][Len(way[s]) + 1] = f
        /\ Len(way'[s]) = Len(way[s]) + 1 /\ Len(way[s]) + 1 \in Nat \ {0}
        /\ 1..Len(way'[s]) = 1..Len(way[s]) \cup {Len(way[s]) + 1}
        /\ \A i \in 1..Len(way[s]) :
              /\ way'[s][i] = way[s][i]
              /\ InTurn(stream, next, way[s], i) => InTurn(stream, next, way'[s], i)
        /\ \A q, n : Ready(stream, next, way[s], Len(way[s]) + 1, q, n) =>
              /\ Ready(stream, next, way'[s], Len(way[s]) + 1, q, n)
              /\ ~IsOf(f, q) => Ready(stream, next, way'[s], Len(way'[s]) + 1, q, n)
    <3> DEFINE o == way[s]
               o2 == way'[s]
    <3>1. o \in Seq(Frame) /\ o2 = Append(o, f) /\ f \in Frame
      BY Zenon, <2>2, <2>4
    <3> HIDE DEF o, o2
    <3>2. /\ o2[Len(o) + 1] = f /\ Len(o2) = Len(o) + 1 /\ Len(o) + 1 \in Nat \ {0}
          /\ 1..Len(o2) = 1..Len(o) \cup {Len(o) + 1}
          /\ \A i \in 1..Len(o) : o2[i] = o[i]
      BY SMTT(60), Z3T(60), <3>1
    <3>3. \A i \in 1..Len(o) : InTurn(stream, next, o, i) => InTurn(stream, next, o2, i)
      BY ZenonT(60), <3>1, AppendKeepsTurns
    <3>4. \A q, n : Ready(stream, next, o, Len(o) + 1, q, n) =>
              /\ Ready(stream, next, o2, Len(o) + 1, q, n)
              /\ ~IsOf(f, q) => Ready(stream, next, o2, Len(o2) + 1, q, n)
      BY ZenonT(60), <3>1, AppendKeepsTurns
    <3> QED
      BY ZenonT(60), <3>2, <3>3, <3>4 DEF o, o2
  <2>7. InTurn(stream, next, way'[s], Len(way[s]) + 1)
    <3>1. CASE f.type = "start"
      <4>1. stream[r] = "none" /\ \A i \in 1..Len(way[s]) : ~IsOf(way[s][i], r)
        BY Zenon, <2>1, <2>2, <3>1 DEF StreamInvariant, HandlerInTurn
      <4>2. \A j \in 1..((Len(way[s]) + 1) - 1) : j \in 1..Len(way[s])
        BY SMTT(60), Z3T(60), <2>2
      <4> QED
        BY ZenonT(150), <2>4, <2>6, <3>1, <4>1, <4>2 DEF InTurn
    <3>2. CASE f.type \in {"chunk", "end"}
      <4>1. Ready(stream, next, way[s], Len(way[s]) + 1, r, f.seq)
        BY ZenonT(60), <2>1, <3>2 DEF StreamInvariant, HandlerInTurn, s
      <4> QED
        BY Zenon, <2>4, <2>6, <3>2, <4>1 DEF InTurn
    <3>3. CASE f.type = "cancel"
      BY Zenon, <2>6, <3>3 DEF InTurn
    <3> QED
      BY Zenon, <2>1, <3>1, <3>2, <3>3
  <2>8. \A t \in Sessions : \A i \in 1..Len(way'[t]) : InTurn(stream', next', way'[t], i)
    <3>1. \A i \in 1..Len(way'[s]) : InTurn(stream, next, way'[s], i)
      BY ZenonT(60), <2>2, <2>6, <2>7 DEF StreamInvariant
    <3>2. \A t \in Sessions \ {s} : \A i \in 1..Len(way'[t]) : InTurn(stream, next, way'[t], i)
      BY ZenonT(60), <2>3 DEF StreamInvariant
    <3> QED
      BY ZenonT(60), <3>1, <3>2
  <2>9. HandlerInTurn(r)'
    <3> SUFFICES ASSUME Begun(r)'
                 PROVE  Ready(stream, next, way'[s], Len(way'[s]) + 1, r, sequence'[r])
      BY ZenonT(60), <1>3 DEF HandlerInTurn, s
    <3> DEFINE i == Len(way[s]) + 1
    <3>1. IsOf(way'[s][i], r) /\ way'[s][i] = f /\ i \in Nat \ {0} /\ Len(way'[s]) = i
      BY Zenon, <2>5, <2>6
    <3> HIDE DEF i
    <3>2. \/ f.type = "start" /\ sequence'[r] = 0
          \/ f.type = "chunk" /\ sequence'[r] = f.seq + 1
      BY Zenon, <2>1
    <3>3. Ready(stream, next, way'[s], i + 1, r, sequence'[r])
      BY ZenonT(60), <3>1, <3>2, ReadyAfter
    <3> QED
      BY Zenon, <3>1, <3>3
  <2>10. ASSUME NEW q \in Requests \ {r}
         PROVE  HandlerInTurn(q)'
    <3>1. HandlerInTurn(q) /\ q # r
      BY ZenonT(60) DEF StreamInvariant
    <3>2. ASSUME Unbegun(q)
          PROVE  \A t \in Sessions : \A i \in 1..Len(way'[t]) : ~IsOf(way'[t][i], q)
      BY ZenonT(150), <2>2, <2>3, <2>5, <2>6, <3>1, <3>2 DEF HandlerInTurn
    <3>3. ASSUME Begun(q)
          PROVE  /\ target[q] \in Sessions
                 /\ Ready(stream, next, way'[target[q]], Len(way'[target[q]]) + 1, q, sequence[q])
      <4>1. CASE target[q] = s
        BY ZenonT(60), <2>5, <2>6, <3>1, <3>3, <4>1 DEF HandlerInTurn
      <4>2. CASE target[q] # s
        <5>1. way'[target[q]] = way[target[q]]
          BY Zenon, <2>3, <3>1, <3>3, <4>2 DEF HandlerInTurn
        <5> QED
          BY ZenonT(60), <3>1, <3>3, <5>1 DEF HandlerInTurn
      <4> QED
        BY ZenonT(60), <4>1, <4>2
    <3> QED
      BY Zenon, <1>1, <3>1, <3>2, <3>3 DEF HandlerInTurn
  <2> QED
    BY Zenon, <1>0, <2>8, <2>9, <2>10 DEF StreamInvariant
<1> QED
  BY Zenon, <1>2, <1>3

\* Every step of a public handler keeps the order of the frames.
LEMMA RequestStepStreams ==
    ASSUME TypeOK, DeliveryInvariant, StreamInvariant, NEW r \in Requests, RequestStep(r)
    PROVE  StreamInvariant'
<1>1. UNCHANGED <<stream, next, wire>>
  BY ZenonT(60) DEF RequestStep, Route, RegisterRequest, LookupSession, Enqueue, AbandonSend, ReadBody,
         ReceiveResponse, GiveUp, CancelRequest, agentVars
<1>14. outbound' = outbound => way' = way
  BY Zenon, <1>1, WayStays
<1>2. \A q \in Requests \ {r} :
          /\ pc'[q] = pc[q] /\ frame'[q] = frame[q]
          /\ sequence'[q] = sequence[q] /\ target'[q] = target[q]
  BY ZenonT(150) DEF RequestStep, Route, RegisterRequest, LookupSession, Enqueue, AbandonSend, ReadBody,
         ReceiveResponse, GiveUp, CancelRequest, SendFails, Finish, handlerVars, TypeOK
<1>3. ASSUME pc'[r] \in {"returning", "done"}, target'[r] = target[r],
             way' = way \/ sendCancel(r)
      PROVE  StreamInvariant'
  <2>1. ~Unbegun(r)' /\ ~Begun(r)'
    BY Zenon, <1>3 DEF Unbegun, Begun
  <2>2. CASE way' = way
    BY Zenon, <1>1, <1>2, <2>1, <2>2, HandlerKeepsTurns
  <2>3. CASE way' # way
    <3>1. /\ target[r] \in Sessions
          /\ \E f \in [type : {"start", "chunk", "end", "cancel"}, req : {r}, seq : Nat] :
                /\ f.type = "cancel"
                /\ way' = [way EXCEPT ![target[r]] = Append(@, f)]
      BY ZenonT(60), <1>1, <1>3, <2>3, SendCancelAppends
    <3>2. PICK f \in [type : {"start", "chunk", "end", "cancel"}, req : {r}, seq : Nat] :
              f.type = "cancel" /\ way' = [way EXCEPT ![target[r]] = Append(@, f)]
      BY ZenonT(60), <3>1
    <3>3. f.type # "start" /\ f.type \notin {"chunk", "end"}
      BY <3>2
    <3> QED
      BY ZenonT(60), <1>1, <1>2, <1>3, <2>1, <3>1, <3>2, <3>3, HandlerKeepsTurns
  <2> QED
    BY Zenon, <2>2, <2>3
<1>4. ASSUME way' = way, sequence'[r] = sequence[r],
             Unbegun(r)' => Unbegun(r), Begun(r)' => Begun(r) /\ target'[r] = target[r]
      PROVE  StreamInvariant'
  BY ZenonT(60), <1>1, <1>2, <1>4, HandlerKeepsTurns
<1>5. ASSUME NEW d \in Subdomains, Route(r, d)
      PROVE  StreamInvariant'
  <2>1. /\ pc[r] = "new" /\ pc'[r] \in {"routed", "done"}
        /\ way' = way /\ sequence' = sequence
    BY ZenonT(60), <1>5, <1>14 DEF Route, managerVars, TypeOK
  <2> QED
    BY ZenonT(60), <1>4, <2>1 DEF Unbegun, Begun
<1>6. CASE RegisterRequest(r)
  <2>1. /\ pc[r] = "routed" /\ pc'[r] = "lookup" /\ frame' = frame /\ frame[r] = "start"
        /\ way' = way /\ sequence' = sequence
    BY Zenon, <1>6, <1>14 DEF RegisterRequest, TypeOK, DeliveryInvariant, StaleEntries
  <2> QED
    BY ZenonT(60), <1>4, <2>1 DEF Unbegun, Begun
<1>7. CASE LookupSession(r)
  <2>1. CASE SendFails(r)
    <3>1. pc'[r] = "returning" /\ target' = target /\ (way' = way \/ sendCancel(r))
      BY Zenon, <1>7, <1>14, <2>1 DEF LookupSession, SendFails, Finish, TypeOK
    <3> QED
      BY ZenonT(60), <1>3, <3>1
  <2>2. CASE ~SendFails(r)
    <3>1. /\ pc[r] = "lookup" /\ pc'[r] = "select" /\ frame' = frame
          /\ way' = way /\ sequence' = sequence /\ target' = target
      BY ZenonT(60), <1>7, <1>14, <2>2 DEF LookupSession, TypeOK
    <3> QED
      BY Zenon, <1>4, <3>1 DEF Unbegun, Begun
  <2> QED
    BY Zenon, <2>1, <2>2
<1>8. CASE AbandonSend(r)
  <2>1. pc'[r] = "returning" /\ target' = target /\ (way' = way \/ sendCancel(r))
    BY Zenon, <1>8, <1>14 DEF AbandonSend, SendFails, Finish, TypeOK
  <2> QED
    BY Zenon, <1>3, <2>1
<1>9. CASE Enqueue(r)
  <2> DEFINE f == [type |-> frame[r], req |-> r, seq |-> sequence[r]]
  <2>1. /\ pc[r] = "select" /\ target[r] \in Sessions
        /\ pc'[r] = IF frame[r] = "end" THEN "waiting" ELSE "read"
        /\ sequence'[r] = IF frame[r] = "chunk" THEN sequence[r] + 1 ELSE sequence[r]
        /\ outbound' = [outbound EXCEPT ![target[r]] = Append(@, f)]
        /\ target' = target /\ frame' = frame
    BY ZenonT(60), <1>9 DEF Enqueue, DeliveryInvariant, StaleEntries, Registered, TypeOK
  <2>2. f \in [type : {"start", "chunk", "end", "cancel"}, req : {r}, seq : Nat] /\ f \in Frame
    BY Zenon DEF TypeOK, Frame
  <2>3. f.type = frame[r] /\ f.seq = sequence[r] /\ frame[r] \in {"start", "chunk", "end"}
    BY Zenon DEF TypeOK
  <2> HIDE DEF f
  <2>4. f.type = "start" => Unbegun(r)
    BY ZenonT(60), <2>1, <2>3 DEF Unbegun
  <2>5. f.type \in {"chunk", "end"} => Begun(r) /\ f.seq = sequence[r]
    BY Zenon, <2>1, <2>3 DEF Begun
  <2>6. ~Unbegun(r)'
    BY <2>1 DEF Unbegun
  <2>7. Begun(r)' => \/ f.type = "start" /\ sequence'[r] = 0
                     \/ f.type = "chunk" /\ sequence'[r] = f.seq + 1
    <3>1. Unbegun(r) => sequence[r] = 0
      BY ZenonT(60) DEF StreamInvariant, HandlerInTurn
    <3>2. frame[r] = "end" => ~Begun(r)'
      BY <2>1 DEF Begun
    <3> QED
      BY <2>1, <2>3, <2>4, <3>1, <3>2
  <2>8. way' = [way EXCEPT ![target[r]] = Append(@, f)]
    BY Zenon, <1>1, <2>1, <2>2, WayAppends DEF Queues
  <2> QED
    BY ZenonT(60), <1>1, <1>2, <2>1, <2>2, <2>4, <2>5, <2>6, <2>7, <2>8, HandlerKeepsTurns
<1>10. CASE ReadBody(r)
  <2>1. ASSUME NEW c \in {"refused", "unavailable"}, Finish(r, c), sendCancel(r)
        PROVE  StreamInvariant'
    <3>1. pc'[r] = "returning" /\ target' = target
      BY ZenonT(60), <1>10, <2>1 DEF ReadBody, Finish, TypeOK
    <3> QED
      BY Zenon, <1>3, <2>1, <3>1
  <2>2. CASE pc' = [pc EXCEPT ![r] = "lookup"] /\ UNCHANGED <<status, outbound>>
    <3>1. /\ pc[r] = "read" /\ pc'[r] = "lookup" /\ sequence' = sequence /\ target' = target
          /\ way' = way
      BY ZenonT(60), <1>10, <1>14, <2>2 DEF ReadBody, TypeOK
    <3>2. frame'[r] # "start" \/ Finish(r, "refused") \/ Finish(r, "unavailable")
      BY ZenonT(60), <1>10 DEF ReadBody, TypeOK
    <3>3. ~Finish(r, "refused") /\ ~Finish(r, "unavailable")
      BY ZenonT(60), <3>1 DEF Finish, TypeOK
    <3> QED
      BY Zenon, <1>4, <3>1, <3>2, <3>3 DEF Unbegun, Begun
  <2> QED
    BY Zenon, <1>10, <2>1, <2>2 DEF ReadBody
<1>11. CASE ReceiveResponse(r)
  <2>1. pc'[r] = "returning" /\ target' = target /\ way' = way
    BY Zenon, <1>11, <1>14 DEF ReceiveResponse, Finish, TypeOK
  <2> QED
    BY Zenon, <1>3, <2>1
<1>12. CASE GiveUp(r)
  <2>1. pc'[r] = "returning" /\ target' = target /\ sendCancel(r)
    BY Zenon, <1>12 DEF GiveUp, Finish, TypeOK
  <2> QED
    BY ZenonT(60), <1>3, <2>1
<1>13. CASE CancelRequest(r)
  <2>1. pc'[r] = "done" /\ target' = target /\ way' = way
    BY ZenonT(60), <1>13, <1>14 DEF CancelRequest, TypeOK
  <2> QED
    BY Zenon, <1>3, <2>1
<1> QED
  BY Zenon, <1>5, <1>6, <1>7, <1>8, <1>9, <1>10, <1>11, <1>12, <1>13 DEF RequestStep

\* The agent takes every frame that comes in its turn, if it can hold a stream for every
\* request.
LEMMA AgentTakesFrame ==
    ASSUME TypeOK, StreamInvariant, IsFiniteSet(Requests), Cardinality(Requests) <= MaxStreams,
           NEW s \in Sessions, NEW m \in Frame, m.type # "opened",
           m.type = "start" => stream[m.req] = "none",
           m.type \in {"chunk", "end"} => stream[m.req] = "open" /\ next[m.req] = m.seq
    PROVE  /\ StreamAfter(s, m) # "rejected"
           /\ m.type \in {"start", "chunk"} => StreamAfter(s, m) = "open"
<1>1. m.req \in Requests /\ m.type \in {"start", "chunk", "end", "cancel"}
  BY ZenonT(60), RequestFrame
<1>2. CASE m.type = "start"
  <2>1. OpenStreams(s) \subseteq Requests \ {m.req}
    BY Zenon, <1>2 DEF OpenStreams
  <2>2. /\ IsFiniteSet(Requests \ {m.req})
        /\ Cardinality(Requests \ {m.req}) = Cardinality(Requests) - 1
    BY ZenonT(60), <1>1, FS_RemoveElement
  <2>3. Cardinality(OpenStreams(s)) <= Cardinality(Requests \ {m.req}) /\ IsFiniteSet(OpenStreams(s))
    BY ZenonT(60), <2>1, <2>2, FS_Subset
  <2>4. Cardinality(OpenStreams(s)) \in Nat /\ Cardinality(Requests) \in Nat
    BY Zenon, <2>3, FS_CardinalityType
  <2>5. Cardinality(OpenStreams(s)) < MaxStreams
    BY SMTT(60), Z3T(60), <2>2, <2>3, <2>4, MaxStreamsAssumption
  <2> QED
    BY ZenonT(60), <1>2, <2>5 DEF StreamAfter
<1>3. CASE m.type = "chunk"
  BY <1>3 DEF StreamAfter
<1>4. CASE m.type = "end"
  BY <1>4 DEF StreamAfter
<1>5. CASE m.type = "cancel"
  BY Zenon, <1>1, <1>5 DEF StreamAfter, StreamInvariant, NoRejectedStream
<1> QED
  BY Zenon, <1>1, <1>2, <1>3, <1>4, <1>5

\* The read of the first frame keeps the order of the others.
LEMMA ReadKeepsTurns ==
    ASSUME TypeOK, ExecutionInvariant, StreamInvariant,
           IsFiniteSet(Requests), Cardinality(Requests) <= MaxStreams,
           NEW s \in Sessions, AgentReads(s)
    PROVE  StreamInvariant'
<1> DEFINE q == way[s]
           m == q[1]
<1>0. /\ way \in [Sessions -> Seq(Frame)] /\ way' = [way EXCEPT ![s] = Tail(@)]
      /\ q # <<>> /\ Head(wire[s]) = m
  BY Zenon, WayType, WayRead
<1>1. q \in Seq(Frame) /\ q # <<>> /\ way'[s] = Tail(q)
  BY ZenonT(60), <1>0
<1>2. \A t \in Sessions \ {s} : way'[t] = way[t]
  BY Zenon, <1>0
<1>3. /\ 1 \in 1..Len(q) /\ m \in Frame /\ Len(q) \in Nat
      /\ Len(Tail(q)) = Len(q) - 1 /\ Len(Tail(q)) + 1 = Len(q)
      /\ \A i \in 1..Len(Tail(q)) : /\ Tail(q)[i] = q[i + 1] /\ i + 1 \in 1..Len(q)
                                    /\ i \in 1..Len(q) /\ 1 \in 1..((i + 1) - 1)
  BY SMTT(60), Z3T(60), <1>1
<1>4. UNCHANGED <<pc, frame, sequence, target>>
  BY ZenonT(60) DEF AgentReads, handlerVars
<1>5. \A i \in 1..Len(q) : InTurn(stream, next, q, i)
  BY Zenon DEF StreamInvariant
<1>6. \A t \in Sessions : \A i \in 1..Len(way[t]) :
          way[t][i] \in Frame /\ (way[t][i].type # "opened" => target[way[t][i].req] = t)
  <2>1. \A t \in Sessions : \A i \in 1..Len(way[t]) : way[t][i] \in Frame
    BY SMTT(60), Z3T(60), <1>0
  <2> QED
    BY Zenon, <2>1 DEF ExecutionInvariant, QueueInvariant, FramePlace
<1>7. \A r \in Requests : ~IsOf(m, r) => stream'[r] = stream[r] /\ next'[r] = next[r]
  <2>1. CASE m.type = "opened"
    BY Zenon, <1>0, <2>1 DEF AgentReads
  <2>2. CASE m.type # "opened"
    <3>1. m.req \in Requests
      BY Zenon, <1>3, <2>2, RequestFrame
    <3>2. /\ stream' = [stream EXCEPT ![m.req] = StreamAfter(s, m)]
          /\ next' = [next EXCEPT ![m.req] = CASE m.type = "start" -> 0
                                              [] m.type = "chunk" -> @ + 1
                                              [] OTHER -> @]
      BY Zenon, <1>0, <2>2 DEF AgentReads
    <3> HIDE DEF m
    <3>3. \A r \in Requests : r # m.req => stream'[r] = stream[r] /\ next'[r] = next[r]
      BY ZenonT(60), <3>1, <3>2 DEF TypeOK
    <3> QED
      BY ZenonT(60), <2>2, <3>3 DEF IsOf
  <2> QED
    BY Zenon, <2>1, <2>2
<1>8. \A r \in Requests : IsOf(m, r) =>
          /\ stream'[r] # "rejected"
          /\ m.type = "start" => stream'[r] = "open" /\ next'[r] = 0
          /\ m.type = "chunk" => stream'[r] = "open" /\ next'[r] = m.seq + 1
  <2> SUFFICES ASSUME NEW r \in Requests, IsOf(m, r)
               PROVE  /\ stream'[r] # "rejected"
                      /\ m.type = "start" => stream'[r] = "open" /\ next'[r] = 0
                      /\ m.type = "chunk" => stream'[r] = "open" /\ next'[r] = m.seq + 1
    BY ZenonT(60)
  <2>1. m.type # "opened" /\ m.req = r
    BY ZenonT(60) DEF IsOf
  <2>2. InTurn(stream, next, q, 1) /\ 1..(1 - 1) = {}
    BY SMTT(60), Z3T(60), <1>3, <1>5
  <2>3. m.type = "start" => stream[m.req] = "none"
    BY ZenonT(60), <2>2 DEF InTurn
  <2>4. m.type \in {"chunk", "end"} => stream[m.req] = "open" /\ next[m.req] = m.seq
    BY ZenonT(60), <2>2 DEF InTurn, Ready
  <2>5. /\ stream' = [stream EXCEPT ![m.req] = StreamAfter(s, m)]
        /\ next' = [next EXCEPT ![m.req] = CASE m.type = "start" -> 0
                                            [] m.type = "chunk" -> @ + 1
                                            [] OTHER -> @]
    BY Zenon, <1>0, <2>1 DEF AgentReads
  <2> HIDE DEF m
  <2>6. /\ StreamAfter(s, m) # "rejected"
        /\ m.type \in {"start", "chunk"} => StreamAfter(s, m) = "open"
    BY ZenonT(60), <1>3, <2>1, <2>3, <2>4, AgentTakesFrame
  <2>7. stream'[r] = StreamAfter(s, m)
    BY ZenonT(60), <2>1, <2>5 DEF TypeOK
  <2>8. m.type = "start" => next'[r] = 0
    BY Zenon, <2>1, <2>5 DEF TypeOK
  <2>9. m.type = "chunk" => next'[r] = m.seq + 1
    BY Zenon, <2>1, <2>4, <2>5 DEF TypeOK
  <2> QED
    BY Zenon, <2>6, <2>7, <2>8, <2>9
<1> HIDE DEF m, q
<1>9. NoRejectedStream'
  BY ZenonT(60), <1>7, <1>8 DEF StreamInvariant, NoRejectedStream
<1>10. ASSUME NEW i \in 1..Len(q), NEW r \in Requests, NEW n, Ready(stream, next, q, i + 1, r, n)
       PROVE  Ready(stream', next', Tail(q), i, r, n)
  BY ZenonT(60), <1>1, <1>7, <1>8, <1>10, ReadyTail DEF m
<1>11. ASSUME NEW i \in 1..Len(Tail(q))
       PROVE  InTurn(stream', next', Tail(q), i)
  <2> DEFINE f == q[i + 1]
  <2>1. f \in Frame /\ Tail(q)[i] = f /\ i + 1 \in 1..Len(q) /\ i \in 1..Len(q)
    BY Zenon, <1>3, <1>6 DEF q
  <2>2. InTurn(stream, next, q, i + 1)
    BY ZenonT(60), <1>5, <2>1
  <2>3. CASE f.type = "start"
    <3>1. f.req \in Requests
      BY Zenon, <2>1, <2>3, RequestFrame
    <3>2. stream[f.req] = "none" /\ \A j \in 1..((i + 1) - 1) : ~IsOf(q[j], f.req)
      BY ZenonT(60), <2>2, <2>3 DEF InTurn
    <3>3. stream'[f.req] = "none"
      BY Zenon, <1>3, <1>7, <3>1, <3>2 DEF m
    <3>4. \A j \in 1..(i - 1) : Tail(q)[j] = q[j + 1] /\ j + 1 \in 1..((i + 1) - 1)
      BY SMTT(60), Z3T(60), <1>1
    <3>5. \A j \in 1..(i - 1) : ~IsOf(Tail(q)[j], f.req)
      BY ZenonT(60), <3>2, <3>4
    <3>6. f.type \notin {"chunk", "end"}
      BY Zenon, <2>3
    <3> QED
      BY ZenonT(60), <2>1, <3>3, <3>5, <3>6 DEF InTurn
  <2>4. CASE f.type \in {"chunk", "end"}
    <3>1. f.req \in Requests /\ f.type # "start"
      BY <2>1, <2>4, RequestFrame
    <3>2. Ready(stream, next, q, i + 1, f.req, f.seq)
      BY ZenonT(60), <2>2, <2>4 DEF InTurn
    <3>3. Ready(stream', next', Tail(q), i, f.req, f.seq)
      BY Zenon, <1>10, <2>1, <3>1, <3>2
    <3> QED
      BY ZenonT(60), <2>1, <3>1, <3>3 DEF InTurn
  <2>5. CASE f.type \notin {"start", "chunk", "end"}
    <3>1. f.type # "start"
      BY Zenon, <2>5
    <3> QED
      BY ZenonT(60), <2>1, <2>5, <3>1 DEF InTurn
  <2> QED
    BY Zenon, <2>3, <2>4, <2>5
<1>12. ASSUME NEW t \in Sessions \ {s}, NEW i \in 1..Len(way[t])
       PROVE  InTurn(stream', next', way[t], i)
  <2> DEFINE o == way[t]
             f == o[i]
  <2>1. f \in Frame /\ (f.type # "opened" => target[f.req] = t)
    BY ZenonT(60), <1>6
  <2>2. InTurn(stream, next, o, i)
    BY ZenonT(60) DEF StreamInvariant
  <2>3. m.type # "opened" => target[m.req] = s
    BY Zenon, <1>3, <1>6 DEF m, q
  <2>4. CASE f.type \in {"start", "chunk", "end"}
    <3>1. f.req \in Requests /\ f.type # "opened"
      BY Zenon, <2>1, <2>4, RequestFrame
    <3>2. ~IsOf(m, f.req)
      BY ZenonT(60), <2>1, <2>3, <3>1 DEF IsOf
    <3>3. stream'[f.req] = stream[f.req] /\ next'[f.req] = next[f.req]
      BY Zenon, <1>7, <3>1, <3>2
    <3>4. Ready(stream, next, o, i, f.req, f.seq) => Ready(stream', next', o, i, f.req, f.seq)
      BY ZenonT(60), <3>3 DEF Ready
    <3> QED
      BY ZenonT(60), <2>2, <3>3, <3>4 DEF InTurn
  <2>5. CASE f.type \notin {"start", "chunk", "end"}
    <3>1. f.type # "start" /\ f.type \notin {"chunk", "end"}
      BY <2>5
    <3> QED
      BY Zenon, <3>1 DEF InTurn
  <2> QED
    BY Zenon, <2>4, <2>5
<1>13. ASSUME NEW r \in Requests
       PROVE  HandlerInTurn(r)'
  <2>1. HandlerInTurn(r) /\ (Unbegun(r)' <=> Unbegun(r)) /\ (Begun(r)' <=> Begun(r))
    BY Zenon, <1>4 DEF StreamInvariant, Unbegun, Begun
  <2>2. ASSUME Unbegun(r)
        PROVE  /\ sequence[r] = 0 /\ stream'[r] = "none"
               /\ \A t \in Sessions : \A i \in 1..Len(way'[t]) : ~IsOf(way'[t][i], r)
    <3>1. /\ sequence[r] = 0 /\ stream[r] = "none"
          /\ \A t \in Sessions : \A i \in 1..Len(way[t]) : ~IsOf(way[t][i], r)
      BY ZenonT(60), <2>1, <2>2 DEF HandlerInTurn
    <3>2. stream'[r] = "none"
      BY Zenon, <1>3, <1>7, <3>1 DEF m, q
    <3>3. \A i \in 1..Len(way'[s]) : ~IsOf(way'[s][i], r)
      BY ZenonT(60), <1>1, <1>3, <3>1 DEF q
    <3> QED
      BY Zenon, <1>2, <3>1, <3>2, <3>3
  <2>3. ASSUME Begun(r)
        PROVE  /\ target[r] \in Sessions
               /\ Ready(stream', next', way'[target[r]], Len(way'[target[r]]) + 1, r, sequence[r])
    <3>1. /\ target[r] \in Sessions
          /\ Ready(stream, next, way[target[r]], Len(way[target[r]]) + 1, r, sequence[r])
      BY ZenonT(60), <2>1, <2>3 DEF HandlerInTurn
    <3>2. CASE target[r] = s
      <4>1. Len(q) \in 1..Len(q) /\ Len(way'[s]) + 1 = Len(q)
        BY SMTT(60), Z3T(60), <1>1, <1>3
      <4>2. Ready(stream, next, q, Len(q) + 1, r, sequence[r])
        BY Zenon, <3>1, <3>2 DEF q
      <4>3. Ready(stream', next', Tail(q), Len(q), r, sequence[r])
        BY ZenonT(60), <1>10, <4>1, <4>2
      <4> QED
        BY ZenonT(60), <1>1, <3>1, <3>2, <4>1, <4>3
    <3>3. CASE target[r] # s
      <4>1. ~IsOf(m, r)
        BY ZenonT(60), <1>3, <1>6, <3>3 DEF IsOf, m, q
      <4>2. way'[target[r]] = way[target[r]]
        BY Zenon, <1>2, <3>1, <3>3
      <4>3. stream'[r] = stream[r] /\ next'[r] = next[r]
        BY ZenonT(60), <1>7, <4>1
      <4> QED
        BY ZenonT(60), <3>1, <4>2, <4>3 DEF Ready
    <3> QED
      BY Zenon, <3>2, <3>3
  <2> QED
    BY ZenonT(60), <1>4, <2>1, <2>2, <2>3 DEF HandlerInTurn
<1> QED
  BY ZenonT(60), <1>1, <1>2, <1>9, <1>11, <1>12, <1>13 DEF StreamInvariant

\* Every step of a session keeps the order of the frames.
LEMMA SessionStepStreams ==
    ASSUME TypeOK, ExecutionInvariant, StreamInvariant,
           IsFiniteSet(Requests), Cardinality(Requests) <= MaxStreams,
           NEW s \in Sessions, SessionStep(s)
    PROVE  StreamInvariant'
<1>1. UNCHANGED <<pc, frame, sequence, target>>
  BY ZenonT(60) DEF SessionStep, Register, OpenTunnel, SendOpened, WriteOutbound, AgentReads,
         DeliverResponse, SendResponse, Remove, CloseSession, handlerVars
<1>8. /\ way \in [Sessions -> Seq(Frame)]
      /\ wire' = wire /\ outbound' = outbound => way' = way
  BY Zenon, WayType, WayStays
<1>2. \A r \in Requests : /\ HandlerInTurn(r) /\ stream[r] # "rejected"
                          /\ (Unbegun(r)' <=> Unbegun(r)) /\ (Begun(r)' <=> Begun(r))
  BY Zenon, <1>1 DEF StreamInvariant, NoRejectedStream, Unbegun, Begun
<1>3. CASE UNCHANGED <<way, stream, next>>
  <2>1. \A r \in Requests : HandlerInTurn(r)'
    BY ZenonT(60), <1>1, <1>2, <1>3 DEF HandlerInTurn
  <2> QED
    BY Zenon, <1>3, <2>1 DEF StreamInvariant, NoRejectedStream
<1>4. CASE SendOpened(s)
  <2> DEFINE f == [type |-> "opened"]
  <2>1. UNCHANGED <<stream, next, wire>>
    BY Zenon, <1>4 DEF SendOpened, agentVars
  <2>2. CASE way' = way
    BY ZenonT(60), <1>3, <2>1, <2>2
  <2>3. CASE way' = [way EXCEPT ![s] = Append(@, f)]
    <3>1. f \in Frame /\ f.type = "opened"
      BY Zenon DEF Frame
    <3> DEFINE o == way[s]
               o2 == way'[s]
    <3>2. o \in Seq(Frame) /\ o2 = Append(o, f)
      BY ZenonT(60), <1>8, <2>3
    <3>3. \A t \in Sessions \ {s} : way'[t] = way[t]
      BY Zenon, <1>8, <2>3
    <3> HIDE DEF f, o, o2
    <3>5. /\ o2[Len(o) + 1] = f /\ Len(o2) = Len(o) + 1
          /\ 1..Len(o2) = 1..Len(o) \cup {Len(o) + 1}
          /\ \A i \in 1..Len(o) : o2[i] = o[i]
      BY SMTT(60), Z3T(60), <3>2
    <3>6. \A i \in 1..Len(o) : InTurn(stream, next, o, i) => InTurn(stream, next, o2, i)
      BY Zenon, <3>1, <3>2, AppendKeepsTurns
    <3>7. \A r, n : Ready(stream, next, o, Len(o) + 1, r, n) /\ ~IsOf(f, r)
              => Ready(stream, next, o2, Len(o2) + 1, r, n)
      BY ZenonT(60), <3>1, <3>2, AppendKeepsTurns
    <3>8. \A r : ~IsOf(f, r)
      BY Zenon, <3>1 DEF IsOf
    <3>9. \A i \in 1..Len(o2) : InTurn(stream', next', o2, i)
      <4>1. InTurn(stream, next, o2, Len(o) + 1)
        BY Zenon, <3>1, <3>5 DEF InTurn
      <4> QED
        BY Zenon, <2>1, <3>5, <3>6, <4>1 DEF StreamInvariant, o
    <3>10. \A t \in Sessions \ {s} : \A i \in 1..Len(way'[t]) :
               InTurn(stream', next', way'[t], i)
      BY Zenon, <2>1, <3>3 DEF StreamInvariant
    <3>11. ASSUME NEW r \in Requests
           PROVE  HandlerInTurn(r)'
      <4>1. ASSUME Unbegun(r)
            PROVE  \A t \in Sessions : \A i \in 1..Len(way'[t]) : ~IsOf(way'[t][i], r)
        BY ZenonT(60), <1>2, <3>3, <3>5, <3>8, <4>1 DEF HandlerInTurn, o, o2
      <4>2. ASSUME Begun(r)
            PROVE  /\ target[r] \in Sessions
                   /\ Ready(stream, next, way'[target[r]], Len(way'[target[r]]) + 1, r, sequence[r])
        BY Zenon, <1>2, <3>3, <3>7, <3>8, <4>2 DEF HandlerInTurn, o, o2
      <4> QED
        BY Zenon, <1>1, <1>2, <2>1, <4>1, <4>2 DEF HandlerInTurn
    <3> QED
      BY ZenonT(60), <1>2, <2>1, <3>9, <3>10, <3>11 DEF StreamInvariant, NoRejectedStream, o2
  <2>4. CASE outbound' = outbound
    BY Zenon, <1>8, <2>1, <2>2, <2>4
  <2>5. CASE outbound' = [outbound EXCEPT ![s] = Append(@, f)]
    <3>1. f \in Frame
      BY Zenon DEF Frame
    <3> HIDE DEF f
    <3> QED
      BY Zenon, <2>1, <2>3, <2>5, <3>1, WayAppends DEF Queues
  <2> QED
    BY Zenon, <1>4, <2>4, <2>5 DEF SendOpened
<1>5. ASSUME NEW r \in Requests, NEW k \in Kinds, DeliverResponse(s, r, k)
      PROVE  StreamInvariant'
  <2>1. /\ stream[r] = "whole" /\ stream' = [stream EXCEPT ![r] = "answered"]
        /\ way' = way /\ next' = next
    BY Zenon, <1>5, <1>8 DEF DeliverResponse
  <2>2. \A q \in Requests : /\ stream[q] = "none" => stream'[q] = "none"
                            /\ stream[q] = "open" => stream'[q] = "open"
                            /\ stream[q] # "rejected" => stream'[q] # "rejected"
    BY Zenon, <2>1 DEF TypeOK
  <2>3. \A q \in Requests : \A o, i, n :
            Ready(stream, next, o, i, q, n) => Ready(stream', next', o, i, q, n)
    BY ZenonT(150), <2>1, <2>2 DEF Ready
  <2>4. ASSUME NEW t \in Sessions, NEW i \in 1..Len(way[t])
        PROVE  InTurn(stream', next', way[t], i)
    <3>1. way[t][i] \in Frame /\ InTurn(stream, next, way[t], i)
      BY SMTT(60), Z3T(60), <1>8 DEF StreamInvariant
    <3>2. way[t][i].type \in {"start", "chunk", "end"} => way[t][i].req \in Requests
      BY <3>1, RequestFrame
    <3>3. /\ way[t][i].type = "start" => way[t][i].req \in Requests
          /\ way[t][i].type \in {"chunk", "end"} => way[t][i].req \in Requests
      BY Zenon, <3>2
    <3> QED
      BY Zenon, <2>2, <2>3, <3>1, <3>3 DEF InTurn
  <2>5. ASSUME NEW q \in Requests
        PROVE  HandlerInTurn(q)'
    BY Zenon, <1>1, <1>2, <2>1, <2>2, <2>3 DEF HandlerInTurn
  <2> QED
    BY ZenonT(60), <1>2, <2>1, <2>2, <2>4, <2>5 DEF StreamInvariant, NoRejectedStream
<1>6. Register(s) \/ (\E d \in Subdomains : OpenTunnel(s, d)) \/ SendResponse(s) \/ Remove(s)
          \/ CloseSession(s) => UNCHANGED <<way, stream, next>>
  BY ZenonT(60), <1>8 DEF Register, OpenTunnel, SendResponse, Remove, CloseSession, managerVars, agentVars
<1>7. CASE AgentReads(s)
  BY ZenonT(60), <1>7, ReadKeepsTurns
<1>9. CASE WriteOutbound(s)
  <2>1. UNCHANGED <<way, stream, next>>
    BY Zenon, <1>9, WayWritten DEF WriteOutbound
  <2> QED
    BY Zenon, <1>3, <2>1
<1> QED
  BY ZenonT(60), <1>3, <1>4, <1>5, <1>6, <1>7, <1>9 DEF SessionStep

\* Concurrent handlers never make the agent's read loop close the session, however many
\* sessions there are, however small the queues and whatever is cancelled: the frames of
\* each request reach it in order.  The agent must be able to hold a stream for every
\* request; beyond MaxStreams the code does close the session.
THEOREM StreamsAreAccepted ==
    ASSUME IsFiniteSet(Requests), Cardinality(Requests) <= MaxStreams
    PROVE  Spec => []NoRejectedStream
<1>1. Init => StreamInvariant
  <2> SUFFICES ASSUME Init
               PROVE  StreamInvariant
    OBVIOUS
  <2>1. NoRejectedStream /\ \A s \in Sessions : 1..Len(way[s]) = {}
    BY SMTT(60), Z3T(60) DEF Init, NoRejectedStream, way
  <2>2. \A r \in Requests : HandlerInTurn(r)
    BY Zenon, <2>1 DEF Init, HandlerInTurn, Unbegun, Begun
  <2> QED
    BY ZenonT(60), <2>1, <2>2 DEF StreamInvariant
<1>2. TypeOK /\ DeliveryInvariant /\ ExecutionInvariant /\ StreamInvariant /\ [Next]_vars
        => StreamInvariant'
  <2> SUFFICES ASSUME TypeOK, DeliveryInvariant, ExecutionInvariant, StreamInvariant, [Next]_vars
               PROVE  StreamInvariant'
    BY ZenonT(60)
  <2>1. CASE UNCHANGED vars
    <3>1. UNCHANGED <<way, pc, frame, sequence, target, stream, next>>
      BY Zenon, <2>1, WayStays DEF vars, managerVars, handlerVars, agentVars
    <3>2. \A r \in Requests : HandlerInTurn(r)'
      BY Zenon, <3>1 DEF StreamInvariant, HandlerInTurn, Unbegun, Begun
    <3> QED
      BY ZenonT(60), <3>1, <3>2 DEF StreamInvariant, NoRejectedStream
  <2> QED
    BY Zenon, <2>1, SessionStepStreams, RequestStepStreams DEF Next, Terminated
<1>3. StreamInvariant => NoRejectedStream
  BY Zenon DEF StreamInvariant
<1> QED
  BY <1>1, <1>2, <1>3, TypeCorrect, Delivery, Execution, PTL DEF Spec
================================================================================
