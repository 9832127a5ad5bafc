------------------------- MODULE TunnelLifecycleProofs -------------------------
(***************************************************************************)
(* Proofs about TunnelLifecycle: its types, that routes are owned whatever *)
(* fails or overlaps, that without faults a cleanup leaves nothing online, *)
(* and what a session may rely on that is not overlapped by another of its *)
(* agent.  Then AgentReconnect: the agents and the gateway together do     *)
(* nothing that TunnelLifecycle does not allow, so that what is proved of  *)
(* it holds of the composition; and a reconnect keeps the subdomain.       *)
(***************************************************************************)
EXTENDS AgentReconnect, TLAPS

\* A session that was accepted belongs to an agent and exposes an address; one that
\* restores a tunnel has selected it.
Identified ==
    \A s \in Sessions :
        /\ phase[s] # "new" => agent[s] \in Agents /\ address[s] \in Addresses
        /\ phase[s] = "reopening" => tunnel[s] \in Tunnels

\* A session that opens or serves a tunnel has a row of its agent and address.
OwnsRow ==
    \A s \in Sessions :
        phase[s] \in {"reopening", "opening", "serving"} =>
            /\ tunnel[s] \in Tunnels /\ row[tunnel[s]].status # "none"
            /\ row[tunnel[s]].agent = agent[s] /\ row[tunnel[s]].address = address[s]

\* A route is that of the row its session opened.
RoutesRow ==
    RouteOwner /\ \A t \in Tunnels : route[t] # None => row[t].status # "none"

\* What a step of a session leaves alone.
LEMMA SessionStepKeeps ==
    ASSUME NEW s \in Sessions, SessionStep(s)
    PROVE  UNCHANGED <<revoked, server, revoking>> /\ Running
BY DEF SessionStep, Accept, FindToken, UpsertAgent, Register, SelectClosed, Reopen,
       NothingToReopen, Insert, OpenRoute, Remove, CloseSession, CloseAgentTunnels, Disconnect, Go, dbVars

\* Every step of a session keeps the types.
LEMMA SessionStepType ==
    ASSUME TypeOK, Identified, NEW s \in Sessions, SessionStep(s)
    PROVE  TypeOK'
<1> USE DEF TypeOK, Phases
<1>1. ASSUME NEW k \in Tokens, NEW a \in Agents, NEW d \in Addresses, Accept(s, k, a, d)
      PROVE  TypeOK'
  BY <1>1 DEF Accept, Go, dbVars
<1>2. CASE FindToken(s)
  BY ZenonT(60), <1>2 DEF FindToken, Go, dbVars, hello
<1>3. CASE UpsertAgent(s)
  <2>1. UNCHANGED <<revoked, row, newer, server, sessions, cancelled, route, revoking, token,
                    agent, address, tunnel>>
    BY <1>3 DEF UpsertAgent, hello
  <2>2. phase' \in [Sessions -> Phases] /\ phase[s] = "found"
    BY <1>3 DEF UpsertAgent, Go
  <2>3. connected' \subseteq connected \cup {agent[s]} /\ agent[s] \in Agents
    BY <1>3, <2>2 DEF UpsertAgent, Identified
  <2>4. overlapped' \in SUBSET Sessions
    BY <1>3 DEF UpsertAgent, Overlapping, Others
  <2> QED
    BY <2>1, <2>2, <2>3, <2>4
<1>4. CASE Register(s)
  BY <1>4 DEF Register, Go, dbVars, hello
<1>5. CASE Reopen(s)
  BY SMTT(60), Z3T(60), <1>5 DEF Reopen, Go, dbVars, hello, Identified, Updated, Row
<1>13. CASE SelectClosed(s)
  BY SMTT(60), Z3T(60), <1>13 DEF SelectClosed, Go, dbVars, hello, LatestClosed, ClosedRows
<1>6. CASE NothingToReopen(s)
  BY <1>6 DEF NothingToReopen, Go, dbVars, hello
<1>7. CASE Insert(s)
  BY SMTT(60), Z3T(60), <1>7 DEF Insert, Go, dbVars, hello, Updated, Row
<1>8. CASE OpenRoute(s)
  BY Zenon, <1>8 DEF OpenRoute, Go, dbVars, hello
<1>9. CASE Remove(s)
  BY <1>9 DEF Remove, Go, dbVars, hello
<1>10. CASE CloseSession(s)
  BY <1>10 DEF CloseSession, Go, dbVars, hello
<1>11. CASE CloseAgentTunnels(s)
  <2>1. UNCHANGED <<revoked, connected, server, sessions, cancelled, route, revoking, token, agent,
                    address, tunnel, overlapped>>
    BY <1>11 DEF CloseAgentTunnels, hello
  <2>2. phase' \in [Sessions -> Phases]
    BY <1>11 DEF CloseAgentTunnels, Go
  <2>3. \A t \in Tunnels : row[t] \in Row /\ [row[t] EXCEPT !.status = "closed"] \in Row
    BY SMTT(60), Z3T(60) DEF Row
  <2>4. row' \in [Tunnels -> Row]
    BY ZenonT(60), <1>11, <2>3 DEF CloseAgentTunnels
  <2>5. newer' \in SUBSET (Tunnels \X Tunnels)
    BY <1>11 DEF CloseAgentTunnels, Updated, OpenRows
  <2> QED
    BY <2>1, <2>2, <2>4, <2>5
<1>12. CASE Disconnect(s)
  BY <1>12 DEF Disconnect, Go, hello
<1> HIDE DEF TypeOK, Phases
<1> QED
  BY <1>1, <1>2, <1>3, <1>4, <1>5, <1>6, <1>7, <1>8, <1>9, <1>10, <1>11, <1>12, <1>13 DEF SessionStep

\* Every step of a session keeps the agent and the address of the sessions.
LEMMA SessionStepIdentified ==
    ASSUME TypeOK, Identified, NEW s \in Sessions, SessionStep(s)
    PROVE  Identified'
<1>1. ASSUME NEW k \in Tokens, NEW a \in Agents, NEW d \in Addresses, Accept(s, k, a, d)
      PROVE  Identified'
  BY <1>1 DEF Accept, Go, Identified, TypeOK
<1>2. ASSUME NEW from \in Phases \ {"new"}, NEW to \in Phases, Go(s, from, to),
             UNCHANGED <<agent, address>>, \A s2 \in Sessions : s2 # s => tunnel'[s2] = tunnel[s2],
             to = "reopening" => tunnel'[s] \in Tunnels
      PROVE  Identified'
  BY <1>2 DEF Go, Identified, TypeOK
<1>3. CASE FindToken(s)
  BY <1>2, <1>3 DEF FindToken, hello, Phases
<1>4. CASE UpsertAgent(s)
  BY <1>2, <1>4 DEF UpsertAgent, hello, Phases
<1>5. CASE Register(s)
  BY <1>2, <1>5 DEF Register, hello, Phases
<1>6. CASE Reopen(s) \/ NothingToReopen(s)
  BY <1>2, <1>6 DEF Reopen, NothingToReopen, hello, Phases
<1>10. CASE SelectClosed(s) \/ Insert(s)
  <2>1. PICK t \in Tunnels : tunnel' = [tunnel EXCEPT ![s] = t]
    BY Zenon, <1>10 DEF SelectClosed, Insert, LatestClosed, ClosedRows
  <2>2. tunnel'[s] = t /\ \A s2 \in Sessions : s2 # s => tunnel'[s2] = tunnel[s2]
    BY <2>1 DEF TypeOK
  <2> QED
    BY <1>2, <1>10, <2>2 DEF SelectClosed, Insert, hello, Phases
<1>7. CASE OpenRoute(s) \/ CloseSession(s)
  BY <1>2, <1>7 DEF OpenRoute, CloseSession, hello, Phases
<1>8. CASE Remove(s)
  BY <1>2, <1>8 DEF Remove, hello, Phases, InMap
<1>9. CASE CloseAgentTunnels(s) \/ Disconnect(s)
  BY <1>2, <1>9 DEF CloseAgentTunnels, Disconnect, hello, Phases
<1> QED
  BY <1>1, <1>3, <1>4, <1>5, <1>6, <1>7, <1>8, <1>9, <1>10 DEF SessionStep

\* The steps that are not of a session: what they may change of the sessions is
\* that the server dies and they are lost.
LEMMA ServerStep ==
    ASSUME [Next]_vars, ~\E s \in Sessions : SessionStep(s)
    PROVE  /\ UNCHANGED <<connected, row, newer, hello, tunnel, overlapped>>
           /\ \/ UNCHANGED <<sessions, route, phase>>
              \/ /\ sessions' = {} /\ route' = [t \in Tunnels |-> None]
                 /\ phase' = [s \in Sessions |-> IF phase[s] \in {"new", "closed"}
                                                 THEN phase[s] ELSE "lost"]
                 /\ Stop \/ Crash
<1>1. CASE UNCHANGED vars
  BY <1>1 DEF vars, dbVars
<1>2. ASSUME NEW k \in Tokens, Revoke(k) \/ DisconnectTokenHash(k)
      PROVE  UNCHANGED <<connected, row, newer, hello, tunnel, overlapped, sessions, route, phase>>
  BY <1>2 DEF Revoke, DisconnectTokenHash, dbVars
<1>3. CASE CloseAll \/ Start
  BY <1>3 DEF CloseAll, Start, dbVars
<1>4. CASE Stop \/ Crash
  BY <1>4 DEF Stop, Crash, Die, dbVars
<1> QED
  BY <1>1, <1>2, <1>3, <1>4 DEF Next, Terminated

\* Every reachable state of the control plane has the declared types.
THEOREM TypeCorrect == Spec => [](TypeOK /\ Identified)
<1>1. Init => TypeOK /\ Identified
  BY SMTT(60), Z3T(60) DEF Init, TypeOK, Identified, Row, Phases
<1>2. TypeOK /\ Identified /\ [Next]_vars => (TypeOK /\ Identified)'
  <2> SUFFICES ASSUME TypeOK, Identified, [Next]_vars
               PROVE  TypeOK' /\ Identified'
    OBVIOUS
  <2>1. CASE \E s \in Sessions : SessionStep(s)
    BY <2>1, SessionStepType, SessionStepIdentified
  <2>2. CASE ~\E s \in Sessions : SessionStep(s)
    <3>1. Identified'
      BY <2>2, ServerStep DEF Identified, hello
    <3>2. revoked' \in SUBSET Tokens /\ revoking' \in SUBSET Tokens /\ cancelled' \in SUBSET Sessions
          /\ server' \in {"up", "stopping", "stopped", "crashed"}
      <4>1. ASSUME NEW k \in Tokens, Revoke(k) \/ DisconnectTokenHash(k)
            PROVE  <3>2!:
        BY <4>1 DEF Revoke, DisconnectTokenHash, dbVars, TypeOK
      <4>2. CASE CloseAll \/ Start
        BY <4>2 DEF CloseAll, Start, dbVars, TypeOK
      <4>3. CASE Stop \/ Crash
        BY <4>3 DEF Stop, Crash, Die, dbVars, TypeOK
      <4>4. CASE UNCHANGED vars
        BY <4>4 DEF vars, dbVars, TypeOK
      <4> QED
        BY <2>2, <4>1, <4>2, <4>3, <4>4 DEF Next, Terminated
    <3>3. TypeOK'
      BY ZenonT(60), <2>2, <3>2, ServerStep DEF TypeOK, hello, Phases
    <3> QED
      BY <3>1, <3>3
  <2> QED
    BY <2>1, <2>2
<1> QED
  BY <1>1, <1>2, PTL DEF Spec

--------------------------------------------------------------------------------

\* A session that goes on to another phase and changes neither rows nor routes
\* keeps the ownership of routes, if it does not leave a phase in which it may
\* have one.
LEMMA PhaseMoves ==
    ASSUME TypeOK, OwnsRow, RoutesRow, NEW s \in Sessions,
           NEW from \in Phases, NEW to \in Phases, Go(s, from, to),
           UNCHANGED <<row, route, tunnel>>,
           \A s2 \in Sessions : s2 # s => agent'[s2] = agent[s2] /\ address'[s2] = address[s2],
           from \in {"serving", "removed"} => to = "removed" /\ UNCHANGED <<agent, address>>,
           to \notin {"reopening", "opening", "serving"}
    PROVE  (OwnsRow /\ RoutesRow)'
BY SMTT(60), Z3T(60), NoneAssumption DEF OwnsRow, RoutesRow, RouteOwner, Go, TypeOK

\* Every step of a session keeps the ownership of routes.
LEMMA SessionStepOwner ==
    ASSUME TypeOK, OwnsRow, RoutesRow, NEW s \in Sessions, SessionStep(s)
    PROVE  (OwnsRow /\ RoutesRow)'
<1>1. ASSUME NEW k \in Tokens, NEW a \in Agents, NEW d \in Addresses, Accept(s, k, a, d)
      PROVE  (OwnsRow /\ RoutesRow)'
  BY <1>1, PhaseMoves DEF Accept, dbVars, Phases, TypeOK
<1>2. CASE FindToken(s)
  BY ZenonT(60), <1>2, PhaseMoves DEF FindToken, dbVars, hello, Phases
<1>3. CASE UpsertAgent(s)
  BY ZenonT(60), <1>3, PhaseMoves DEF UpsertAgent, hello, Phases
<1>4. CASE Register(s) \/ NothingToReopen(s)
  BY ZenonT(60), <1>4, PhaseMoves DEF Register, NothingToReopen, dbVars, hello, Phases
<1>5. CASE Remove(s)
  BY ZenonT(60), <1>5, PhaseMoves DEF Remove, dbVars, hello, Phases, InMap
<1>6. CASE Disconnect(s)
  BY ZenonT(60), <1>6, PhaseMoves DEF Disconnect, hello, Phases
<1>7. ASSUME NEW t \in Tunnels, NEW to \in {"reopening", "opening"}, Go(s, phase[s], to),
             phase[s] \in {"registered", "reopening", "inserting"}, tunnel' = [tunnel EXCEPT ![s] = t],
             row'[t].status # "none" /\ row'[t].agent = agent[s] /\ row'[t].address = address[s],
             row[t].status = "none" \/ (row'[t].agent = row[t].agent /\ row'[t].address = row[t].address),
             \A u \in Tunnels : u # t => row'[u] = row[u],
             UNCHANGED <<route, agent, address>>
      PROVE  (OwnsRow /\ RoutesRow)'
  <2>1. /\ phase'[s] = to /\ \A s2 \in Sessions : s2 # s => phase'[s2] = phase[s2]
        /\ tunnel'[s] = t /\ \A s2 \in Sessions : s2 # s => tunnel'[s2] = tunnel[s2]
    BY ZenonT(60), <1>7 DEF Go, TypeOK
  <2>2. OwnsRow'
    BY SMTT(60), Z3T(60), <1>7, <2>1 DEF OwnsRow
  <2>3. \A u \in Tunnels : route[u] # s
    BY ZenonT(60), <1>7 DEF RoutesRow, RouteOwner
  <2>4. RouteOwner'
    BY SMTT(60), Z3T(60), <1>7, <2>1, <2>3, NoneAssumption DEF RoutesRow, RouteOwner
  <2>5. \A u \in Tunnels : route'[u] # None => row'[u].status # "none"
    BY <1>7 DEF RoutesRow
  <2> QED
    BY <2>2, <2>4, <2>5 DEF RoutesRow
<1>13. CASE SelectClosed(s)
  <2>1. PICK t \in LatestClosed(s) : tunnel' = [tunnel EXCEPT ![s] = t]
    BY Zenon, <1>13 DEF SelectClosed
  <2>2. t \in Tunnels /\ row[t] = [status |-> "closed", agent |-> agent[s], address |-> address[s]]
    BY DEF LatestClosed, ClosedRows
  <2>3. row[t].status # "none" /\ row[t].agent = agent[s] /\ row[t].address = address[s]
    BY SMTT(60), Z3T(60), <2>2
  <2>4. /\ Go(s, phase[s], "reopening") /\ phase[s] = "registered"
        /\ UNCHANGED <<row, route, agent, address>>
    BY <1>13 DEF SelectClosed, Go, hello, dbVars
  <2> QED
    BY Zenon, <1>7, <2>1, <2>2, <2>3, <2>4
<1>8. CASE Reopen(s)
  <2> DEFINE t == tunnel[s]
  <2>1. /\ Go(s, phase[s], "opening") /\ phase[s] = "reopening"
        /\ UNCHANGED <<route, agent, address, tunnel>> /\ row' = [row EXCEPT ![t].status = "open"]
    BY <1>8 DEF Reopen, Go, hello
  <2>2. t \in Tunnels /\ row[t].agent = agent[s] /\ row[t].address = address[s]
    BY Zenon, <2>1 DEF OwnsRow
  <2>3. /\ row'[t].status = "open" /\ row'[t].agent = row[t].agent /\ row'[t].address = row[t].address
        /\ \A u \in Tunnels : u # t => row'[u] = row[u]
    BY <2>1, <2>2 DEF TypeOK, Row
  <2>4. tunnel' = [tunnel EXCEPT ![s] = t]
    BY ZenonT(60), <2>1 DEF TypeOK
  <2> HIDE DEF t
  <2> QED
    BY Zenon, <1>7, <2>1, <2>2, <2>3, <2>4
<1>9. CASE Insert(s)
  <2>1. PICK t \in Tunnels :
            /\ row[t].status = "none" /\ tunnel' = [tunnel EXCEPT ![s] = t]
            /\ row' = [row EXCEPT ![t] = [status |-> "open", agent |-> agent[s], address |-> address[s]]]
    BY Zenon, <1>9 DEF Insert
  <2>2. Go(s, phase[s], "opening") /\ phase[s] = "inserting" /\ UNCHANGED <<route, agent, address>>
    BY <1>9 DEF Insert, Go, hello
  <2> QED
    BY Zenon, <1>7, <2>1, <2>2 DEF TypeOK
<1>10. CASE OpenRoute(s)
  <2>1. /\ phase[s] = "opening" /\ phase'[s] = "serving"
        /\ \A s2 \in Sessions : s2 # s => phase'[s2] = phase[s2]
        /\ tunnel[s] \in Tunnels /\ route'[tunnel[s]] = s
        /\ \A t \in Tunnels : t # tunnel[s] => route'[t] = route[t]
        /\ UNCHANGED <<row, agent, address, tunnel>>
    BY ZenonT(60), <1>10 DEF OpenRoute, Go, TypeOK, OwnsRow, dbVars, hello
  <2>2. OwnsRow'
    BY ZenonT(60), <2>1 DEF OwnsRow
  <2>3. RoutesRow'
    BY SMTT(60), Z3T(60), <2>1, NoneAssumption DEF OwnsRow, RoutesRow, RouteOwner
  <2> QED
    BY Zenon, <2>2, <2>3
<1>11. CASE CloseSession(s)
  BY SMTT(60), Z3T(60), <1>11, NoneAssumption DEF CloseSession, Go, TypeOK, OwnsRow, RoutesRow, RouteOwner, dbVars, hello
<1>12. CASE CloseAgentTunnels(s)
  <2>1. \A t \in Tunnels : /\ row'[t].agent = row[t].agent /\ row'[t].address = row[t].address
                           /\ row[t].status # "none" => row'[t].status # "none"
    BY SMTT(60), Z3T(60), <1>12 DEF CloseAgentTunnels, TypeOK, Row
  <2>2. /\ phase[s] = "unrouted" /\ phase'[s] = "rowsClosed"
        /\ \A s2 \in Sessions : s2 # s => phase'[s2] = phase[s2]
        /\ UNCHANGED <<route, agent, address, tunnel>>
    BY <1>12 DEF CloseAgentTunnels, Go, TypeOK, hello
  <2> QED
    BY SMTT(60), Z3T(60), <2>1, <2>2 DEF OwnsRow, RoutesRow, RouteOwner
<1> QED
  BY Zenon, <1>1, <1>2, <1>3, <1>4, <1>5, <1>6, <1>8, <1>9, <1>10, <1>11, <1>12, <1>13 DEF SessionStep

\* Sessions keep the rows they opened, and routes the rows they are of.
LEMMA RowsAreOwned == Spec => [](OwnsRow /\ RoutesRow)
<1>1. Init => OwnsRow /\ RoutesRow
  BY SMTT(60), Z3T(60), NoneAssumption DEF Init, OwnsRow, RoutesRow, RouteOwner
<1>2. TypeOK /\ (OwnsRow /\ RoutesRow) /\ [Next]_vars => (OwnsRow /\ RoutesRow)'
  <2> SUFFICES ASSUME TypeOK, OwnsRow, RoutesRow, [Next]_vars
               PROVE  (OwnsRow /\ RoutesRow)'
    OBVIOUS
  <2>1. CASE \E s \in Sessions : SessionStep(s)
    BY <2>1, SessionStepOwner
  <2>2. CASE ~\E s \in Sessions : SessionStep(s)
    <3>1. UNCHANGED <<row, agent, address, tunnel>>
      BY <2>2, ServerStep DEF hello
    <3>2. CASE UNCHANGED <<sessions, route, phase>>
      BY SMTT(60), Z3T(60), <3>1, <3>2 DEF OwnsRow, RoutesRow, RouteOwner
    <3>3. CASE route' = [t \in Tunnels |-> None]
               /\ phase' = [s \in Sessions |-> IF phase[s] \in {"new", "closed"}
                                               THEN phase[s] ELSE "lost"]
      BY ZenonT(60), <3>1, <3>3, NoneAssumption DEF OwnsRow, RoutesRow, RouteOwner
    <3> QED
      BY <2>2, <3>2, <3>3, ServerStep
  <2> QED
    BY <2>1, <2>2
<1> QED
  BY <1>1, <1>2, TypeCorrect, PTL DEF Spec

\* A subdomain leads only to the session that opened it, for the agent and the
\* address of its row, and not after CloseSession: for any number of agents,
\* sessions and tunnels, with overlapping sessions, failing statements, crashes
\* and restarts.
THEOREM RoutesAreOwned == Spec => []RouteOwner
<1>1. RoutesRow => RouteOwner
  BY Zenon DEF RoutesRow
<1> QED
  BY <1>1, RowsAreOwned, PTL

--------------------------------------------------------------------------------

\* The phases in which a session still has to close the rows of its agent.
Closing == {"opening", "serving", "removed", "unrouted"}

\* Whoever is online, and whatever is open, has a session that will see to it.
Attended ==
    /\ \A a \in connected : \E s \in Sessions : agent[s] = a /\ phase[s] \in Active
    /\ \A t \in Tunnels : row[t].status = "open" =>
          \E s \in Sessions : agent[s] = row[t].agent /\ phase[s] \in Closing

\* A session that goes on to another phase, no earlier in its cleanup, and makes
\* nothing online or open but what it attends to itself, leaves nothing unattended.
LEMMA AttendedMoves ==
    ASSUME TypeOK, Attended, NEW s \in Sessions, NEW from \in Phases, NEW to \in Phases, Go(s, from, to),
           \A s2 \in Sessions : agent'[s2] = agent[s2] \/ (s2 = s /\ from \notin Active \cup Closing),
           \A a \in connected' : a \in connected \/ (a = agent'[s] /\ to \in Active),
           \A t \in Tunnels : row'[t].status = "open" =>
               \/ row[t].status = "open" /\ row'[t].agent = row[t].agent
               \/ row'[t].agent = agent'[s] /\ to \in Closing,
           from \in Active => to \in Active \/ agent[s] \notin connected',
           from \in Closing => to \in Closing \/
               \A t \in Tunnels : ~(row'[t].agent = agent[s] /\ row'[t].status = "open")
    PROVE  Attended'
<1>1. /\ phase[s] = from /\ phase'[s] = to
      /\ \A s2 \in Sessions : s2 # s => phase'[s2] = phase[s2] /\ agent'[s2] = agent[s2]
  BY ZenonT(60) DEF Go, TypeOK
<1>2. ASSUME NEW a \in connected'
      PROVE  \E s2 \in Sessions : agent'[s2] = a /\ phase'[s2] \in Active
  BY SMTT(60), Z3T(60), <1>1, <1>2 DEF Attended
<1>3. ASSUME NEW t \in Tunnels, row'[t].status = "open"
      PROVE  \E s2 \in Sessions : agent'[s2] = row'[t].agent /\ phase'[s2] \in Closing
  BY SMTT(60), Z3T(60), <1>1, <1>3 DEF Attended
<1> QED
  BY <1>2, <1>3 DEF Attended

\* Every step of a session leaves nothing unattended when no statement fails.
LEMMA SessionStepAttended ==
    ASSUME Faults = {}, TypeOK, OwnsRow, Attended, NEW s \in Sessions, SessionStep(s)
    PROVE  Attended'
<1>0. /\ InMap \subseteq Active /\ Active \subseteq Phases
      /\ "new" \in Phases /\ "accepted" \in Phases /\ "found" \in Phases /\ "closed" \in Phases
      /\ "new" \notin Active /\ "accepted" \notin Active /\ "found" \notin Active
      /\ "upserted" \in Active /\ "registered" \in Active /\ "reopening" \in Active /\ "inserting" \in Active
      /\ "opening" \in Active /\ "serving" \in Active /\ "removed" \in Active
      /\ "unrouted" \in Active /\ "rowsClosed" \in Active
      /\ "opening" \in Closing /\ "serving" \in Closing /\ "removed" \in Closing
      /\ "unrouted" \in Closing
      /\ \A p \in {"new", "accepted", "found", "upserted", "registered", "reopening", "inserting", "rowsClosed"} :
            p \notin Closing
  BY Zenon DEF Phases, Active, InMap, Closing
<1>1. ASSUME NEW k \in Tokens, NEW a \in Agents, NEW d \in Addresses, Accept(s, k, a, d)
      PROVE  Attended'
  BY Zenon, <1>1, <1>0, AttendedMoves DEF Accept, dbVars, TypeOK
<1>2. CASE FindToken(s)
  BY Zenon, <1>2, <1>0, AttendedMoves DEF FindToken, dbVars, hello
<1>3. CASE UpsertAgent(s)
  BY Zenon, <1>3, <1>0, AttendedMoves DEF UpsertAgent, hello
<1>4. CASE Register(s) \/ SelectClosed(s) \/ NothingToReopen(s)
  BY Zenon, <1>4, <1>0, AttendedMoves DEF Register, SelectClosed, NothingToReopen, dbVars, hello
<1>5. CASE OpenRoute(s) \/ CloseSession(s)
  BY Zenon, <1>5, <1>0, AttendedMoves DEF OpenRoute, CloseSession, dbVars, hello
<1>6. CASE Remove(s)
  BY Zenon, <1>6, <1>0, AttendedMoves DEF Remove, dbVars, hello
<1>7. CASE Reopen(s)
  <2> DEFINE t == tunnel[s]
  <2>1. /\ Go(s, "reopening", "opening") /\ UNCHANGED <<connected, agent>>
        /\ row' = [row EXCEPT ![t].status = "open"]
    BY <1>7 DEF Reopen, hello
  <2>2. t \in Tunnels /\ row[t].agent = agent[s]
    BY Zenon, <2>1 DEF OwnsRow, Go
  <2>3. \A u \in Tunnels : row'[u].agent = row[u].agent /\ (u # t => row'[u] = row[u])
    BY ZenonT(60), <2>1, <2>2 DEF TypeOK, Row
  <2> HIDE DEF t
  <2> QED
    BY SMTT(60), Z3T(60), <2>1, <2>2, <2>3, <1>0, AttendedMoves
<1>8. CASE Insert(s)
  <2>1. PICK t \in Tunnels :
            row' = [row EXCEPT ![t] = [status |-> "open", agent |-> agent[s], address |-> address[s]]]
    BY Zenon, <1>8 DEF Insert
  <2>2. row'[t].agent = agent[s] /\ \A u \in Tunnels : u # t => row'[u] = row[u]
    BY <2>1 DEF TypeOK
  <2>3. Go(s, "inserting", "opening") /\ UNCHANGED <<connected, agent>>
    BY <1>8 DEF Insert, hello
  <2> QED
    BY SMTT(60), Z3T(60), <2>2, <2>3, <1>0, AttendedMoves
<1>9. CASE CloseAgentTunnels(s)
  <2>1. \A t \in Tunnels :
            row'[t].status = "open" => row'[t] = row[t] /\ row[t].agent # agent[s]
    BY SMTT(60), Z3T(60), <1>9 DEF CloseAgentTunnels, OpenRows, TypeOK, Row
  <2>2. Go(s, "unrouted", "rowsClosed") /\ UNCHANGED <<connected, agent>>
    BY <1>9 DEF CloseAgentTunnels, hello
  <2> QED
    BY SMTT(60), Z3T(60), <2>1, <2>2, <1>0, AttendedMoves
<1>10. CASE Disconnect(s)
  BY <1>10, <1>0, AttendedMoves DEF Disconnect, hello
<1> QED
  BY <1>1, <1>2, <1>3, <1>4, <1>5, <1>6, <1>7, <1>8, <1>9, <1>10 DEF SessionStep

\* Where the server neither dies nor meets a failing statement, nothing is ever left
\* unattended.
LEMMA AlwaysAttended ==
    ASSUME Faults = {}
    PROVE  Spec => []Attended
<1>1. Init => Attended /\ server = "up"
  BY SMTT(60), Z3T(60) DEF Init, Attended
<1>2. TypeOK /\ (OwnsRow /\ RoutesRow) /\ Attended /\ server = "up" /\ [Next]_vars
        => (Attended /\ server = "up")'
  <2> SUFFICES ASSUME TypeOK, OwnsRow, Attended, server = "up", [Next]_vars
               PROVE  Attended' /\ server' = "up"
    OBVIOUS
  <2>1. CASE \E s \in Sessions : SessionStep(s)
    BY <2>1, SessionStepAttended, SessionStepKeeps
  <2>2. CASE ~\E s \in Sessions : SessionStep(s)
    <3>1. UNCHANGED <<connected, row, agent>>
      BY <2>2, ServerStep DEF hello
    <3>2. ~CloseAll /\ ~Stop /\ ~Crash /\ ~Start
      BY DEF CloseAll, Stop, Crash, Start, Running
    <3>3. UNCHANGED <<server, phase>>
      BY <2>2, <3>2 DEF Next, Terminated, vars, Revoke, DisconnectTokenHash
    <3> QED
      BY <3>1, <3>3 DEF Attended
  <2> QED
    BY <2>1, <2>2
<1> QED
  BY <1>1, <1>2, TypeCorrect, RowsAreOwned, PTL DEF Spec

\* Where the server neither dies nor meets a failing statement, an agent whose last
\* session has been cleaned up is offline and its tunnels are closed, for any
\* number of sessions that overlap in any way.
THEOREM CleanupIsComplete ==
    ASSUME Faults = {}
    PROVE  Spec => []OfflineWhenDisconnected
<1>1. Attended => OfflineWhenDisconnected
  BY SMTT(60), Z3T(60) DEF Attended, OfflineWhenDisconnected, OpenRows, Closing, Active, InMap
<1> QED
  BY <1>1, AlwaysAttended, PTL

--------------------------------------------------------------------------------
(* Sessions that do not overlap *)

\* What holds of a session that is not overlapped: no other one of its agent is active,
\* so that nobody closes its row, takes its route or ends its presence.
Alone ==
    /\ \A s, s2 \in Sessions :
          s # s2 /\ agent[s] = agent[s2] /\ phase[s] \in Active /\ phase[s2] \in Active => s \in overlapped
    /\ \A s \in sessions : phase[s] \in InMap
    /\ \A s \in Sessions \ overlapped : phase[s] \in Active => agent[s] \in connected
    /\ \A s \in Sessions \ overlapped : phase[s] \in {"opening", "serving"} => row[tunnel[s]].status = "open"
    /\ ServingIsRouted

\* A session that goes on to another phase, neither to open a row nor to serve, and
\* changes nothing of the rows, leaves the sessions alone that are not overlapped.
LEMMA AloneMoves ==
    ASSUME TypeOK, OwnsRow, Alone, NEW s \in Sessions, NEW from \in Phases, NEW to \in Phases,
           Go(s, from, to), to \notin {"opening", "serving"}, UNCHANGED row,
           overlapped \subseteq overlapped',
           \A s2 \in Sessions : s2 # s => agent'[s2] = agent[s2] /\ tunnel'[s2] = tunnel[s2],
           to \in Active =>
               \/ from \in Active /\ agent'[s] = agent[s]
               \/ \A s2 \in Sessions : s2 # s /\ agent[s2] = agent'[s] /\ phase[s2] \in Active
                                          => s \in overlapped' /\ s2 \in overlapped',
           sessions' \subseteq sessions \cup {s}, s \in sessions' => to \in InMap,
           to \in Active /\ s \notin overlapped' => agent'[s] \in connected',
           \A a \in connected : a \in connected' \/ (a = agent[s] /\ from \in Active),
           \A t \in Tunnels : route'[t] = route[t] \/ route[t] = s
    PROVE  Alone'
<1>1. /\ phase[s] = from /\ phase'[s] = to
      /\ \A s2 \in Sessions : s2 # s => phase'[s2] = phase[s2]
  BY DEF Go, TypeOK
<1>2. ASSUME NEW q \in Sessions, q # s, agent[q] = agent'[s], phase[q] \in Active, to \in Active
      PROVE  s \in overlapped' /\ q \in overlapped'
  BY ZenonT(60), <1>1, <1>2 DEF Alone
<1>3. ASSUME NEW s1 \in Sessions, NEW s2 \in Sessions, s1 # s2,
             agent'[s1] = agent'[s2], phase'[s1] \in Active, phase'[s2] \in Active
      PROVE  s1 \in overlapped'
  <2>1. CASE s1 = s
    BY Zenon, <1>1, <1>2, <1>3, <2>1
  <2>2. CASE s2 = s
    BY Zenon, <1>1, <1>2, <1>3, <2>2
  <2>3. CASE s1 # s /\ s2 # s
    BY ZenonT(60), <1>1, <1>3, <2>3 DEF Alone
  <2> QED
    BY <2>1, <2>2, <2>3
<1>4. \A q \in sessions' : phase'[q] \in InMap
  BY ZenonT(60), <1>1 DEF Alone, TypeOK
<1>5. ASSUME NEW q \in Sessions \ overlapped', phase'[q] \in Active
      PROVE  agent'[q] \in connected'
  BY ZenonT(60), <1>1, <1>5 DEF Alone
<1>6. \A q \in Sessions \ overlapped' : phase'[q] \in {"opening", "serving"} => row'[tunnel'[q]].status = "open"
  BY ZenonT(60), <1>1 DEF Alone
<1>7. ServingIsRouted'
  <2> SUFFICES ASSUME NEW q \in Sessions \ overlapped', phase'[q] = "serving" PROVE route'[tunnel'[q]] = q
    BY Zenon DEF ServingIsRouted
  <2>1. q # s /\ phase[q] = "serving" /\ route[tunnel[q]] = q
    BY ZenonT(60), <1>1 DEF Alone, ServingIsRouted
  <2>2. tunnel[q] \in Tunnels
    BY Zenon, <2>1 DEF OwnsRow
  <2> QED
    BY <2>1, <2>2
<1> QED
  BY Zenon, <1>3, <1>4, <1>5, <1>6, <1>7 DEF Alone

\* So does a session that opens a row.
LEMMA AloneOpens ==
    ASSUME TypeOK, OwnsRow, Alone, NEW s \in Sessions, NEW t \in Tunnels,
           Go(s, phase[s], "opening"), phase[s] \in {"reopening", "inserting"},
           tunnel' = [tunnel EXCEPT ![s] = t],
           row'[t].status = "open", \A u \in Tunnels : u # t => row'[u] = row[u],
           UNCHANGED <<connected, sessions, route, agent, overlapped>>
    PROVE  Alone'
<1>1. /\ phase'[s] = "opening" /\ \A q \in Sessions : q # s => phase'[q] = phase[q]
      /\ tunnel'[s] = t /\ \A q \in Sessions : q # s => tunnel'[q] = tunnel[q]
  BY ZenonT(60) DEF Go, TypeOK
<1>3. \A q \in Sessions : phase'[q] \in Active => phase[q] \in Active
  BY Zenon, <1>1 DEF Active, InMap
<1>4. \A q \in sessions' : phase'[q] \in InMap
  BY ZenonT(60), <1>1 DEF Alone, TypeOK, InMap
<1>5. \A q \in Sessions \ overlapped' : phase'[q] \in {"opening", "serving"} => row'[tunnel'[q]].status = "open"
  <2> SUFFICES ASSUME NEW q \in Sessions \ overlapped, phase'[q] \in {"opening", "serving"}, q # s
               PROVE  row'[tunnel'[q]].status = "open"
    BY Zenon, <1>1
  <2>1. phase[q] \in {"opening", "serving"} /\ tunnel'[q] = tunnel[q]
    BY Zenon, <1>1
  <2>2. row[tunnel[q]].status = "open"
    BY Zenon, <2>1 DEF Alone
  <2>3. tunnel[q] \in Tunnels
    BY Zenon, <2>1 DEF OwnsRow
  <2> QED
    BY Zenon, <2>1, <2>2, <2>3
<1>6. ServingIsRouted'
  BY SMTT(60), Z3T(60), <1>1 DEF Alone, ServingIsRouted
<1> QED
  BY Zenon, <1>3, <1>4, <1>5, <1>6 DEF Alone

\* Every step of a session leaves the sessions alone that are not overlapped.
LEMMA SessionStepAlone ==
    ASSUME TypeOK, Identified, OwnsRow, RoutesRow, Alone, NEW s \in Sessions, SessionStep(s)
    PROVE  Alone'
<1>0. /\ InMap \subseteq Active /\ Active \subseteq Phases
      /\ "new" \in Phases /\ "closed" \in Phases /\ "accepted" \in Phases /\ "found" \in Phases
      /\ "accepted" \notin Active /\ "found" \notin Active /\ "closed" \notin Active
      /\ "upserted" \in Active /\ "registered" \in InMap /\ "reopening" \in InMap /\ "inserting" \in InMap
      /\ "removed" \in Active /\ "unrouted" \in Active /\ "rowsClosed" \in Active
      /\ "upserted" \notin InMap /\ "removed" \notin InMap /\ "unrouted" \notin InMap
      /\ "rowsClosed" \notin InMap /\ "accepted" \notin InMap /\ "found" \notin InMap
      /\ "closed" \notin InMap /\ "new" \notin InMap
  BY DEF Phases, Active, InMap
<1>1. s \in sessions => phase[s] \in InMap
  BY DEF Alone
<1>2. s \notin overlapped /\ phase[s] \in Active => agent[s] \in connected
  BY Zenon DEF Alone
<1>3. ASSUME NEW k \in Tokens, NEW a \in Agents, NEW d \in Addresses, Accept(s, k, a, d)
      PROVE  Alone'
  <2>1. /\ Go(s, "new", "accepted") /\ UNCHANGED <<row, tunnel, sessions, connected, route, overlapped>>
        /\ \A s2 \in Sessions : s2 # s => agent'[s2] = agent[s2]
    BY <1>3 DEF Accept, dbVars, TypeOK
  <2>2. phase[s] = "new"
    BY <2>1 DEF Go
  <2> QED
    BY Zenon, <1>0, <1>1, <2>1, <2>2, AloneMoves
<1>4. CASE FindToken(s)
  <2>1. PICK to \in {"found", "closed"} : Go(s, "accepted", to)
    BY <1>4 DEF FindToken
  <2>2. UNCHANGED <<row, tunnel, sessions, connected, route, agent, overlapped>> /\ phase[s] = "accepted"
    BY Zenon, <1>4, <2>1 DEF FindToken, dbVars, hello, Go
  <2> QED
    BY <1>0, <1>1, <2>1, <2>2, AloneMoves
<1>5. CASE UpsertAgent(s)
  <2>1. PICK to \in {"upserted", "closed"} :
            Go(s, "found", to) /\ (to = "upserted" => agent[s] \in connected' /\ Overlapping(s))
    BY <1>5 DEF UpsertAgent
  <2>2. /\ UNCHANGED <<row, tunnel, sessions, route, agent>> /\ phase[s] = "found"
        /\ connected \subseteq connected'
    BY Zenon, <1>5, <2>1 DEF UpsertAgent, hello, Go
  <2>3. overlapped \subseteq overlapped'
    BY <1>5 DEF UpsertAgent, Overlapping
  <2>4. ASSUME to = "upserted", NEW s2 \in Sessions, s2 # s, agent[s2] = agent[s], phase[s2] \in Active
        PROVE  s \in overlapped' /\ s2 \in overlapped'
    <3>1. s2 \in Others(s)
      BY Zenon, <2>4 DEF Others
    <3>2. overlapped' = overlapped \cup {s} \cup Others(s)
      BY Zenon, <2>1, <2>4, <3>1 DEF Overlapping
    <3> QED
      BY Zenon, <3>1, <3>2
  <2> QED
    BY ZenonT(60), <1>0, <1>1, <2>1, <2>2, <2>3, <2>4, AloneMoves
<1>6. CASE Register(s)
  <2>1. /\ Go(s, "upserted", "registered") /\ sessions' = sessions \cup {s} /\ phase[s] = "upserted"
        /\ UNCHANGED <<row, tunnel, connected, route, agent, overlapped>>
    BY <1>6 DEF Register, dbVars, hello, Go
  <2> QED
    BY <1>0, <1>2, <2>1, AloneMoves
<1>7. CASE NothingToReopen(s)
  <2>1. /\ Go(s, "registered", "inserting") /\ phase[s] = "registered"
        /\ UNCHANGED <<row, tunnel, sessions, connected, route, agent, overlapped>>
    BY <1>7 DEF NothingToReopen, dbVars, hello, Go
  <2> QED
    BY <1>0, <1>2, <2>1, AloneMoves
<1>15. CASE SelectClosed(s)
  <2>1. /\ Go(s, "registered", "reopening") /\ phase[s] = "registered"
        /\ UNCHANGED <<row, sessions, connected, route, agent, overlapped>>
    BY <1>15 DEF SelectClosed, dbVars, hello, Go
  <2>2. \A s2 \in Sessions : s2 # s => tunnel'[s2] = tunnel[s2]
    BY <1>15 DEF SelectClosed, TypeOK
  <2> QED
    BY <1>0, <1>2, <2>1, <2>2, AloneMoves
<1>8. CASE Reopen(s)
  <2> DEFINE t == tunnel[s]
  <2>1. /\ Go(s, phase[s], "opening") /\ phase[s] = "reopening" /\ row' = [row EXCEPT ![t].status = "open"]
        /\ UNCHANGED <<connected, sessions, route, agent, tunnel, overlapped>>
    BY <1>8 DEF Reopen, Go, hello
  <2>2. t \in Tunnels
    BY Zenon, <2>1 DEF Identified
  <2>3. row'[t].status = "open" /\ \A u \in Tunnels : u # t => row'[u] = row[u]
    BY ZenonT(60), <2>1, <2>2 DEF TypeOK, Row
  <2>4. tunnel' = [tunnel EXCEPT ![s] = t]
    BY ZenonT(60), <2>1 DEF TypeOK
  <2> HIDE DEF t
  <2> QED
    BY ZenonT(60), <2>1, <2>2, <2>3, <2>4, AloneOpens
<1>9. CASE Insert(s)
  <2>1. PICK t \in Tunnels :
            /\ row[t].status = "none" /\ tunnel' = [tunnel EXCEPT ![s] = t]
            /\ row' = [row EXCEPT ![t] = [status |-> "open", agent |-> agent[s], address |-> address[s]]]
    BY Zenon, <1>9 DEF Insert
  <2>2. row'[t].status = "open" /\ \A u \in Tunnels : u # t => row'[u] = row[u]
    BY Zenon, <2>1 DEF TypeOK
  <2>3. /\ Go(s, phase[s], "opening") /\ phase[s] = "inserting"
        /\ UNCHANGED <<connected, sessions, route, agent, overlapped>>
    BY Zenon, <1>9 DEF Insert, Go, hello
  <2> QED
    BY ZenonT(60), <2>1, <2>2, <2>3, AloneOpens
<1>10. CASE OpenRoute(s)
  <2>1. /\ phase[s] = "opening" /\ phase'[s] = "serving"
        /\ \A q \in Sessions : q # s => phase'[q] = phase[q]
        /\ tunnel[s] \in Tunnels /\ route'[tunnel[s]] = s
        /\ \A t \in Tunnels : t # tunnel[s] => route'[t] = route[t]
        /\ UNCHANGED <<row, tunnel, sessions, connected, agent, overlapped>>
    BY ZenonT(60), <1>10 DEF OpenRoute, Go, TypeOK, OwnsRow, dbVars, hello
  <2>2. \A q \in Sessions : phase'[q] \in Active => phase[q] \in Active
    BY Zenon, <2>1 DEF Active, InMap
  <2>3. \A q \in sessions' : phase'[q] \in InMap
    BY Zenon, <2>1 DEF Alone, TypeOK, InMap
  <2>4. \A q \in Sessions \ overlapped : phase'[q] \in {"opening", "serving"} => row'[tunnel'[q]].status = "open"
    BY Zenon, <2>1 DEF Alone
  <2>5. ASSUME NEW q \in Sessions \ overlapped, q # s, phase[q] = "serving"
        PROVE  tunnel[q] # tunnel[s] /\ tunnel[q] \in Tunnels
    <3>1. phase[q] \in Active /\ phase[s] \in Active
      BY Zenon, <2>1, <2>5 DEF Active, InMap
    <3> QED
      BY SMTT(60), Z3T(60), <2>1, <2>5, <3>1 DEF OwnsRow, Alone
  <2>6. ServingIsRouted'
    BY SMTT(60), Z3T(60), <2>1, <2>5 DEF Alone, ServingIsRouted
  <2> QED
    BY Zenon, <2>1, <2>2, <2>3, <2>4, <2>6 DEF Alone
<1>11. CASE Remove(s)
  <2>1. PICK p \in InMap : Go(s, p, "removed")
    BY Zenon, <1>11 DEF Remove
  <2>2. /\ sessions' = sessions \ {s} /\ phase[s] = p
        /\ UNCHANGED <<row, tunnel, connected, route, agent, overlapped>>
    BY Zenon, <1>11, <2>1 DEF Remove, dbVars, hello, Go
  <2> QED
    BY ZenonT(60), <1>0, <1>2, <2>1, <2>2, AloneMoves
<1>12. CASE CloseSession(s)
  <2>1. /\ Go(s, "removed", "unrouted") /\ phase[s] = "removed"
        /\ UNCHANGED <<row, tunnel, sessions, connected, agent, overlapped>>
        /\ \A t \in Tunnels : route'[t] = route[t] \/ route[t] = s
    BY Zenon, <1>12 DEF CloseSession, dbVars, hello, Go
  <2> QED
    BY ZenonT(60), <1>0, <1>1, <1>2, <2>1, AloneMoves
<1>13. CASE CloseAgentTunnels(s)
  <2>1. /\ phase[s] = "unrouted" /\ phase'[s] = "rowsClosed"
        /\ \A q \in Sessions : q # s => phase'[q] = phase[q]
        /\ UNCHANGED <<tunnel, sessions, connected, route, agent, overlapped>>
    BY Zenon, <1>13 DEF CloseAgentTunnels, Go, TypeOK, hello
  <2>2. \A t \in Tunnels : row[t].agent # agent[s] => row'[t] = row[t]
    BY Zenon, <1>13 DEF CloseAgentTunnels, OpenRows
  <2>3. \A q \in Sessions : phase'[q] \in Active => phase[q] \in Active
    BY Zenon, <2>1 DEF Active, InMap
  <2>4. \A q \in sessions' : phase'[q] \in InMap
    BY SMTT(60), Z3T(60), <1>0, <1>1, <2>1 DEF Alone, TypeOK
  <2>5. ASSUME NEW q \in Sessions \ overlapped, phase'[q] \in {"opening", "serving"}
        PROVE  row'[tunnel'[q]].status = "open"
    <3>1. q # s /\ phase[q] \in {"opening", "serving"} /\ phase[q] \in Active /\ phase[s] \in Active
      BY Zenon, <2>1, <2>5 DEF Active, InMap
    <3> QED
      BY ZenonT(60), <2>1, <2>2, <3>1 DEF OwnsRow, Alone
  <2>6. ServingIsRouted'
    BY ZenonT(60), <2>1 DEF Alone, ServingIsRouted
  <2> QED
    BY <2>1, <2>3, <2>4, <2>5, <2>6 DEF Alone
<1>14. CASE Disconnect(s)
  <2>1. /\ Go(s, "rowsClosed", "closed") /\ phase[s] = "rowsClosed"
        /\ UNCHANGED <<row, tunnel, sessions, route, agent, overlapped>>
        /\ \A a \in connected : a \in connected' \/ a = agent[s]
    BY <1>14 DEF Disconnect, hello, Go
  <2> QED
    BY ZenonT(60), <1>0, <1>1, <2>1, AloneMoves
<1> QED
  BY Zenon, <1>3, <1>4, <1>5, <1>6, <1>7, <1>8, <1>9, <1>10, <1>11, <1>12, <1>13, <1>14,
            <1>15 DEF SessionStep

\* Whatever fails, a session that is not overlapped is left alone.
LEMMA AlwaysAlone == Spec => []Alone
<1>1. Init => Alone
  BY ZenonT(60) DEF Init, Alone, Active, InMap, ServingIsRouted
<1>2. TypeOK /\ Identified /\ (OwnsRow /\ RoutesRow) /\ Alone /\ [Next]_vars => Alone'
  <2> SUFFICES ASSUME TypeOK, Identified, OwnsRow, RoutesRow, Alone, [Next]_vars
               PROVE  Alone'
    OBVIOUS
  <2>1. CASE \E s \in Sessions : SessionStep(s)
    BY ZenonT(60), <2>1, SessionStepAlone
  <2>2. CASE ~\E s \in Sessions : SessionStep(s)
    <3>1. UNCHANGED <<connected, row, agent, tunnel, overlapped>>
      BY <2>2, ServerStep DEF hello
    <3>2. CASE UNCHANGED <<sessions, route, phase>>
      BY Zenon, <3>1, <3>2 DEF Alone, ServingIsRouted
    <3>3. CASE sessions' = {}
               /\ phase' = [s \in Sessions |-> IF phase[s] \in {"new", "closed"}
                                               THEN phase[s] ELSE "lost"]
      BY SMTT(60), Z3T(60), <3>1, <3>3 DEF Alone, ServingIsRouted, Active, InMap
    <3> QED
      BY <2>2, <3>2, <3>3, ServerStep
  <2> QED
    BY <2>1, <2>2
<1> QED
  BY <1>1, <1>2, TypeCorrect, RowsAreOwned, PTL DEF Spec

\* An agent with a session in the SessionManager is shown online, unless its agent had
\* another session that was not cleaned up when one of the two connected: for any number
\* of agents and sessions, however they reconnect, and whatever statement fails or
\* server crashes between two of them.
THEOREM OnlineIsShown == Spec => []OnlineWhileConnected
<1>1. TypeOK /\ Alone => OnlineWhileConnected
  BY DEF TypeOK, Alone, OnlineWhileConnected, Active
<1> QED
  BY <1>1, AlwaysAlone, TypeCorrect, PTL

\* A tunnel that leads to a session in the SessionManager is shown open, unless that
\* session was overlapped in this way: nobody else closes its row.
THEOREM RoutedRowsAreOpen == Spec => []RouteRowIsOpen
<1>1. TypeOK /\ (OwnsRow /\ RoutesRow) /\ Alone => RouteRowIsOpen
  <2> SUFFICES ASSUME TypeOK, RoutesRow, Alone, NEW t \in Tunnels, route[t] \in sessions \ overlapped
               PROVE  row[t].status = "open"
    BY Zenon DEF RouteRowIsOpen
  <2>1. /\ route[t] \in Sessions /\ tunnel[route[t]] = t
        /\ phase[route[t]] \in {"serving", "removed"} /\ phase[route[t]] \in InMap
    BY SMTT(60), Z3T(60) DEF TypeOK, RoutesRow, RouteOwner, Alone
  <2>2. phase[route[t]] = "serving"
    BY <2>1 DEF InMap
  <2> QED
    BY <2>1, <2>2 DEF Alone
<1> QED
  BY <1>1, AlwaysAlone, TypeCorrect, RowsAreOwned, PTL

\* The route that a session was told of stays its own while it serves, unless it was
\* overlapped in this way: no other session takes it and no cleanup removes it.
THEOREM RoutesAreKept == Spec => []ServingIsRouted
<1>1. Alone => ServingIsRouted
  BY DEF Alone
<1> QED
  BY <1>1, AlwaysAlone, PTL

--------------------------------------------------------------------------------
(* AgentReconnect *)

\* A row that is not in the table belongs to no agent.
FreshRows == \A t \in Tunnels : row[t].status = "none" => row[t].agent = None

\* Every step keeps the rows that are not in the table free.
LEMMA StepKeepsFresh ==
    ASSUME TypeOK, FreshRows, [Next]_vars
    PROVE  FreshRows'
<1>1. CASE row' = row
  BY Zenon, <1>1 DEF FreshRows
<1>2. ASSUME NEW s \in Sessions, SessionStep(s), row' # row
      PROVE  FreshRows'
  <2>1. Reopen(s) \/ Insert(s) \/ CloseAgentTunnels(s)
    BY ZenonT(60), <1>2 DEF SessionStep, Accept, FindToken, UpsertAgent, Register, SelectClosed,
                NothingToReopen, OpenRoute, Remove, CloseSession, Disconnect, dbVars
  <2>2. CASE Reopen(s)
    <3>1. \A t \in Tunnels : row'[t].agent = row[t].agent /\ (row[t].status # "none" => row'[t].status # "none")
      BY SMTT(60), Z3T(60), <2>2 DEF Reopen, TypeOK, Row
    <3>2. \A t \in Tunnels : row'[t].status = "none" => row[t].status = "none"
      BY Zenon, <3>1
    <3> QED
      BY Zenon, <3>1, <3>2 DEF FreshRows
  <2>3. CASE Insert(s)
    <3>1. PICK t \in Tunnels : row' = [row EXCEPT ![t] =
                  [status |-> "open", agent |-> agent[s], address |-> address[s]]]
      BY ZenonT(60), <2>3 DEF Insert
    <3> QED
      BY ZenonT(60), <3>1 DEF FreshRows, TypeOK
  <2>4. CASE CloseAgentTunnels(s)
    <3>1. row' = [t \in Tunnels |-> IF t \in OpenRows(agent[s])
                                    THEN [row[t] EXCEPT !.status = "closed"] ELSE row[t]]
      BY <1>2, <2>4 DEF CloseAgentTunnels
    <3> QED
      BY ZenonT(60), <3>1 DEF FreshRows, TypeOK, Row
  <2> QED
    BY Zenon, <2>1, <2>2, <2>3, <2>4
<1> QED
  BY <1>1, <1>2, ServerStep

\* A session that finds nothing to restore although its agent had a tunnel for the
\* address overlaps another session of the agent.
LEMMA InsertsOnlyNew ==
    ASSUME TypeOK, Identified, Attended, FreshRows, NEW s \in Sessions, NothingToReopen(s),
           NEW t \in Tunnels, row[t].agent = agent[s], row[t].address = address[s]
    PROVE  \E s2 \in Sessions \ {s} : agent[s2] = agent[s] /\ phase[s2] \in Active
<1>1. phase[s] = "registered" /\ ClosedRows(s) = {} /\ agent[s] \in Agents
  BY DEF NothingToReopen, Go, Identified
<1>2. row[t] \in Row /\ row[t].status # "none"
  BY SMTT(60), Z3T(60), <1>1, NoneAssumption DEF FreshRows, TypeOK
<1>3. row[t].status = "open"
  BY ZenonT(60), <1>1, <1>2 DEF ClosedRows, Row
<1>4. PICK s2 \in Sessions : agent[s2] = agent[s] /\ phase[s2] \in Closing
  BY ZenonT(60), <1>3 DEF Attended
<1> QED
  BY Zenon, <1>1, <1>4 DEF Closing, Active, InMap

\* Only NothingToReopen takes a session from "registered" to "inserting".
LEMMA OnlyNothingToReopen ==
    ASSUME TypeOK, [Next]_vars, NEW s \in Sessions,
           phase[s] = "registered", phase'[s] = "inserting"
    PROVE  NothingToReopen(s)
<1>1. PICK s2 \in Sessions : SessionStep(s2)
  BY Zenon, ServerStep DEF TypeOK
<1>2. ASSUME NEW from, NEW to, Go(s2, from, to)
      PROVE  s2 = s /\ from = "registered" /\ to = "inserting"
  BY <1>2 DEF Go, TypeOK
<1>3. SessionStep(s2) => NothingToReopen(s2) /\ s2 = s
  <2>1. ASSUME NEW k, NEW a, NEW d, Accept(s2, k, a, d)
        PROVE  FALSE
    BY Zenon, <1>2, <2>1 DEF Accept
  <2>2. ~FindToken(s2)
    BY <1>2 DEF FindToken
  <2>3. ~UpsertAgent(s2)
    BY <1>2 DEF UpsertAgent
  <2>4. ~Register(s2) /\ ~SelectClosed(s2) /\ ~Reopen(s2) /\ ~Insert(s2) /\ ~OpenRoute(s2)
    BY SMTT(60), Z3T(60), <1>2 DEF Register, SelectClosed, Reopen, Insert, OpenRoute
  <2>5. ~Remove(s2)
    BY SMTT(60), Z3T(60), <1>2 DEF Remove
  <2>6. ~CloseSession(s2) /\ ~CloseAgentTunnels(s2) /\ ~Disconnect(s2)
    BY <1>2 DEF CloseSession, CloseAgentTunnels, Disconnect
  <2>7. NothingToReopen(s2) => s2 = s
    BY <1>2 DEF NothingToReopen
  <2> QED
    BY Zenon, <2>1, <2>2, <2>3, <2>4, <2>5, <2>6, <2>7 DEF SessionStep
<1> QED
  BY <1>1, <1>3

\* Where the server neither dies nor meets a failing statement, an agent that
\* reconnects after its sessions are cleaned up gets the subdomain it had for its
\* address, for any number of agents, sessions and addresses.
THEOREM SubdomainsAreKept ==
    ASSUME Faults = {}
    PROVE  Spec => SubdomainIsKept
<1>1. Init => FreshRows
  BY SMTT(60), Z3T(60) DEF Init, FreshRows
<1>2. TypeOK /\ FreshRows /\ [Next]_vars => FreshRows'
  BY Zenon, StepKeepsFresh
<1>3. TypeOK /\ Identified /\ Attended /\ FreshRows /\ [Next]_vars =>
         [\A s \in Sessions : phase[s] = "registered" /\ phase'[s] = "inserting" =>
             \A t \in Tunnels : row[t].agent = agent[s] /\ row[t].address = address[s] =>
                \E s2 \in Sessions \ {s} : agent[s2] = agent[s] /\ phase[s2] \in Active]_vars
  BY InsertsOnlyNew, OnlyNothingToReopen
<1> QED
  BY <1>1, <1>2, <1>3, TypeCorrect, AlwaysAttended, PTL DEF Spec, SubdomainIsKept

--------------------------------------------------------------------------------

\* A process that is running was started with a token, on a host, for an address.
Started ==
    /\ run \in [Processes -> {"new", "dialing", "hello", "connected", "waiting", "stopped"}]
    /\ args \in [Processes -> [token : Tokens \cup {None}, host : Agents \cup {None},
                               address : Addresses \cup {None}]]
    /\ \A p \in Processes : run[p] \notin {"new", "stopped"} =>
          args[p].token \in Tokens /\ args[p].host \in Agents /\ args[p].address \in Addresses

\* Every step of the composition keeps the arguments of the processes.
LEMMA StepKeepsStarted ==
    ASSUME Started, [AgentsNext]_allVars
    PROVE  Started'
<1> USE DEF Started
<1>1. CASE UNCHANGED <<run, args>>
  BY Zenon, <1>1
<1>2. ASSUME NEW p \in Processes, NEW from \in {"dialing", "hello", "connected", "waiting"},
             NEW to \in {"dialing", "hello", "connected", "waiting", "stopped"},
             Move(p, from, to), args' = args
      PROVE  Started'
  BY ZenonT(60), <1>2 DEF Move
<1>3. ASSUME NEW p \in Processes, RunHTTP(p)
      PROVE  Started'
  BY SMTT(60), Z3T(60), <1>3 DEF RunHTTP, Move
<1>4. ASSUME NEW p \in Processes, NEW s \in Sessions, Dial(p, s)
      PROVE  Started'
  BY Zenon, <1>2, <1>4 DEF Dial
<1>5. ASSUME NEW p \in Processes, ServerHello(p) \/ Wait(p)
      PROVE  Started'
  BY Zenon, <1>2, <1>5 DEF ServerHello, Wait
<1>6. ASSUME NEW p \in Processes, ConnectFails(p) \/ ConnectReturns(p)
      PROVE  Started'
  BY SMTT(60), Z3T(60), <1>2, <1>6 DEF ConnectFails, ConnectReturns, AfterConnect
<1> HIDE DEF Started
<1>7. CASE GatewayNext \/ AllStopped \/ UNCHANGED allVars
  BY <1>1, <1>7 DEF GatewayNext, AllStopped, allVars, processVars
<1>8. ASSUME NEW p \in Processes, Interrupt(p)
      PROVE  Started'
  BY <1>1, <1>8 DEF Interrupt
<1> QED
  BY Zenon, <1>3, <1>4, <1>5, <1>6, <1>7, <1>8 DEF AgentsNext, ProcessStep

\* Every step of the composition is a step of the gateway, or none.
LEMMA StepIsAllowed ==
    ASSUME Started, [AgentsNext]_allVars
    PROVE  [Next]_vars
<1>1. CASE GatewayNext
  <2>1. PICK s \in Sessions : Serve(s) \/ Remove(s) \/ Cleanup(s)
    BY <1>1 DEF GatewayNext
  <2>2. SessionStep(s)
    BY Zenon, <2>1 DEF Serve, Cleanup, OpenTunnel, InsertFresh, SessionStep
  <2> QED
    BY <2>2 DEF Next
<1>2. ASSUME NEW p \in Processes, NEW s \in Sessions, Dial(p, s)
      PROVE  Next
  <2>1. /\ args[p].token \in Tokens /\ args[p].host \in Agents /\ args[p].address \in Addresses
        /\ Accept(s, args[p].token, args[p].host, args[p].address)
    BY Zenon, <1>2 DEF Dial, Move, Started
  <2> QED
    BY Zenon, <2>1 DEF SessionStep, Next
<1>3. ASSUME NEW p \in Processes, ProcessStep(p), ~\E s \in Sessions : Dial(p, s)
      PROVE  UNCHANGED vars
  BY ZenonT(60), <1>3 DEF ProcessStep, RunHTTP, Interrupt, ServerHello, ConnectFails, ConnectReturns,
              AfterConnect, Wait
<1>4. CASE AllStopped \/ UNCHANGED allVars
  BY <1>4 DEF AllStopped, allVars
<1> QED
  BY <1>1, <1>2, <1>3, <1>4 DEF AgentsNext

\* The agents and the gateway together implement the control plane: for any number of
\* processes, hosts and sessions, whatever the processes do is what TunnelLifecycle
\* allows its environment to do.
THEOREM AgentsImplementLifecycle == AgentsSpec => Spec
<1>1. InitAgents => Init /\ Started
  BY SMTT(60), Z3T(60) DEF InitAgents, Started
<1>2. Started /\ [AgentsNext]_allVars => Started' /\ [Next]_vars
  BY StepKeepsStarted, StepIsAllowed
<1> QED
  BY <1>1, <1>2, PTL DEF AgentsSpec, Spec

\* The gateway cleans up after any number of agents that lose their connections and
\* reconnect, however late it finds the old ones closed.
THEOREM ReconnectsAreCleanedUp ==
    ASSUME Faults = {}
    PROVE  AgentsSpec => []OfflineWhenDisconnected
BY AgentsImplementLifecycle, CleanupIsComplete, PTL

\* And the routes of the Registry lead to the session and the row they were made for,
\* however many sessions of one agent overlap, and whatever statement fails.
THEOREM ReconnectsKeepRoutes == AgentsSpec => []RouteOwner
BY AgentsImplementLifecycle, RoutesAreOwned, PTL
================================================================================
