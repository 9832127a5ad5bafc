---------------------------- MODULE TunnelLifecycle ----------------------------
(***************************************************************************)
(* The control plane of the gateway: an agent connects with a token, its   *)
(* session opens a tunnel, the session ends and is cleaned up, a token is  *)
(* revoked, the server stops, crashes and starts again.                    *)
(*                                                                         *)
(* Three stores are written one after the other and are not in one         *)
(* transaction: the tables agent_tokens, agents and tunnels of PostgreSQL, *)
(* which survive a crash, and the SessionManager and the Registry, which   *)
(* do not.  One SQL statement is one step; the UPDATE of ReopenForSession  *)
(* is two, since others can run between its subquery and its change.       *)
(*                                                                         *)
(* An agent may connect while an earlier session of it is not cleaned up:  *)
(* it runs twice, or it redials before the gateway finds the old socket    *)
(* dead.                                                                   *)
(***************************************************************************)
EXTENDS Integers, FiniteSets

CONSTANTS
    Sessions,    \* session IDs
    Agents,      \* rows of agents: a user and an instance ID
    Tokens,      \* rows of agent_tokens
    Addresses,   \* local addresses agents expose
    Tunnels,     \* rows of tunnels; a row's ID and its unique subdomain are one
    Revocable,   \* tokens whose owner revokes them
    Faults,      \* which of "crash", "stop" and "db" happen
    None         \* no session, agent, token, address or tunnel

ASSUME RevocableAssumption == Revocable \subseteq Tokens
ASSUME FaultsAssumption == Faults \subseteq {"crash", "stop", "db"}
ASSUME NoneAssumption == None \notin Sessions \cup Agents \cup Tokens \cup Addresses \cup Tunnels

VARIABLES
    \* PostgreSQL
    revoked,     \* tokens with revoked_at set
    connected,   \* agents with connected = TRUE
    row,         \* tunnel -> its status, agent and address
    newer,       \* <<t, u>>: updated_at of t is later than that of u
    \* memory of the server
    server,      \* "up", "stopping" (CloseAll has run), "stopped", "crashed"
    sessions,    \* SessionManager.sessions
    cancelled,   \* sessions whose context is cancelled
    route,       \* Registry: tunnel -> session, or None
    revoking,    \* tokens revoked in the table, before DisconnectTokenHash
    \* the goroutine of each session
    phase, token, agent, address, tunnel,
    \* history, which no action reads
    overlapped   \* sessions during which their agent had another one

dbVars == <<revoked, connected, row, newer>>
hello == <<token, agent, address>>
vars == <<dbVars, server, sessions, cancelled, route, revoking, phase, hello, tunnel, overlapped>>

Row == [status : {"none", "open", "closed"}, agent : Agents \cup {None},
        address : Addresses \cup {None}]

\* In the order a session goes through them; "lost" if the server died before the
\* goroutine returned.
Phases == {"new", "accepted", "found", "upserted", "registered", "reopening", "inserting",
           "opening", "serving", "removed", "unrouted", "rowsClosed", "closed", "lost"}
InMap == {"registered", "reopening", "inserting", "opening", "serving"}
Active == InMap \cup {"upserted", "removed", "unrouted", "rowsClosed"}
Over == {"closed", "lost"}

TypeOK ==
    /\ revoked \in SUBSET Tokens /\ connected \in SUBSET Agents
    /\ row \in [Tunnels -> Row] /\ newer \in SUBSET (Tunnels \X Tunnels)
    /\ server \in {"up", "stopping", "stopped", "crashed"}
    /\ sessions \in SUBSET Sessions /\ cancelled \in SUBSET Sessions
    /\ route \in [Tunnels -> Sessions \cup {None}]
    /\ revoking \in SUBSET Tokens
    /\ phase \in [Sessions -> Phases]
    /\ token \in [Sessions -> Tokens \cup {None}]
    /\ agent \in [Sessions -> Agents \cup {None}]
    /\ address \in [Sessions -> Addresses \cup {None}]
    /\ tunnel \in [Sessions -> Tunnels \cup {None}]
    /\ overlapped \in SUBSET Sessions

Init ==
    /\ revoked = {} /\ connected = {}
    /\ row = [t \in Tunnels |-> [status |-> "none", agent |-> None, address |-> None]]
    /\ newer = {}
    /\ server = "up"
    /\ sessions = {} /\ cancelled = {}
    /\ route = [t \in Tunnels |-> None]
    /\ revoking = {}
    /\ phase = [s \in Sessions |-> "new"]
    /\ token = [s \in Sessions |-> None]
    /\ agent = [s \in Sessions |-> None]
    /\ address = [s \in Sessions |-> None]
    /\ tunnel = [s \in Sessions |-> None]
    /\ overlapped = {}

Running == server \in {"up", "stopping"}

\* A step of the goroutine of s from one phase to another.
Go(s, from, to) ==
    /\ Running
    /\ phase[s] = from
    /\ phase' = [phase EXCEPT ![s] = to]

--------------------------------------------------------------------------------
(* The handshake *)

\* ServeHTTP: valid finds the token not revoked and the client hello is read.  A
\* connection that is refused leaves no trace and is not modelled.
Accept(s, k, a, d) ==
    /\ Go(s, "new", "accepted")
    /\ k \notin revoked
    /\ token' = [token EXCEPT ![s] = k]
    /\ agent' = [agent EXCEPT ![s] = a]
    /\ address' = [address EXCEPT ![s] = d]
    /\ UNCHANGED <<dbVars, server, sessions, cancelled, route, revoking, tunnel, overlapped>>

\* agents.Connect, the SELECT on agent_tokens.
FindToken(s) ==
    /\ \/ token[s] \notin revoked /\ Go(s, "accepted", "found")
       \/ token[s] \in revoked /\ Go(s, "accepted", "closed")
    /\ UNCHANGED <<dbVars, server, sessions, cancelled, route, revoking, hello, tunnel, overlapped>>

\* The other sessions of the agent of s that are not cleaned up.
Others(s) == {s2 \in Sessions \ {s} : agent[s2] = agent[s] /\ phase[s2] \in Active}

\* The agent of s has connected.
Overlapping(s) ==
    overlapped' = IF Others(s) = {} THEN overlapped ELSE overlapped \cup {s} \cup Others(s)

\* A fault: the upsert does not set connected on the row it finds.
UpsertUnmarked(s) ==
    /\ Go(s, "found", "upserted")
    /\ Overlapping(s)
    /\ UNCHANGED <<dbVars, server, sessions, cancelled, route, revoking, hello, tunnel>>

\* agents.Connect, the upsert of the agent row; if it fails, or its result is lost,
\* the handshake returns before anything is deferred.
UpsertAgent(s) ==
    /\ \/ /\ Go(s, "found", "upserted")
          /\ connected' = connected \cup {agent[s]}
          /\ Overlapping(s)
       \/ /\ "db" \in Faults
          /\ Go(s, "found", "closed")
          /\ connected' \in {connected, connected \cup {agent[s]}}
          /\ overlapped' = overlapped
    /\ UNCHANGED <<revoked, row, newer, server, sessions, cancelled, route, revoking,
                   hello, tunnel>>

Register(s) ==
    /\ Go(s, "upserted", "registered")
    /\ sessions' = sessions \cup {s}
    /\ UNCHANGED <<dbVars, server, cancelled, route, revoking, hello, tunnel, overlapped>>

--------------------------------------------------------------------------------
(* open_tunnel *)

\* updated_at = NOW() on the rows ts.
Updated(ts) ==
    {p \in newer : p[1] \notin ts /\ p[2] \notin ts} \cup (ts \X (Tunnels \ ts))

ClosedRows(s) ==
    {t \in Tunnels : row[t] = [status |-> "closed", agent |-> agent[s], address |-> address[s]]}

\* ORDER BY updated_at DESC LIMIT 1
LatestClosed(s) ==
    {t \in ClosedRows(s) : \A u \in ClosedRows(s) : <<u, t>> \notin newer}

\* A fault: a row is inserted whether or not there is one to restore.
InsertAlways(s) ==
    /\ Go(s, "registered", "inserting")
    /\ UNCHANGED <<dbVars, server, sessions, cancelled, route, revoking, hello, tunnel, overlapped>>

\* ReopenForSession, the subquery of the UPDATE: it finds the latest closed row for
\* the session's agent and address.
SelectClosed(s) ==
    /\ Go(s, "registered", "reopening")
    /\ \E t \in LatestClosed(s) : tunnel' = [tunnel EXCEPT ![s] = t]
    /\ UNCHANGED <<dbVars, server, sessions, cancelled, route, revoking, hello, overlapped>>

\* A fault: the row is selected and not updated.
ReopenUnmarked(s) ==
    /\ Go(s, "reopening", "opening")
    /\ UNCHANGED <<dbVars, server, sessions, cancelled, route, revoking, hello, tunnel, overlapped>>

\* The UPDATE, which under READ COMMITTED waits for another one of the row and then
\* restores the row it has found, though it may be open by then.
Reopen(s) ==
    /\ Go(s, "reopening", "opening")
    /\ row' = [row EXCEPT ![tunnel[s]].status = "open"]
    /\ newer' = Updated({tunnel[s]})
    /\ UNCHANGED <<revoked, connected, server, sessions, cancelled, route, revoking, hello, tunnel,
                   overlapped>>

NothingToReopen(s) ==
    /\ Go(s, "registered", "inserting")
    /\ ClosedRows(s) = {}
    /\ UNCHANGED <<dbVars, server, sessions, cancelled, route, revoking, hello, tunnel, overlapped>>

\* ReopenForSession, the INSERT of a row with a new random subdomain.
Insert(s) ==
    /\ Go(s, "inserting", "opening")
    /\ \E t \in Tunnels :
          /\ row[t].status = "none"
          /\ row' = [row EXCEPT ![t] =
                       [status |-> "open", agent |-> agent[s], address |-> address[s]]]
          /\ newer' = Updated({t})
          /\ tunnel' = [tunnel EXCEPT ![s] = t]
    /\ UNCHANGED <<revoked, connected, server, sessions, cancelled, route, revoking, hello,
                   overlapped>>

\* registry.Open
OpenRoute(s) ==
    /\ Go(s, "opening", "serving")
    /\ route' = [route EXCEPT ![tunnel[s]] = s]
    /\ UNCHANGED <<dbVars, server, sessions, cancelled, revoking, hello, tunnel, overlapped>>

--------------------------------------------------------------------------------
(* The deferred cleanup of handshake *)

\* serveSession has returned: its socket failed, its context was cancelled, or a
\* statement of open_tunnel failed, possibly after it was committed.
Remove(s) ==
    /\ \E p \in InMap :
          /\ p \in {"reopening", "inserting", "opening"} => s \in cancelled \/ "db" \in Faults
          /\ Go(s, p, "removed")
    /\ sessions' = sessions \ {s}
    /\ cancelled' = cancelled \cup {s}
    /\ UNCHANGED <<dbVars, server, route, revoking, hello, tunnel, overlapped>>

\* A fault: the routes of the session are left in the registry.
CloseKeepsRoutes(s) ==
    /\ Go(s, "removed", "unrouted")
    /\ UNCHANGED <<dbVars, server, sessions, cancelled, route, revoking, hello, tunnel, overlapped>>

\* A fault: the routes of every session are removed.
CloseEveryRoute(s) ==
    /\ Go(s, "removed", "unrouted")
    /\ route' = [t \in Tunnels |-> None]
    /\ UNCHANGED <<dbVars, server, sessions, cancelled, revoking, hello, tunnel, overlapped>>

CloseSession(s) ==
    /\ Go(s, "removed", "unrouted")
    /\ route' = [t \in Tunnels |-> IF route[t] = s THEN None ELSE route[t]]
    /\ UNCHANGED <<dbVars, server, sessions, cancelled, revoking, hello, tunnel, overlapped>>

OpenRows(a) == {t \in Tunnels : row[t].agent = a /\ row[t].status = "open"}

\* A fault: a status that the table does not know.
CloseMisnamed(s) ==
    /\ Go(s, "unrouted", "rowsClosed")
    /\ row' = [t \in Tunnels |-> IF t \in OpenRows(agent[s])
                                 THEN [row[t] EXCEPT !.status = "offline"] ELSE row[t]]
    /\ newer' = Updated(OpenRows(agent[s]))
    /\ UNCHANGED <<revoked, connected, server, sessions, cancelled, route, revoking, hello, tunnel,
                   overlapped>>

\* Errors of the two last statements are ignored.
CloseAgentTunnels(s) ==
    /\ Go(s, "unrouted", "rowsClosed")
    /\ \/ /\ row' = [t \in Tunnels |-> IF t \in OpenRows(agent[s])
                                       THEN [row[t] EXCEPT !.status = "closed"] ELSE row[t]]
          /\ newer' = Updated(OpenRows(agent[s]))
       \/ /\ "db" \in Faults
          /\ UNCHANGED <<row, newer>>
    /\ UNCHANGED <<revoked, connected, server, sessions, cancelled, route, revoking, hello, tunnel,
                   overlapped>>

\* A fault: the statement runs under the context of the session, cancelled by then.
DisconnectCancelled(s) ==
    /\ Go(s, "rowsClosed", "closed")
    /\ connected' = IF s \in cancelled THEN connected ELSE connected \ {agent[s]}
    /\ UNCHANGED <<revoked, row, newer, server, sessions, cancelled, route, revoking, hello, tunnel,
                   overlapped>>

Disconnect(s) ==
    /\ Go(s, "rowsClosed", "closed")
    /\ \/ connected' = connected \ {agent[s]}
       \/ "db" \in Faults /\ connected' = connected
    /\ UNCHANGED <<revoked, row, newer, server, sessions, cancelled, route, revoking, hello, tunnel,
                   overlapped>>

--------------------------------------------------------------------------------
(* Revocation, and the life of the server *)

\* HTTPHandler.revoke, first Service.Revoke.  When the answer of its statement is lost
\* the handler returns; a second call finds no row and returns as well.
Revoke(k) ==
    /\ Running
    /\ k \in Revocable \ revoked
    /\ revoked' = revoked \cup {k}
    /\ \/ revoking' = revoking \cup {k}
       \/ "db" \in Faults /\ UNCHANGED revoking
    /\ UNCHANGED <<connected, row, newer, server, sessions, cancelled, route, phase, hello, tunnel,
                   overlapped>>

\* Then DisconnectTokenHash cancels the sessions it finds in the map.
DisconnectTokenHash(k) ==
    /\ Running
    /\ k \in revoking
    /\ cancelled' = cancelled \cup {s \in sessions : token[s] = k}
    /\ revoking' = revoking \ {k}
    /\ UNCHANGED <<dbVars, server, sessions, route, phase, hello, tunnel, overlapped>>

\* run, after SIGTERM.
CloseAll ==
    /\ "stop" \in Faults
    /\ server = "up"
    /\ server' = "stopping"
    /\ cancelled' = cancelled \cup sessions
    /\ UNCHANGED <<dbVars, sessions, route, revoking, phase, hello, tunnel, overlapped>>

\* The memory of the server is lost and its goroutines with it.
Die(how) ==
    /\ server' = how
    /\ sessions' = {} /\ revoking' = {}
    /\ route' = [t \in Tunnels |-> None]
    /\ phase' = [s \in Sessions |-> IF phase[s] \in {"new", "closed"} THEN phase[s] ELSE "lost"]
    /\ UNCHANGED <<dbVars, cancelled, hello, tunnel, overlapped>>

\* httpServer.Shutdown returns and so does run: Shutdown does not wait for
\* connections that were taken over by the WebSocket library.
Stop == server = "stopping" /\ Die("stopped")

Crash == "crash" \in Faults /\ Running /\ Die("crashed")

\* run again: neither it nor the migrations look at agents or tunnels.
Start ==
    /\ ~Running
    /\ server' = "up"
    /\ UNCHANGED <<dbVars, sessions, cancelled, route, revoking, phase, hello, tunnel, overlapped>>

--------------------------------------------------------------------------------

\* No connection is open; those of the model are used up or refused.
Terminated == (\A s \in Sessions : phase[s] \in Over \cup {"new"}) /\ UNCHANGED vars

SessionStep(s) ==
    \/ \E k \in Tokens, a \in Agents, d \in Addresses : Accept(s, k, a, d)
    \/ FindToken(s) \/ UpsertAgent(s) \/ Register(s)
    \/ SelectClosed(s) \/ Reopen(s) \/ NothingToReopen(s) \/ Insert(s) \/ OpenRoute(s)
    \/ Remove(s) \/ CloseSession(s) \/ CloseAgentTunnels(s) \/ Disconnect(s)

Next ==
    \/ \E s \in Sessions : SessionStep(s)
    \/ \E k \in Tokens : Revoke(k) \/ DisconnectTokenHash(k)
    \/ CloseAll \/ Stop \/ Crash \/ Start
    \/ Terminated

Spec == Init /\ [][Next]_vars

--------------------------------------------------------------------------------
(* Properties *)

\* A public subdomain leads only to the session that opened it, for the agent and
\* the address its row names, and to no session whose cleanup has passed
\* CloseSession; whatever crashes, fails or overlaps.
RouteOwner ==
    \A t \in Tunnels, s \in Sessions :
        route[t] = s =>
            /\ phase[s] \in {"serving", "removed"}
            /\ tunnel[s] = t
            /\ row[t].agent = agent[s] /\ row[t].address = address[s]

\* When the last session of an agent has been cleaned up the agent is offline and
\* its tunnels are closed, in whatever order overlapping sessions are cleaned up
\* (README.md:75, "a closed socket marks the agent offline").
OfflineWhenDisconnected ==
    \A a \in Agents :
        Running /\ (\A s \in Sessions : agent[s] = a => phase[s] \notin Active) =>
            a \notin connected /\ OpenRows(a) = {}

\* An agent with a session in the SessionManager is shown online (README.md:75
\* and 84-85), if it had no other during it: the agent of an overlapped session may
\* be marked offline by the cleanup of the other.
OnlineWhileConnected == \A s \in sessions \ overlapped : agent[s] \in connected

\* A tunnel that is routed to a session in the SessionManager is shown open: a
\* disconnect closes the tunnels of its own session (README.md:171-172).  The
\* tunnels of an overlapped session may be closed by the cleanup of the other.
RouteRowIsOpen ==
    \A t \in Tunnels : route[t] \in sessions \ overlapped => row[t].status = "open"

\* An agent that reconnects gets the subdomain it had for its address
\* (README.md:175-178): ReopenForSession finds nothing to restore only if the agent
\* never had a tunnel for the address or another session of it is not cleaned up.
SubdomainIsKept ==
    [][\A s \in Sessions : phase[s] = "registered" /\ phase'[s] = "inserting" =>
          \A t \in Tunnels : row[t].agent = agent[s] /\ row[t].address = address[s] =>
             \E s2 \in Sessions \ {s} : agent[s2] = agent[s] /\ phase[s2] \in Active]_vars

\* The route a session was told of in tunnel_opened stays its own while it serves,
\* whatever the sessions of other agents do.  That of an overlapped session may be
\* taken by the other, when its row was closed and reopened, or reopened twice.
ServingIsRouted ==
    \A s \in Sessions \ overlapped : phase[s] = "serving" => route[tunnel[s]] = s

--------------------------------------------------------------------------------
(* What documents, comments or tests say and the code does not keep: TLC finds a   *)
(* counterexample to each of these under the constants that README.md names        *)

\* README.md:212-213: revoking a token disconnects every session that was
\* authenticated by it.  Once the handler of the revocation has returned, each of
\* them is cancelled.
RevokedAreCancelled ==
    \A s \in sessions : token[s] \in revoked \ revoking => s \in cancelled

\* session_manager.go:183-184: after CloseAll each handler performs its normal
\* cleanup.  When the server has stopped gracefully, the cleanup of each session
\* that was cancelled has been carried through.
ShutdownRunsCleanup ==
    server = "stopped" => \A s \in cancelled : phase[s] # "lost"
================================================================================
