----------------------------- MODULE AgentReconnect -----------------------------
(***************************************************************************)
(* The agent command composed with the control plane of the gateway: each  *)
(* process of tunnel-agent keeps itself online with Run, which dials,      *)
(* serves one session, waits and dials again until it is interrupted.  The *)
(* sessions of TunnelLifecycle are begun by these processes; the two ends  *)
(* of a connection learn of its end at different times, so a new session   *)
(* of a process may overlap the old one.                                   *)
(***************************************************************************)
EXTENDS TunnelLifecycle

CONSTANT Processes   \* processes of tunnel-agent

VARIABLES
    run,          \* where Run is; "connected" from the server hello on
    args,         \* the token, the host and the address a process was started with
    session,      \* the session whose connection the process holds, or None
    interrupted,  \* processes whose ctx is done
    asked,        \* sessions whose open_tunnel is on its way or has arrived
    hungUp        \* sessions whose connection the agent has closed

processVars == <<run, args, session, interrupted, asked, hungUp>>
allVars == <<vars, processVars>>

InitAgents ==
    /\ Init
    /\ run = [p \in Processes |-> "new"]
    /\ args = [p \in Processes |-> [token |-> None, host |-> None, address |-> None]]
    /\ session = [p \in Processes |-> None]
    /\ interrupted = {} /\ asked = {} /\ hungUp = {}

Move(p, from, to) ==
    /\ run[p] = from
    /\ run' = [run EXCEPT ![p] = to]

--------------------------------------------------------------------------------
(* The command *)

\* runHTTP: arguments that do not parse end the command.
RunHTTP(p) ==
    /\ \/ \E k \in Tokens, a \in Agents, d \in Addresses :
             /\ Move(p, "new", "dialing")
             /\ args' = [args EXCEPT ![p] = [token |-> k, host |-> a, address |-> d]]
       \/ Move(p, "new", "stopped") /\ args' = args
    /\ UNCHANGED <<vars, session, interrupted, asked, hungUp>>

\* Ctrl+C or SIGTERM.
Interrupt(p) ==
    /\ run[p] \notin {"new", "stopped"} /\ p \notin interrupted
    /\ interrupted' = interrupted \cup {p}
    /\ UNCHANGED <<vars, run, args, session, asked, hungUp>>

--------------------------------------------------------------------------------
(* Connect *)

Unused == {s \in Sessions : phase[s] = "new"}

\* The gateway accepts the connection and reads the client hello.  The session is any
\* new one; which, makes no difference.
Dial(p, s) ==
    /\ p \notin interrupted
    /\ Move(p, "dialing", "hello")
    /\ s \in Unused /\ s = CHOOSE fresh \in Unused : TRUE
    /\ Accept(s, args[p].token, args[p].host, args[p].address)
    /\ session' = [session EXCEPT ![p] = s]
    /\ UNCHANGED <<args, interrupted, asked, hungUp>>

\* A fault: only the first session of the agent is asked to open the tunnel.
ServerHelloOnce(p) ==
    /\ Move(p, "hello", "connected")
    /\ phase[session[p]] \in InMap \cup {"removed", "unrouted", "rowsClosed"}
    /\ asked' = IF asked = {} THEN {session[p]} ELSE asked
    /\ UNCHANGED <<vars, args, session, interrupted, hungUp>>

\* The server hello, which the gateway writes after Register, and the callback
\* connected of Run; then open_tunnel is sent.
ServerHello(p) ==
    /\ Move(p, "hello", "connected")
    /\ phase[session[p]] \in InMap \cup {"removed", "unrouted", "rowsClosed"}
    /\ asked' = asked \cup {session[p]}
    /\ UNCHANGED <<vars, args, session, interrupted, hungUp>>

\* A fault: the connection is left open.
AfterConnectOpen(p, from, next) ==
    /\ Move(p, from, IF p \in interrupted THEN "stopped" ELSE next)
    /\ session' = [session EXCEPT ![p] = None]
    /\ UNCHANGED <<vars, args, interrupted, asked, hungUp>>

\* The rest of Run's loop once Connect has returned, its deferred CloseNow included.
AfterConnect(p, from, next) ==
    /\ Move(p, from, IF p \in interrupted THEN "stopped" ELSE next)
    /\ hungUp' = hungUp \cup ({session[p]} \ {None})
    /\ session' = [session EXCEPT ![p] = None]
    /\ UNCHANGED <<vars, args, interrupted, asked>>

\* Connect returns an error: it was refused or the network, the gateway or the
\* context has ended it.
ConnectFails(p) ==
    \E from \in {"dialing", "hello", "connected"} : AfterConnect(p, from, "waiting")

\* Connect returns nil: the writer has failed while the reader hands over a job.
ConnectReturns(p) == AfterConnect(p, "connected", "dialing")

\* waitFor; how long the delay is, from 1 to 30 seconds, is not told apart.
Wait(p) ==
    /\ \/ Move(p, "waiting", "dialing")
       \/ p \in interrupted /\ Move(p, "waiting", "stopped")
    /\ UNCHANGED <<vars, args, session, interrupted, asked, hungUp>>

--------------------------------------------------------------------------------
(* The gateway, which gets open_tunnel only from an agent that has sent it; the   *)
(* token is not revoked and the server does not stop                              *)

OpenTunnel(s) == s \in asked /\ (SelectClosed(s) \/ NothingToReopen(s))

\* The new row is any one; which, makes no difference.
InsertFresh(s) ==
    /\ Insert(s)
    /\ tunnel'[s] = CHOOSE t \in Tunnels : row[t].status = "none"

Serve(s) ==
    \/ FindToken(s) \/ UpsertAgent(s) \/ Register(s)
    \/ OpenTunnel(s) \/ Reopen(s) \/ InsertFresh(s) \/ OpenRoute(s)

Cleanup(s) == CloseSession(s) \/ CloseAgentTunnels(s) \/ Disconnect(s)

GatewayNext ==
    /\ \E s \in Sessions : Serve(s) \/ Remove(s) \/ Cleanup(s)
    /\ UNCHANGED processVars

ProcessStep(p) ==
    \/ RunHTTP(p) \/ Interrupt(p)
    \/ \E s \in Sessions : Dial(p, s)
    \/ ServerHello(p) \/ ConnectFails(p) \/ ConnectReturns(p) \/ Wait(p)

\* Every process has returned and every session is cleaned up.
AllStopped ==
    /\ \A p \in Processes : run[p] = "stopped"
    /\ \A s \in Sessions : phase[s] \in Over \cup {"new"}
    /\ UNCHANGED allVars

AgentsNext == GatewayNext \/ (\E p \in Processes : ProcessStep(p)) \/ AllStopped

AgentsSpec == InitAgents /\ [][AgentsNext]_allVars

\* The goroutine of a session runs, and finds its connection closed once the agent
\* has closed it.
Goroutine(s) == Serve(s) \/ Cleanup(s) \/ (s \in hungUp /\ Remove(s))

\* So does Run: it gets the server hello, its timer fires, it returns when it is
\* interrupted, and it finds its connection closed once the gateway has closed it.
RunProceeds(p) ==
    \/ ServerHello(p) \/ Wait(p)
    \/ /\ p \in interrupted \/ (session[p] # None /\ phase[session[p]] \in Over)
       /\ ConnectFails(p)

\* A dial that could succeed again and again does not always fail.  Nothing is
\* assumed of the moments at which a connection breaks.
AgentsFairness ==
    /\ \A s \in Sessions : WF_allVars(Goroutine(s) /\ UNCHANGED processVars)
    /\ \A p \in Processes : WF_allVars(RunProceeds(p)) /\ SF_allVars(\E s \in Sessions : Dial(p, s))

FairAgents == AgentsSpec /\ AgentsFairness

--------------------------------------------------------------------------------
(* Properties *)

\* README.md:181-182: an agent that is stopped closes its session and does not
\* reconnect; README.md:75: the agent is then offline and its tunnels closed.
StopTakesOffline ==
    (\A p \in Processes : p \in interrupted)
        ~> (\A a \in Agents : a \notin connected /\ OpenRows(a) = {})

\* README.md:65 and 175-178: an agent that lost its session reconnects and has its
\* tunnel open again.
ReconnectReopens ==
    \A p \in Processes :
        run[p] = "waiting" ~>
            \/ session[p] # None /\ phase[session[p]] = "serving"
            \/ p \in interrupted
            \/ session[p] = None /\ Unused = {}

--------------------------------------------------------------------------------
(* What documents, comments or tests say and the code does not keep: TLC finds a   *)
(* counterexample to each of these under the constants of the run                  *)

\* client.go:69-70: each failed or closed session is retried with a backoff.
EveryRetryWaits ==
    [][\A p \in Processes : run[p] = "connected" => run'[p] # "dialing"]_allVars

\* README.md:175-178: a process that reconnects gets its public subdomain again.
ReconnectKeepsSubdomain ==
    \A s1, s2 \in Sessions :
        phase[s1] = "serving" /\ phase[s2] = "serving"
            /\ agent[s1] = agent[s2] /\ address[s1] = address[s2] => tunnel[s1] = tunnel[s2]
================================================================================
