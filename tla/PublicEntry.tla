------------------------------- MODULE PublicEntry -------------------------------
(***************************************************************************)
(* How a public request comes to the limiter: ServeHTTP of the public      *)
(* handler up to the call of allow.  The Host header names a tunnel, in    *)
(* one of many spellings; the registry says whether the tunnel is open;    *)
(* the address of the peer names the client.  Tunnels open and close       *)
(* meanwhile.  PublicProxy takes over after allow.                         *)
(***************************************************************************)
EXTENDS RateLimiter, HTTPServer

CONSTANTS
    Clients,   \* IPs of clients
    Proxy      \* the IP of the reverse proxy of deploy/caddy, or None without one

ASSUME KeysAssumption == Keys = Tunnels \X (Clients \cup {Proxy})

VARIABLES
    routed,    \* the tunnels in the registry
    origin     \* call -> the tunnel its Host names and the client it comes from

entryVars == <<vars, routed, origin>>

EntryTypeOK ==
    /\ TypeOK
    /\ routed \subseteq Tunnels
    /\ origin \in [Calls -> (Tunnels \X Clients) \cup {None}]

InitEntry ==
    /\ Init
    /\ routed = {}
    /\ origin = [c \in Calls |-> None]

--------------------------------------------------------------------------------
(* The arguments of allow *)

\* RemoteAddr is the address of the peer, and the peer of the gateway is the proxy if
\* there is one.  Its port is dropped.
requestClientIP(x) == IF Proxy = None THEN x ELSE Proxy

\* A fault: the tunnels of a client share a limit.
ClientKey(t, ip) == <<CHOOSE u \in Tunnels : TRUE, ip>>

\* tunnel.ID + ":" + requestClientIP(r).  A tunnel that is opened again keeps its ID.
LimiterKey(t, ip) == <<t, ip>>

--------------------------------------------------------------------------------

\* ServeHTTP after ParsePublicHost, for a request of client x.
ServeHTTP(c, subdomain, x) ==
    /\ subdomain \in routed
    /\ Arrive(c, LimiterKey(subdomain, requestClientIP(x)))
    /\ origin' = [origin EXCEPT ![c] = <<subdomain, x>>]
    /\ UNCHANGED routed

\* ServeHTTP for any other host: the request is answered and leaves no trace.
NotFound(subdomain) ==
    /\ subdomain \notin routed
    /\ UNCHANGED entryVars

\* Open of the registry, for the session of an agent.
Open(t) ==
    /\ routed' = routed \cup {t}
    /\ UNCHANGED <<vars, origin>>

\* CloseSession of the registry; the limiter keeps its entries.
CloseSession(t) ==
    /\ t \in routed
    /\ routed' = routed \ {t}
    /\ UNCHANGED <<vars, origin>>

EntryNext ==
    \/ \E s \in Subdomains :
            NotFound(s) \/ \E c \in Calls, x \in Clients : ServeHTTP(c, s, x)
    \/ \E t \in Tunnels : Open(t) \/ CloseSession(t)
    \/ Tick /\ UNCHANGED <<routed, origin>>
    \/ (\E c \in Calls : Allow(c)) /\ UNCHANGED <<routed, origin>>

EntrySpec == InitEntry /\ [][EntryNext]_entryVars

--------------------------------------------------------------------------------
(* Properties *)

\* README.md:188-190, of tunnels and clients rather than of keys.  However a client
\* spells the host, and however often the agent of the tunnel reconnects, any stretch
\* of time sees at most twice the limit of requests of one client to one tunnel, if it
\* is shorter than a window by two waits for the mutex: the call that ends a window may
\* have waited less than the one that began it, and the one that begins the next more.
ClientAtMostTwice ==
    \A t \in Tunnels, x \in Clients, s \in 0..MaxTime :
        Cardinality({c \in Calls : /\ result[c] = "allowed" /\ origin[c] = <<t, x>>
                                   /\ now[c] \in s..(s + Window - 2 * MaxDelay)}) <= 2 * Limit

\* README.md:190: "leaving other tunnels and clients unaffected".  A request is refused
\* only if Limit requests of the same client to the same tunnel were allowed that came
\* less than a window before it, give or take the wait for the mutex.
OthersUnaffected ==
    \A c \in Calls : result[c] = "refused" =>
        Cardinality({d \in Calls : /\ result[d] = "allowed" /\ origin[d] = origin[c]
                                   /\ now[d] > now[c] - Window - MaxDelay}) >= Limit
================================================================================
