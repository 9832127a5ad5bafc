------------------------------- MODULE HTTPServer -------------------------------
(***************************************************************************)
(* What the server does with a request before a handler sees it: the       *)
(* middleware (requestID, securityHeaders, cors), the mux, and for the     *)
(* public handler the tunnel that the Host header names.  Control plane    *)
(* and tunnels share one listener; a path is stood for by one that the     *)
(* patterns treat like it.                                                 *)
(***************************************************************************)
EXTENDS RequestHeaders, Integers, Sequences

CONSTANTS
    Tunnels,         \* tunnels; each is also the one label of its subdomain
    Other,           \* a label that is no subdomain of a tunnel
    Origins,         \* values of the field Origin
    AllowedOrigins   \* CORS_ALLOWED_ORIGINS

ASSUME LabelAssumption == Other \notin Tunnels /\ "" \notin Tunnels
ASSUME OriginAssumption == AllowedOrigins \subseteq Origins /\ "" \notin Origins

ControlPlane == {"/api/v1/auth/login", "/api/v1/agent-tokens", "/api/v1/agent-tokens/id",
                 "/api/v1/agent/connect", "/api/v1/agents", "/api/v1/tunnels", "/api/v1/traffic"}
API == ControlPlane \cup {"/api/tasks", "/api/v1/auth"}
Health == {"/health/live", "/health/ready"}
Paths == API \cup Health \cup {"/metrics", "/", "//"}

\* A Host header: the labels before the last ones, whether the last ones are the base
\* domain, whether some letters are capitals, the dots after the name, and whether
\* there is a port.
Hosts == [labels : {<<>>, <<Other>>} \cup {<<t>> : t \in Tunnels} \cup {<<t, t>> : t \in Tunnels},
          base   : BOOLEAN,
          upper  : BOOLEAN,
          dots   : 0..1,
          port   : BOOLEAN]

Requests == [host : Hosts, path : Paths, method : {"GET", "POST", "OPTIONS"},
             origin : Origins \cup {""}, tls : BOOLEAN]

--------------------------------------------------------------------------------

\* The patterns of the mux.  Those with a method leave other methods to "/", and none
\* has a host.  The mux redirects a path that is not clean, and a tree without its slash.
Handler(r) ==
    CASE r.path \in {"//", "/api/v1/auth"} -> "redirect"
      [] r.path = "/metrics" /\ r.method = "GET" -> "metrics"
      [] r.path \in Health /\ r.method = "GET" -> "health"
      [] r.path \in ControlPlane -> "control plane"
      [] OTHER -> "public"

\* cors answers itself, or calls the next handler.
cors(r) ==
    CASE r.path \notin API \/ r.origin = "" -> "next"
      [] r.path \in API /\ r.origin \in Origins \ AllowedOrigins -> "forbidden"
      [] r.path \in API /\ r.origin \in AllowedOrigins ->
            IF r.method = "OPTIONS" THEN "preflight" ELSE "next"

securityHeaders(r) ==
    IF r.path \in API \cup Health
    THEN {"X-Content-Type-Options", "X-Frame-Options", "Referrer-Policy", "Permissions-Policy",
          "Content-Security-Policy", "Cache-Control"}
         \cup (IF r.tls THEN {"Strict-Transport-Security"} ELSE {})
    ELSE {}

corsHeaders(r) ==
    IF r.path \in API /\ r.origin \in AllowedOrigins
    THEN {"Access-Control-Allow-Origin", "Access-Control-Allow-Credentials", "Vary"}
    ELSE {}

\* The fields that the writer holds when a handler is called, with lists of values.
Middleware(r, requestID) ==
    [n \in {"X-Request-Id"} \cup securityHeaders(r) \cup corsHeaders(r) |->
        IF n = "X-Request-Id" THEN <<requestID>> ELSE <<"fixed">>]

\* The public handler adds those of the answer h of the local service to them.
PublicResponse(r, requestID, h) ==
    LET own   == Middleware(r, requestID)
        local == AtPublicClient(h).fields
    IN  [n \in DOMAIN own \cup DOMAIN local |->
            CASE n \notin DOMAIN local -> own[n]
              [] n \notin DOMAIN own -> local[n]
              [] OTHER -> own[n] \o local[n]]

--------------------------------------------------------------------------------

\* A dot is trimmed at the end only, which is the end of the port if there is one.
normalizeHost(h) ==
    [h EXCEPT !.upper = FALSE, !.port = FALSE, !.dots = IF h.port THEN @ ELSE 0]

\* The subdomain, or "".
ParsePublicHost(h) ==
    LET host == normalizeHost(h)
    IN  IF host.base /\ host.dots = 0 /\ Len(host.labels) = 1 THEN host.labels[1] ELSE ""

\* The requests that come to the public handler, and the subdomains it looks up.
PublicRequests == {r \in Requests : cors(r) = "next" /\ Handler(r) = "public"}
Subdomains == {ParsePublicHost(r.host) : r \in PublicRequests}

--------------------------------------------------------------------------------
(* What documents, comments or tests say and the code does not keep: TLC finds a   *)
(* counterexample to each of these under the constants that README.md names        *)

\* README.md:208-210: the headers of the control plane are deliberately not added to
\* public tunnel responses.
TunnelResponsesUntouched == \A r \in PublicRequests : securityHeaders(r) = {}

\* docs/deployment.md:23-24: every host of a tunnel is proxied unchanged to the
\* backend, which selects the tunnel by its Host header.
SelectedByHost ==
    \A r \in Requests : ParsePublicHost(r.host) \in Tunnels => r \in PublicRequests
================================================================================
