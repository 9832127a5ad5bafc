----------------------------- MODULE RequestHeaders -----------------------------
(***************************************************************************)
(* The header fields of a public request on their way to the local         *)
(* service, and those of its answer on the way back.  The gateway and the  *)
(* agent both drop the hop-by-hop fields; the gateway replaces the fields  *)
(* that tell where the request comes from.                                 *)
(***************************************************************************)
CONSTANTS
    XForwarded,  \* the names that begin with x-forwarded-, in any case
    Values       \* values of fields

(***************************************************************************)
(* A header is the function fields from the names that are present to      *)
(* their values, and the set of names that its Connection fields list.     *)
(* Names are canonical, as the net/http server and Header.Del make them.   *)
(***************************************************************************)
Headers == {h \in [fields : UNION {[S -> Values] : S \in SUBSET STRING}, named : SUBSET STRING] :
               "Connection" \in DOMAIN h.fields \/ h.named = {}}

HopByHop == {"Connection", "Proxy-Connection", "Keep-Alive", "Proxy-Authenticate",
             "Proxy-Authorization", "Te", "Trailer", "Transfer-Encoding", "Upgrade"}

ASSUME ForwardedAssumption ==
    /\ {"X-Forwarded-For", "X-Forwarded-Host", "X-Forwarded-Proto"} \subseteq XForwarded
    /\ (HopByHop \cup {"Forwarded", "X-Tunnel-Request-Id"}) \cap XForwarded = {}

Without(f, S) == [n \in DOMAIN f \ S |-> f[n]]

\* The names listed are deleted before Connection is; nothing is listed afterwards.
withoutHopByHopHeaders(h) ==
    [fields |-> Without(h.fields, h.named \cup HopByHop), named |-> {}]

\* What the gateway knows of a request: clientIP is never empty, tls is whether the
\* connection to the gateway itself was encrypted.
Supplied(clientIP, host, tls, requestID) ==
    [n \in {"X-Forwarded-For", "X-Forwarded-Host", "X-Forwarded-Proto", "X-Tunnel-Request-Id"} |->
        CASE n = "X-Forwarded-For"     -> clientIP
          [] n = "X-Forwarded-Host"    -> host
          [] n = "X-Forwarded-Proto"   -> IF tls THEN "https" ELSE "http"
          [] n = "X-Tunnel-Request-Id" -> requestID]

\* The fields are filtered first and set afterwards.
publicRequestHeaders(h, supplied) ==
    LET kept == Without(withoutHopByHopHeaders(h).fields, XForwarded \cup {"Forwarded"})
    IN  [fields |-> [n \in DOMAIN kept \cup DOMAIN supplied |->
                        IF n \in DOMAIN supplied THEN supplied[n] ELSE kept[n]],
         named  |-> {}]

\* StreamLocal filters what the gateway sent.
AtLocalService(h, supplied) == withoutHopByHopHeaders(publicRequestHeaders(h, supplied))

\* StreamLocal filters the answer of the local service, ServeHTTP once more.
AtPublicClient(h) == withoutHopByHopHeaders(withoutHopByHopHeaders(h))
================================================================================
