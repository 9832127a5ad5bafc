# A verification of myNgrok in TLA+

myNgrok publishes a web service that runs on somebody's machine. An **agent**
beside that service keeps a WebSocket to the **gateway**; the gateway takes public
HTTP requests for a subdomain, sends them through the WebSocket and returns what
the agent answers. Users, tokens, agents, tunnels and traffic totals are in
PostgreSQL; a dashboard shows them.

This directory models the parts in which several goroutines, processes or stores
have to agree. TLC checks the models on small instances; TLAPS proves the
properties that matter most for every size. `PROJECT.json` lists runs, theorems,
the source lines behind each definition, and the hazards the properties are about.

## 1. The system

| part | state | operations | talks to |
|---|---|---|---|
| session manager (`gateway/session_manager.go`) | `sessions`, `pending`, one outbound channel per session, one response channel per request, counters; one mutex | Register, Remove, RegisterRequest, CancelRequest, DeliverResponse, Send, SendContext, CloseAll, DisconnectTokenHash | everything in the gateway |
| agent connection (`gateway/agent_connect.go`) | one goroutine a session; the responses being assembled | handshake, open_tunnel, writing the queue, reading responses, heartbeat, deferred cleanup | session manager, registry, tables, agent |
| public handler (`tunnels/public_handler.go`) | one goroutine a request | route, register, send start, chunks and end, wait, cancel | registry, session manager, rate limiter |
| registry (`tunnels/registry.go`) | routes by subdomain and ID, traffic counters; one mutex | Open, Get, CloseSession, RecordTraffic, DrainUserDeltas | handlers, traffic flush |
| persistence (`tunnels/service.go`, `agents/service.go`, `agenttokens/`) | rows of `tunnels`, `agents`, `agent_tokens` | ReopenForSession, CloseAgentTunnels, Connect, Disconnect, Revoke | agent connection, dashboard |
| agent (`cmd/tunnel-agent`, `gatewayclient/`) | request streams, job queue, workers, outbound queue; where its loop of reconnections is | runHTTP, Run, Connect (reader, workers, writer), StreamLocal | gateway, local service |
| traffic (`registry.go`, `traffic/service.go`, `main.go`) | deltas per user in memory, totals in the table | periodic and final flush | registry, table |
| server (`cmd/server/main.go`) | up, stopping | run, shutdown | all |
| migrations (`database/`, `migrations/`) | `schema_migrations`, an advisory lock | Migrate | PostgreSQL |
| authentication (`auth/`) | rows of `refresh_tokens`, cookies | Register, Login, Refresh, Logout | dashboard |
| rate limiters (`auth/`, `tunnels/`) | windows by key; one mutex | allow | auth and public handlers |
| HTTP server (`server/`) | the mux | middleware, routing by path | all handlers |
| dashboard (`frontend/src`) | auth store; lists | login, restore, logout; views | API |
| pure code | | binary frames, public host, headers, subdomains | both ends |

What is hard in it:

* responses, disconnects, timeouts and leaving clients meet in `pending`, and the
  sends on response channels come after the unlock;
* `sendContext` looks a session up under the lock and waits on its queue without it;
* all queues are bounded and all senders but `sendCancel` and the `tunnel_opened`
  answer wait, so the goroutines of both ends can wait for each other;
* a session is in three stores that no transaction ties together, and an agent may
  reconnect before the gateway knows that its old socket is dead;
* the tables survive a crash, memory does not; a graceful stop has an order;
* refresh tokens are exchanged in three statements, by calls that may overlap, of pages
  that share their cookies and nothing else;
* control plane and tunnels share one listener, which routes by path before anybody
  looks at the Host header;
* the dashboard acts on answers that arrive after the state they are about has
  changed.

## 2. Modules

| module | models | shown by |
|---|---|---|
| `PublicProxy` | data plane of the gateway, and the agent's stream table | runs `proxy*`; proofs `PublicProxyDelivery`, `PublicProxyRefinement` |
| `RequestContract` | what public clients are promised | `proxy`, `PublicProxyRefinement` |
| `TunnelLifecycle` | control plane: handshake, tunnels, cleanup, revocation, stop, crash, restart | runs `lifecycle*`, `TunnelLifecycleProofs` |
| `AgentReconnect` | the agent command and its `Run`, composed with `TunnelLifecycle` | run `lifecycle_overlap`, `TunnelLifecycleProofs` |
| `TunnelFlow` | one session from both ends: queues, workers, assembly of responses | runs `flow*`, `TunnelFlowProofs` |
| `Migrations` | `Migrate` by several processes | run `migrations`, `MigrationsProofs` |
| `Traffic` | traffic counters, flush, stop, crash | run `traffic`, `TrafficProofs` |
| `AuthSession` | auth stores of the pages of a browser, router, views as callers, cookies, auth handlers, `users`, `refresh_tokens` | runs `auth*`, `AuthSessionProofs` |
| `RateLimiter` | `allow` | through `PublicEntry` |
| `RequestHeaders` | header filters of both ends | `PublicEntryProofs` |
| `HTTPServer` | middleware, mux, public host parser | through `PublicEntry`, `PublicEntryProofs` |
| `PublicEntry` | a public request from its Host header to `allow`, composed of `RateLimiter` and `HTTPServer` | run `rate_limiter`, `PublicEntryProofs` |
| `BinaryFrames` | the codec of body chunks, on bytes | `PublicEntryProofs` |

The `MC` modules only add a symmetry set, and `MCPublicEntry` the keys of the limiter.
Definitions under "A fault:" are mutations of the definition that follows them, not part
of any specification: each is a plausible mistake in the code that the named property of
`PROJECT.json` detects.

### PublicProxy

A step is what one goroutine does under one lock or one channel operation. `pc[r]` is
where `ServeHTTP` is with request `r`: `routed` (after `Registry.Get`), `lookup` and
`select` (the two halves of `sendContext`, for the frame in `frame[r]`), `read` (in
`sendRequestBody`), `waiting` (in the final select), `returning` (before the deferred
`CancelRequest`). `phase[s]` is where `handshake` and its deferred functions are.
`unsent[s]` holds what `DeliverResponse` or `Remove` has taken out of `pending` and not
yet sent. `wire[s]` is what the gateway has written to the WebSocket and the agent not
yet read, which the agent may still do when the gateway has removed the session;
`stream` and `next` are its `pendingRequests`, at the message it has read last
(`AgentReads`). The agent answers whole requests at any time, in any order or never, and
a session may end at any time. Bodies are chunks without content; the error kinds before
registration are one status `refused`. Sessions and requests are used once each, as
their random IDs are.

`RequestContract` knows only replies and runs: one reply per request; `200` only
for a request that was run; a request that was refused, or answered `502` because it
could not be queued in whole (`unavailable`), is never run, neither before nor after its
reply. After a timeout, and after the `502` of a request whose session was removed while
its handler waited, the agent may still start: the end of the request may be in the
socket by then. `ImplementsContract` maps `reply` to `status` and `executed` to the
requests that the agent has received in whole.

### TunnelLifecycle

One SQL statement is one step. `newer` is the order of `updated_at`, by which
`ReopenForSession` chooses. `cancelled` is the set of sessions whose context is
done. `Faults` selects crashes, graceful stops and database errors; a failing
statement may have been committed. `ReopenForSession` is two steps, since under READ
COMMITTED its UPDATE may find the row it has selected changed by another session
(`SelectClosed`, `Reopen`). An agent may connect while a session of it is not cleaned up;
`overlapped`, which no action reads, remembers the sessions that had another one of
their agent beside them. Going from one `phase` to the next is the code's
order: Remove, CloseSession, CloseAgentTunnels, Disconnect.

A revocation may be stored and its answer lost: then the handler returns and nobody
is disconnected.

### AgentReconnect

`run[p]` is where a process of `tunnel-agent` is: `dialing`, `hello` (client hello
sent), `connected`, `waiting` (in `waitFor`), `stopped`. Its sessions are those of
`TunnelLifecycle`: `Dial` is `Accept`, and the gateway gets `open_tunnel` only from a
process that has sent it (`asked`). The two ends learn of the end of a connection at
different times. `AfterConnect` closes the agent's end (`hungUp`); the gateway may
notice much later, and until then the next session of the process overlaps the old one.
`ConnectReturns` is the one path on which `Connect` returns nil. Which of the unused
sessions and rows is taken makes no difference, so one is chosen (`CHOOSE`);
`SubdomainsAreKept`, a theorem about `TunnelLifecycle` itself, does without this. Tokens
are not revoked and the server does not stop here: that is `lifecycle_faults`.

### TunnelFlow

`out` is the session's queue, `writing` the message that `conn.Write` has not
returned from, `down` the socket buffers; `up` stands for the agent's queue, its
writer, the socket and the gateway's `readCh`, which only pass messages on.
`serveSession` either writes or selects. The agent's `reader` holds what it waits to
hand to `jobs` or to its outbound queue. Workers send start, chunks and end of their
responses interleaved. Request bodies are in `PublicProxy`; here a request is its
start and its end.

### Traffic, Migrations, AuthSession

`Traffic`: the deltas of each user go from `perUser` through `drained` to `totals`,
one statement per user; `recorded` remembers what happened. `Migrations`: one
transaction per migration, under an advisory lock that PostgreSQL releases with the
connection. `AuthSession`: the pages of one browser, each with a store of its own, and
the cookies they share; calls with the cookies they were sent with, and the statements of
`Register`, `Refresh`, `Login` and `Logout`. An answer is two steps: its headers set or
clear the cookies (`setRefreshCookie`, `clearRefreshCookie`), then the page that called
changes its store. `parent` remembers what a token was exchanged for. The access token of
a store is valid or expired; a view is a call that presents it.

### RequestHeaders, HTTPServer, RateLimiter, PublicEntry, BinaryFrames

A header is a function from canonical names to values, with the set of names that
`Connection` lists. `AtLocalService` is the header of the request object that the agent
hands to `http.DefaultClient`, which on its own adds fields that are missing
(`User-Agent`, `Accept-Encoding`); `AtPublicClient` begins with the header of the
response that this client returns, after redirects and decompression. `HTTPServer` takes
a path as one of fourteen that its patterns tell apart, and a host by its labels, its
suffix, its spelling and its port. In `RateLimiter` callers read the clock and then wait
for the mutex, at most `MaxDelay` ticks. `PublicEntry` puts them together: the
subdomains that some request can ask for are `Subdomains`, tunnels open and close, and
the key of the limiter is made of the tunnel and of the peer's address, which is the
proxy's if there is one (`Proxy`). `BinaryFrames` has the layout of the frame as
sequences of bytes; the two copies in the source make the same checks.

## 3. What the runs show

Properties that hold:

| run | properties |
|---|---|
| `proxy` | a waiting handler is never forgotten (`NoOrphanedWaiter`); a send on a response channel never blocks (`SendersNeverBlock`); `pending` holds no entry of a handler that returned (`PendingHasHandler`); no route outlives its session (`RoutesHaveOwners`); counters balance (`SessionsCounted`); the contract is kept (`ImplementsContract`) |
| `proxy_release` | interleaved frames are always what the agent expects (`NoRejectedStream`); a handler waiting for a session that is removed returns without its timeout (`DisconnectReleasesWaiters`) |
| `lifecycle_faults` | whatever statement fails, and through stops, crashes and restarts, routes lead to the right session and row (`RouteOwner`); and, unless another session of the agent overlapped it, a connected session is shown online (`OnlineWhileConnected`), its routed tunnel open (`RouteRowIsOpen`), and it keeps its route while it serves (`ServingIsRouted`) |
| `lifecycle_overlap` | an agent that reconnects, with sessions that overlap: without sessions it ends up offline with its tunnels closed (`OfflineWhenDisconnected`); a reconnect finds its subdomain unless another session of the agent is not cleaned up (`SubdomainIsKept`); a lost session is replaced by one that serves (`ReconnectReopens`); an interrupted agent goes offline and stays so (`StopTakesOffline`) |
| `flow_safety` | no request is lost between queues (`NotLost`), answers are their own (`OwnAnswer`), no false protocol violation (`NoProtocolError`), and both ends stand still only in one circle of full queues (`OnlyWedged`) |
| `flow_answers` | every waiting request is answered or given up, if the sockets can hold what is under way (`EveryRequestAnswered`) |
| `migrations` | exactly once, in order, no race, and the lock is always released |
| `traffic` | nothing is counted twice (`NoDoubleCount`); recorded traffic reaches the table or an error is logged (`RecordedIsPersisted`); only the end of a process loses a recorded request (`LostOnlyAtExit`); a graceful stop does not lose what was drained (`StopPersists`) |
| `auth_session` | never are both a token and its successor usable (`ExchangedIsRevoked`); the cookie that the pages share was neither exchanged nor revoked, through overlapping calls and database errors, unless a refresh or logout sent with it is underway or was lost (`CookieIsUsable`) |
| `rate_limiter` | a client gets at most twice the limit of requests to a tunnel in a window's length less two waits for the mutex, however it spells the host and however often the tunnel is opened again (`ClientAtMostTwice`), and is refused only for its own requests to that tunnel (`OthersUnaffected`) |

Two runs show a behaviour that a document or a test denies; `findings` quotes the
lines:

| run | what happens |
|---|---|
| `proxy_blocked_send` | a handler waiting for room in a queue is not released when the session ends |
| `auth_logout` | with secure cookies, logout revokes nothing |

### What documents say and the code does not keep

The last section of each module holds statements of documents, comments or tests
that TLC refutes. A cfg with the property and these constants shows the
counterexample (those not named are as in the run of the module, without faults).

| property | module, constants | what happens |
|---|---|---|
| `CancelNotLost` | `PublicProxy`: 2 requests, 1 session, `QueueCapacity` 1, no chunks | a cancel is dropped when the queue is full |
| `CompletedAreCounted` | `PublicProxy`: 1 request, 1 session, `QueueCapacity` 1, no chunks | a response that is returned after its tunnel closed is not counted |
| `NoRejectedStream` | `PublicProxy`: 2 requests, 1 session, `MaxStreams` 1, no chunks | more concurrent uploads than the agent's limit end the whole session |
| `OnlineWhileConnected`, `RouteRowIsOpen`, without `\ overlapped` | `TunnelLifecycle`: 2 sessions, 1 agent | the late cleanup of an old session marks a connected agent offline and its tunnel closed |
| `ServingIsRouted`, without `\ overlapped` | `TunnelLifecycle`: 3 sessions, 1 agent, 2 rows | that cleanup closes the row of the new session, and a third one, finding it closed, reopens it and takes the route from the second, which still serves |
| `OfflineWhenDisconnected` | `TunnelLifecycle`: 2 sessions, 1 agent, `Faults = {"crash"}` | after a crash agents stay online and tunnels open until they reconnect |
| `ShutdownRunsCleanup` | `TunnelLifecycle`: 2 sessions, 1 agent, `Faults = {"stop"}` | a stop does not wait for the cleanup of the sessions |
| `RevokedAreCancelled` | `TunnelLifecycle`: 2 sessions, 1 agent; also with `Faults = {"db"}` | a session in its handshake survives the revocation of its token; so does any session when the answer of the UPDATE is lost, and a second revocation finds nothing to do |
| `EveryRetryWaits` | `AgentReconnect!AgentsSpec`, as in the run | when the agent's writer fails, `Connect` returns nil and `Run` dials again at once |
| `ReconnectKeepsSubdomain` | `AgentReconnect!AgentsSpec`, as in the run | a reconnect before the old session is cleaned up gets a new subdomain |
| `WholeResponse` | `TunnelFlow`: 1 request, capacities 1, `MaxChunks` 1 | a local response that breaks off is delivered as a success |
| `QueueDrains` | `TunnelFlow!FairSpec`: 3 requests, capacities 1, `MaxConcurrent` 1, `MaxStreams` 3, `MaxResponses` 1, no chunks or pings | with both directions full, gateway and agent wait for each other |
| `NoProtocolError` | `TunnelFlow`: 2 requests, `MaxConcurrent` 2, `MaxResponses` 1 | an agent with more workers than the gateway's 32 streams is disconnected |
| `BytesAreForwarded` | `Traffic`: 1 user, 2 requests | uploads without an announced length count no bytes |
| `UsedOnce` | `AuthSession`: 1 page, 3 calls, 3 tokens | overlapping refreshes both succeed |
| `SessionIsNotDropped` | `AuthSession`: 1 or 2 pages, 3 calls, 2 tokens | the denial of one refresh clears the cookie that another call has just set; the page of that call, or another one, stays logged in without a cookie and is logged out by its next reload |
| `LogoutClearsStore` | `AuthSession`: 1 page, 2 calls, 1 token, `Faults = {"lost"}` | a logout whose call fails leaves the store logged in |
| `ExpiredIsRefreshed` | `AuthSession`: 1 page, 2 calls, 1 token | an expired access token stays in the store, and views fail until the page is loaded again |
| `AtMostLimit` | `PublicEntry`: as in the run | a fixed window lets up to twice the limit pass across its border |
| `OthersUnaffected` | `PublicEntry`: `Proxy = proxy`, two clients, else as in the run | behind the reverse proxy of `docs/deployment.md` all clients have one address and share the limit of a tunnel; so they do at the authentication endpoints |
| `TunnelResponsesUntouched` | `HTTPServer`, constants of `PublicEntry.cfg` | a response of a tunnel to a path below `/api/` gets the headers of the control plane |
| `SelectedByHost` | `HTTPServer`, constants of `PublicEntry.cfg` | requests of a tunnel for a path of the API, of health or of metrics go to the control plane, those below `/api/` may be answered by CORS, and unclean paths are redirected |

### Bounds

* `proxy`: two requests, two sessions, one subdomain, queue of 1, and one message in the
  socket (`WireCapacity`), which is enough for the agent to be behind the gateway by a
  message when the session ends. Two requests are enough to fill the queue for each
  other and to interleave frames at the agent; two sessions let one subdomain change
  hands while a request holds the old one. Bodies are empty here; `proxy_release`, with
  `NoRejectedStream` and so the sequence numbers of chunks, has one session and a chunk
  a request. `proxy` also passed with a chunk, with a socket of 1 (3.9 million states)
  and without a bound (19 million), which takes too long to repeat on every change. The
  theorems remove the bounds, `NoRejectedStream` for as many requests as the agent has
  room for.
* `lifecycle_*`: three sessions are an old, a current and a next one; three rows let
  every one of them insert. `lifecycle_faults` has two agents, so that a cleanup could
  hit the wrong one, and sessions of one agent overlap or do not; `lifecycle_overlap`
  has one agent process that dials up to three times, which is what liveness can afford;
  the theorems have any number.
* `flow_safety`: three requests, two workers, queues of 1 and 2, so that each queue
  is full in some state while the reader, a worker and the loop all wait.
* `flow_answers`: `DownCapacity = 3` holds what two requests can have queued beyond
  the gateway's own queue; with 1 and a third request it is the wedge of `QueueDrains`.
* `migrations`: three processes, three migrations, a restart each. `traffic`: two
  users, three requests, one restart, all faults. `auth_session`: two pages,
  three calls and three tokens, for a login and two exchanges that overlap, or an exchange
  and a logout; the theorems have any number. `rate_limiter`: five calls,
  two tunnels, one client, limit 2, window 3, a caller one tick late, five ticks: one
  call more than two full windows, or a full window of one tunnel and calls to the
  other; of several clients the theorems speak. `ClientAtMostTwice` is about a stretch
  shorter than a window by two waits, because a caller reads the clock before it waits
  for the mutex: the times of the calls that a window counts agree with its own up to
  one wait at either end.
* The capacities are parameters; in the code they are 32, and 64 for the workers.

### Fairness

* `PublicProxy!Fairness`: weak, for goroutines that can run; for reading a body,
  whose client may also leave, and for the cleanup. None for the agent, the end of
  a session or the timeout: `proxy_release` does not need the timeout, and
  `proxy_blocked_send` is not an effect of a missing one, since no timer runs there.
* `TunnelFlow!Fairness`: strong for the cases of the gateway's select, which Go
  chooses at random among the ready ones, and for senders that share a channel, which
  Go serves in turn; weak for the rest. The local service answers or fails.
* `AgentReconnect!AgentsFairness`: weak for the goroutine of a session, which reads
  the end of a connection that the agent has closed, and for `Run`, whose timer fires
  and which reads the end of a connection that the gateway has closed; strong for
  dialing, since `Run` tries again and again: a network that always breaks at the
  moment of the dial would refute any reconnection. Nothing is assumed of breaking
  connections, so an agent may lose every session it gets; `ReconnectReopens` ends
  where the sessions of the model are used up.
* `Migrations!Fairness`: who has the lock goes on. `Traffic!FairSpec`: the ticker
  ticks and the flush runs.

## 4. What is proved

The theorems hold for all values of the constants under the `ASSUME`s of the
modules: capacities are positive, `None` is not a member of the sets it is used
beside, the calls of the rate limiter are finitely many. What a theorem assumes beyond
that is in its statement and named here.

* **`PublicProxyDelivery`** — `TypeCorrect`, and `Delivery`: the inductive
  `DeliveryInvariant`. None of
  the four properties it is for is inductive alone. That a waiter is not orphaned
  depends on where its response is (`OneResponse`: to come, in one goroutine's hands,
  on the channel, and nowhere else), on the map holding exactly the sessions between
  Register and Remove (`SessionsServed`), and on `StaleEntries`: `RegisterRequest`
  does not look at the session, so an entry may be made for a session that is gone,
  but then the first lookup of `sendContext` finds out. From it follow
  `WaitersAreNotOrphaned`, `SendersDoNotBlock`, `PendingDoesNotLeak` and
  `RoutesAreOwned`. `CountersBalance` is by its own invariant with the finiteness of
  the map.
* **`PublicProxyRefinement`** — `Execution`, an invariant on what frames of a request
  are on their way to the agent and at it, depending on where its handler is; from it
  `Refinement`: every step is a step or a stutter of `RequestContract`. The way of a frame
  (`way`) is the wire followed by the queue, so that a write of the gateway leaves it as it
  is, whatever `WireCapacity` is. The point is that an `end` is queued by the last send
  only, and never after a cancel: a handler that gave up before has none on the way.
  `StreamsAreAccepted` is by `StreamInvariant`: for every place of every way, what the
  agent's stream table will be when it comes to that frame (`Ready`), so that each frame
  has its turn there (`InTurn`) and so has the one its handler sends next. It assumes
  finitely many requests, no more than `MaxStreams`; with more it is not kept (section 3).
* **`TunnelLifecycleProofs`** — of `TunnelLifecycle`: `TypeCorrect`, `RoutesAreOwned`
  with all faults and overlaps, and `CleanupIsComplete` without faults: whoever makes an
  agent online or opens its rows is itself a session with its cleanup ahead.
  `OnlineIsShown`, `RoutedRowsAreOpen` and `RoutesAreKept` are with all faults and any
  overlaps, and about the sessions that are not `overlapped`: by `Alone`, that two
  active sessions of an agent are both overlapped, so that a session that is not has
  nobody to end its presence, close its row or take its route, since rows have one owner
  (`OwnsRow`). Nothing is assumed of the agents, which do reconnect while an old session
  lives; of overlapped sessions none of the three holds (section 3). Of
  `AgentReconnect`: `AgentsImplementLifecycle`: every step of agents and gateway
  together is a step of `TunnelLifecycle`, because a process past its arguments has a
  token, a host and an address. With it the theorems of `TunnelLifecycle` are about real
  agents (`ReconnectsAreCleanedUp`, `ReconnectsKeepRoutes`). `SubdomainsAreKept` rests
  on `FreshRows` (a row without status belongs to nobody) and on the attendance of open
  rows that `CleanupIsComplete` is proved with: if a row of the agent for the address is
  not closed, a session of the agent is still at it. `ReconnectsAreCleanedUp` and
  `SubdomainsAreKept` are for `Faults = {}`.
* **`TunnelFlowProofs`** — `FlowInOrder`: the inductive `FlowInvariant`, whatever the
  capacities and limits are. While the session lives, the messages of a request are in
  order in each direction (`Ordered`, across the queue, the message being written and the
  socket); `RequestWay` says where its start and its end may be for each state of its
  handler, its stream and its job; `ResponseWay` that the chunks on their way are those
  from the one the gateway expects to the last that was sent. So at the end of a response
  the gateway has all of it: `AnswersAreOwn`. `RequestsAreKept` follows the end of a
  request from queue to queue. `ProtocolIsKept` needs `RoomForResponses` too: for every
  start on its way, how many responses will be assembled when it is received; each
  of them occupies a worker when the start is sent. It assumes finitely many requests, no
  more than `MaxStreams`, `MaxConcurrent <= MaxResponses` and bodies within `BodyLimit`;
  beyond them the code closes the session (section 3).
  `WaitsAreCircular` says when everybody waits for everybody, for all capacities: if no
  goroutine can move a request that a handler waits for, then the loop is in a write to a
  full socket, the reader holds a message it cannot pass on, and every place towards the
  gateway is taken (`Wedged`). `CanGoOn` spells out the guards of the steps, since the
  prover has no `ENABLED`. It rests on `NotLost` and on `JobsHeld`, that a queued job is in
  the channel. `WedgeLasts`: such a session stays so until the connection ends, for
  pings, cancels and broken bodies make no room. That is the wedge of `QueueDrains`
  (section 3), and the only one.
* **`TrafficProofs`** — `TypeCorrect`, `CountedOnce`, `LossesAreExits` (an action
  property) and `StoppedIsPersisted`, with all faults: by `FlushInvariant`, that nobody
  holds a delta between flushes or while the server is down, and that what the final
  flush drained is in the table, failed or still in its hands.
* **`AuthSessionProofs`** — `TypeCorrect`, and `TokensAreTracked`: `Exchange` (between
  the SELECT and the INSERT of a refresh its token is there, then revoked), `Drawn` (a
  token that was issued and not yet answered is known to nobody else and to one call only),
  `OneCookie` (the other cookie name is never set) and `Restorable` (a cookie that is
  used up belongs to a call that will replace or drop it, or was lost). From them
  `ExchangedAreRevoked` and `CookiesAreUsable`, with all pages, overlaps and faults;
  without `Drawn` a call could revoke the token that another is about to deliver.
* **`PublicEntryProofs`** — `LimiterAccounts`: the invariant that divides the allowed
  calls of a key into those its window has counted, at most `Limit` of the window before,
  and older ones (`Windows`), with the calls a refusal can blame. From it
  `ClientIsLimited`, with or without a proxy, and `OthersAreUnaffected` for `Proxy = None`.
  Of the pure code, `RoundTrip`: decoding inverts encoding for every frame, and
  `AcceptedIsEncoded`: encoding inverts decoding for every message that is accepted, both by
  arithmetic on the bytes of the lengths. `FieldsAtLocalService` and
  `FieldsAtPublicClient`: exactly which fields arrive, whatever `Connection` lists, and
  that filtering twice takes no more than filtering once. `TunnelResponse`: outside
  `/api/` and health the gateway adds the request ID only.
* **`MigrationsProofs`** — `TypeCorrect`, and `MigrationsAreSafe`: who is between lock and
  unlock holds the lock, what it read is still so, and everything before its place is
  listed; from it `MigratedOnce`, `NoRace`, `InOrder`.

Leaves name their prover. Where Zenon is enough it is Zenon; where arithmetic, records or
sequences need SMT the leaf names `SMTT(60)` and `Z3T(60)`, of which tlapm tries the
second when its translation for the first does not end in time.

With these every safety property that a passing run checks is also proved, under the
assumptions named. Only model-checked: liveness under fairness
(`DisconnectReleasesWaiters`, `StopTakesOffline`, `ReconnectReopens`,
`EveryRequestAnswered`, `LockIsReleased`, `RecordedIsPersisted`), which is out of the
prover's reach, as are `ENABLED`, induction over data and `RECURSIVE` operators (the
models need none). Only proved: what `PublicEntryProofs` says of frames, headers and
responses, since that code has no state.

## 5. What is not modelled, and why

* What pages show: HTML, and lists that the next answer replaces, so that of two loads
  that overlap the later answer stays (`TokensView.vue:9`); nothing says which should.
  The calls of the pages are in `AuthSession`.
* `config.go`: read once, before anything runs concurrently.
* `metrics.go`, the access log and the counters that the agent prints: additions that
  no code reads. That the session counters balance is `SessionsCounted`.
* JWTs, password hashes, random IDs: taken as unforgeable, one-way and fresh.
* Byte counts of bodies (`chunk_assembler.go`, the 32 MiB limits, `Content-Length`
  checks): chunks have no content here. Exceeding a limit is one of the refusals of
  `PublicProxy`, or ends the session (`Remove`, `Close`).
* The SQL of the migrations; timestamps that are only shown (`Touch`); the length of
  the agent's delay.
* Malformed messages, whose one effect is the end of the session.
* `ExecuteLocal` and `Registry.Close`, which only tests call.

Checking: `tlc -config <file>.cfg <module>` for each run of `PROJECT.json`, and
`tlapm <module>.tla` for each module of proofs.
