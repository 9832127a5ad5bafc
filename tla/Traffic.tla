--------------------------------- MODULE Traffic ---------------------------------
(***************************************************************************)
(* Traffic accounting: handlers add to the counters of the Registry, and a *)
(* goroutine of run drains the counters of the users every 15 seconds and  *)
(* once more on SIGTERM, adding them to the table traffic_totals.          *)
(***************************************************************************)
EXTENDS Integers, FiniteSets, FiniteSetsExt

CONSTANTS
    Users,
    MaxRequests,   \* bound of the model: recorded requests
    MaxStarts,     \* bound of the model: times the server starts again
    Faults         \* which of "db", "stop" and "crash" happen

ASSUME BoundAssumption == MaxRequests \in Nat /\ MaxStarts \in Nat
ASSUME FaultsAssumption == Faults \subseteq {"db", "stop", "crash"}

VARIABLES
    traffic,    \* Registry.traffic: requests and bytes of their bodies
    perUser,    \* Registry.perUser; of the counters of a user, the requests
    drained,    \* what flushTraffic has drained and not yet added
    totals,     \* traffic_totals.requests_total
    flusher,    \* the goroutine: "idle", "flushing", "final", "exited"
    server,     \* "up", "signalled", "closing", "stopped", "crashed"
    starts,
    \* history
    failed,     \* requests in deltas that an error has dropped
    recorded,   \* requests recorded for each user since the beginning
    atFinal,    \* what had reached the table or failed, and what the final flush drained
    forwarded   \* bytes of the bodies of the requests in traffic

vars == <<traffic, perUser, drained, totals, flusher, server, starts, failed, recorded, atFinal, forwarded>>

Zero == [u \in Users |-> 0]
Counter == [Users -> Nat]

TypeOK ==
    /\ traffic \in [requests : Nat, bytes : Nat]
    /\ perUser \in Counter /\ drained \in Counter /\ totals \in Counter
    /\ failed \in Counter /\ recorded \in Counter /\ atFinal \in Counter
    /\ flusher \in {"idle", "flushing", "final", "exited"}
    /\ server \in {"up", "signalled", "closing", "stopped", "crashed"}
    /\ starts \in Nat /\ forwarded \in Nat

Init ==
    /\ traffic = [requests |-> 0, bytes |-> 0] /\ forwarded = 0
    /\ perUser = Zero /\ drained = Zero /\ totals = Zero
    /\ failed = Zero /\ recorded = Zero /\ atFinal = Zero
    /\ flusher = "idle" /\ server = "up" /\ starts = 0

Recorded == MapThenSumSet(LAMBDA u : recorded[u], Users)

Running == server \in {"up", "signalled", "closing"}

\* A fault: a body of unknown length is counted as it is announced.
RecordAnnounced(u, size, announced) ==
    /\ Running /\ Recorded < MaxRequests
    /\ traffic' = [requests |-> traffic.requests + 1, bytes |-> traffic.bytes + announced]
    /\ perUser' = [perUser EXCEPT ![u] = @ + 1]
    /\ recorded' = [recorded EXCEPT ![u] = @ + 1]
    /\ forwarded' = forwarded + size
    /\ UNCHANGED <<drained, totals, flusher, server, starts, failed, atFinal>>

\* RecordTraffic for a body of this size whose length was announced, or is -1
\* because it was not.  A response whose tunnel is gone is not recorded
\* (PublicProxy).  Requests go on during the shutdown.
RecordTraffic(u, size, announced) ==
    /\ Running /\ Recorded < MaxRequests
    /\ traffic' = [requests |-> traffic.requests + 1,
                   bytes |-> traffic.bytes + IF announced > 0 THEN announced ELSE 0]
    /\ perUser' = [perUser EXCEPT ![u] = @ + 1]
    /\ recorded' = [recorded EXCEPT ![u] = @ + 1]
    /\ forwarded' = forwarded + size
    /\ UNCHANGED <<drained, totals, flusher, server, starts, failed, atFinal>>

\* A fault: the counters are copied and not reset.
DrainKeeps(to) ==
    /\ flusher = "idle"
    /\ flusher' = to
    /\ drained' = perUser
    /\ perUser' = perUser
    /\ UNCHANGED <<traffic, totals, server, starts, failed, recorded, forwarded>>

\* DrainUserDeltas, under the lock of the Registry.
DrainUserDeltas(to) ==
    /\ flusher = "idle"
    /\ flusher' = to
    /\ drained' = perUser
    /\ perUser' = Zero
    /\ UNCHANGED <<traffic, totals, server, starts, failed, recorded, forwarded>>

\* The ticker and ctx.Done may both be ready; select takes either.
Tick ==
    /\ server \in {"up", "signalled"}
    /\ DrainUserDeltas("flushing")
    /\ atFinal' = atFinal

FinalFlush ==
    /\ server = "signalled"
    /\ DrainUserDeltas("final")
    /\ atFinal' = [u \in Users |-> totals[u] + failed[u] + perUser[u]]

\* One statement per user.  An error is logged and the delta dropped, whether or
\* not it had been committed.
AddDelta(u) ==
    /\ Running /\ flusher \in {"flushing", "final"} /\ drained[u] > 0
    /\ \/ totals' = [totals EXCEPT ![u] = @ + drained[u]] /\ failed' = failed
       \/ "db" \in Faults /\ failed' = [failed EXCEPT ![u] = @ + drained[u]] /\ totals' = totals
    /\ drained' = [drained EXCEPT ![u] = 0]
    /\ UNCHANGED <<traffic, perUser, flusher, server, starts, recorded, atFinal, forwarded>>

\* A fault: the goroutine returns after its first flush.
EndFlushOnce ==
    /\ Running /\ flusher \in {"flushing", "final"} /\ drained = Zero
    /\ flusher' = "exited"
    /\ UNCHANGED <<traffic, perUser, drained, totals, server, starts, failed, recorded, atFinal, forwarded>>

\* A fault: the flush returns while it still holds deltas.
EndFlushEarly ==
    /\ Running /\ flusher \in {"flushing", "final"}
    /\ flusher' = IF flusher = "final" THEN "exited" ELSE "idle"
    /\ UNCHANGED <<traffic, perUser, drained, totals, server, starts, failed, recorded, atFinal, forwarded>>

EndFlush ==
    /\ Running /\ flusher \in {"flushing", "final"} /\ drained = Zero
    /\ flusher' = IF flusher = "final" THEN "exited" ELSE "idle"
    /\ UNCHANGED <<traffic, perUser, drained, totals, server, starts, failed, recorded, atFinal, forwarded>>

Signal ==
    /\ "stop" \in Faults /\ server = "up"
    /\ server' = "signalled"
    /\ UNCHANGED <<traffic, perUser, drained, totals, flusher, starts, failed, recorded, atFinal, forwarded>>

\* A fault: the sessions are closed without waiting for the final flush.
CloseAllAtOnce ==
    /\ server = "signalled"
    /\ server' = "closing"
    /\ UNCHANGED <<traffic, perUser, drained, totals, flusher, starts, failed, recorded, atFinal, forwarded>>

\* run waits for trafficFlushDone, then calls CloseAll and Shutdown.
CloseAll ==
    /\ server = "signalled" /\ flusher = "exited"
    /\ server' = "closing"
    /\ UNCHANGED <<traffic, perUser, drained, totals, flusher, starts, failed, recorded, atFinal, forwarded>>

\* The memory of the process is gone.
Exit(how) ==
    /\ server' = how
    /\ traffic' = [requests |-> 0, bytes |-> 0] /\ forwarded' = 0
    /\ perUser' = Zero /\ drained' = Zero
    /\ UNCHANGED <<totals, flusher, starts, failed, recorded, atFinal>>

Shutdown == server = "closing" /\ Exit("stopped")

Crash == "crash" \in Faults /\ Running /\ Exit("crashed")

Start ==
    /\ ~Running /\ starts < MaxStarts
    /\ starts' = starts + 1
    /\ server' = "up" /\ flusher' = "idle"
    /\ UNCHANGED <<traffic, perUser, drained, totals, failed, recorded, atFinal, forwarded>>

Terminated == ~Running /\ UNCHANGED vars

Next ==
    \/ \E u \in Users, size \in 0..1 :
          RecordTraffic(u, size, size) \/ RecordTraffic(u, size, -1)
    \/ \E u \in Users : AddDelta(u)
    \/ Tick \/ FinalFlush \/ EndFlush
    \/ Signal \/ CloseAll \/ Shutdown \/ Crash \/ Start
    \/ Terminated

Spec == Init /\ [][Next]_vars

\* The ticker ticks, PostgreSQL answers and the goroutine of the flush runs.
FairSpec == Spec /\ WF_vars(Tick) /\ WF_vars(EndFlush) /\ \A u \in Users : WF_vars(AddDelta(u))

--------------------------------------------------------------------------------
(* Properties *)

\* registry.go:96-98: the counters are flushed without double-counting.  What is in
\* the table or failed, on its way to it and in the Registry never exceeds what was
\* recorded, in whatever step the server stops or crashes.
NoDoubleCount ==
    \A u \in Users : totals[u] + failed[u] + drained[u] + perUser[u] <= recorded[u]

\* The server stops only after what was in the Registry at the final drain is in
\* the table, or an error was logged for it: run waits for the flush before it closes
\* the sessions.
StopPersists == server = "stopped" => \A u \in Users : totals[u] + failed[u] >= atFinal[u]

\* The requests recorded for u that are in no counter, in no delta and in no logged error.
Missing(u) == recorded[u] - (totals[u] + failed[u] + drained[u] + perUser[u])

\* Only the end of a process loses requests: through every step of recording, draining
\* and adding, in every order, no request of any user leaves the account.
LostOnlyAtExit ==
    [][(Running => Running') => \A u \in Users : Missing(u)' = Missing(u)]_vars

\* What is in the Registry gets into the table while the server is up, or an error
\* is logged for it.
RecordedIsPersisted ==
    \A u \in Users, n \in 1..MaxRequests :
        (server = "up" /\ totals[u] + failed[u] + drained[u] + perUser[u] >= n)
            ~> (totals[u] + failed[u] >= n \/ server # "up")

--------------------------------------------------------------------------------
(* What documents, comments or tests say and the code does not keep: TLC finds a   *)
(* counterexample to each of these under the constants that README.md names        *)

\* server/metrics.go:119: the counter of bytes is of the request bodies that were
\* forwarded to agents.
BytesAreForwarded == traffic.bytes = forwarded
================================================================================
