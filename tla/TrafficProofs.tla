------------------------------ MODULE TrafficProofs ------------------------------
(***************************************************************************)
(* Proofs about Traffic, for any number of users, requests, restarts and   *)
(* faults: nothing is counted twice, nothing is lost while a process runs, *)
(* and a server that stops has written what its final flush drained.       *)
(***************************************************************************)
EXTENDS Traffic, TLAPS

\* Where a delta is.  A flusher that waits or has returned holds none, and neither does
\* a server that is down; the sessions are closed only after the final flush; and what
\* the final flush drained is in the table, failed, or still held by it.
FlushInvariant ==
    /\ flusher \in {"idle", "exited"} \/ ~Running => drained = Zero
    /\ ~Running => perUser = Zero
    /\ server = "closing" => flusher = "exited"
    /\ Running /\ flusher \in {"final", "exited"} =>
          \A u \in Users : totals[u] + failed[u] + drained[u] >= atFinal[u]

\* The counters of no requests.
LEMMA ZeroIsCounter == Zero \in Counter /\ \A u \in Users : Zero[u] = 0
BY DEF Zero, Counter

\* Every step keeps the types.
LEMMA StepType == TypeOK /\ [Next]_vars => TypeOK'
<1> SUFFICES ASSUME TypeOK, [Next]_vars PROVE TypeOK'
  OBVIOUS
<1> USE DEF TypeOK
<1>1. ASSUME NEW u \in Users, NEW size \in 0..1, NEW announced \in {size, -1},
             RecordTraffic(u, size, announced)
      PROVE  TypeOK'
  <2>1. /\ size \in Nat /\ (IF announced > 0 THEN announced ELSE 0) \in Nat
    BY SMTT(60), Z3T(60)
  <2>2. traffic' \in [requests : Nat, bytes : Nat] /\ forwarded' \in Nat
    BY SMTT(60), Z3T(60), <1>1, <2>1 DEF RecordTraffic
  <2>3. perUser' \in Counter /\ recorded' \in Counter
    BY SMTT(60), Z3T(60), <1>1 DEF RecordTraffic, Counter
  <2> QED
    BY <1>1, <2>2, <2>3 DEF RecordTraffic
<1>2. ASSUME NEW u \in Users, AddDelta(u)
      PROVE  TypeOK'
  <2>1. totals' \in Counter /\ failed' \in Counter /\ drained' \in Counter
    BY SMTT(60), Z3T(60), <1>2 DEF AddDelta, Counter
  <2> QED
    BY <1>2, <2>1 DEF AddDelta
<1>3. CASE Tick
  BY <1>3, ZeroIsCounter DEF Tick, DrainUserDeltas
<1>4. CASE FinalFlush
  <2>1. atFinal' \in Counter
    BY SMTT(60), Z3T(60), <1>4 DEF FinalFlush, Counter
  <2> QED
    BY <1>4, <2>1, ZeroIsCounter DEF FinalFlush, DrainUserDeltas
<1>5. CASE EndFlush
  BY <1>5 DEF EndFlush
<1>6. CASE Signal \/ CloseAll
  BY <1>6 DEF Signal, CloseAll
<1>7. CASE Shutdown \/ Crash
  BY SMTT(60), Z3T(60), <1>7, ZeroIsCounter DEF Shutdown, Crash, Exit
<1>8. CASE Start
  BY SMTT(60), Z3T(60), <1>8 DEF Start
<1>9. CASE UNCHANGED vars
  BY <1>9 DEF vars
<1> QED
  BY <1>1, <1>2, <1>3, <1>4, <1>5, <1>6, <1>7, <1>8, <1>9 DEF Next, Terminated

\* Every step keeps each delta in one place.
LEMMA StepFlush == TypeOK /\ FlushInvariant /\ [Next]_vars => FlushInvariant'
<1> SUFFICES ASSUME TypeOK, FlushInvariant, [Next]_vars PROVE FlushInvariant'
  OBVIOUS
<1>0. \A u \in Users : /\ totals[u] \in Nat /\ failed[u] \in Nat /\ drained[u] \in Nat
                       /\ perUser[u] \in Nat /\ atFinal[u] \in Nat
  BY DEF TypeOK, Counter
<1>1. ASSUME NEW u \in Users, NEW size, NEW announced, RecordTraffic(u, size, announced)
      PROVE  FlushInvariant'
  BY <1>1 DEF RecordTraffic, FlushInvariant, Running
<1>2. ASSUME NEW u \in Users, AddDelta(u)
      PROVE  FlushInvariant'
  <2>1. Running /\ flusher \in {"flushing", "final"} /\ UNCHANGED <<flusher, server, perUser, atFinal>>
    BY <1>2 DEF AddDelta
  <2>2. \A q \in Users : totals'[q] + failed'[q] + drained'[q] = totals[q] + failed[q] + drained[q]
    BY SMTT(60), Z3T(60), <1>0, <1>2 DEF AddDelta, TypeOK, Counter
  <2> QED
    BY <2>1, <2>2 DEF FlushInvariant, Running
<1>3. CASE Tick
  BY <1>3 DEF Tick, DrainUserDeltas, FlushInvariant, Running
<1>4. CASE FinalFlush
  <2>1. \A u \in Users : totals'[u] + failed'[u] + drained'[u] = atFinal'[u]
    BY <1>4 DEF FinalFlush, DrainUserDeltas
  <2>2. \A u \in Users : atFinal'[u] \in Nat
    BY SMTT(60), Z3T(60), <1>0, <1>4 DEF FinalFlush
  <2> QED
    BY SMTT(60), Z3T(60), <1>4, <2>1, <2>2 DEF FinalFlush, DrainUserDeltas, FlushInvariant, Running
<1>5. CASE EndFlush
  BY <1>5 DEF EndFlush, FlushInvariant, Running
<1>6. CASE Signal \/ CloseAll
  BY <1>6 DEF Signal, CloseAll, FlushInvariant, Running
<1>7. CASE Shutdown \/ Crash
  BY <1>7 DEF Shutdown, Crash, Exit, FlushInvariant, Running
<1>8. CASE Start
  BY <1>8 DEF Start, FlushInvariant, Running
<1>9. CASE UNCHANGED vars
  BY <1>9 DEF vars, FlushInvariant, Running
<1> QED
  BY <1>1, <1>2, <1>3, <1>4, <1>5, <1>6, <1>7, <1>8, <1>9 DEF Next, Terminated

\* Types and deltas are as they should be in every reachable state.
LEMMA AlwaysFlush == Spec => [](TypeOK /\ FlushInvariant)
<1>1. Init => TypeOK /\ FlushInvariant
  <2> SUFFICES ASSUME Init PROVE TypeOK /\ FlushInvariant
    OBVIOUS
  <2>1. TypeOK
    BY ZeroIsCounter DEF Init, TypeOK
  <2> QED
    BY <2>1 DEF Init, FlushInvariant, Running
<1> QED
  BY <1>1, StepType, StepFlush, PTL DEF Spec

\* Every reachable state of the accounting has the declared types.
THEOREM TypeCorrect == Spec => []TypeOK
BY AlwaysFlush, PTL

\* Registry and flusher never count a request twice: for any number of users and
\* requests, whether a statement fails or the server stops, crashes or starts again
\* between two steps of a flush.
THEOREM CountedOnce == Spec => []NoDoubleCount
<1>1. Init => NoDoubleCount
  BY SMTT(60), Z3T(60), ZeroIsCounter DEF Init, NoDoubleCount
<1>2. TypeOK /\ FlushInvariant /\ NoDoubleCount /\ [Next]_vars => NoDoubleCount'
  <2> SUFFICES ASSUME TypeOK, FlushInvariant, NoDoubleCount, [Next]_vars PROVE NoDoubleCount'
    OBVIOUS
  <2>0. \A u \in Users : /\ totals[u] \in Nat /\ failed[u] \in Nat /\ drained[u] \in Nat
                         /\ perUser[u] \in Nat /\ recorded[u] \in Nat
    BY DEF TypeOK, Counter
  <2>1. ASSUME NEW u \in Users, NEW size, NEW announced, RecordTraffic(u, size, announced)
        PROVE  NoDoubleCount'
    <3>1. \A q \in Users : /\ perUser'[q] = IF q = u THEN perUser[q] + 1 ELSE perUser[q]
                           /\ recorded'[q] = IF q = u THEN recorded[q] + 1 ELSE recorded[q]
      BY <2>1 DEF RecordTraffic, TypeOK, Counter
    <3>2. UNCHANGED <<totals, failed, drained>>
      BY <2>1 DEF RecordTraffic
    <3> QED
      BY SMTT(60), Z3T(60), <2>0, <3>1, <3>2 DEF NoDoubleCount
  <2>2. ASSUME NEW u \in Users, AddDelta(u)
        PROVE  NoDoubleCount'
    <3>1. \A q \in Users : totals'[q] + failed'[q] + drained'[q] = totals[q] + failed[q] + drained[q]
      BY SMTT(60), Z3T(60), <2>0, <2>2 DEF AddDelta, TypeOK, Counter
    <3>2. UNCHANGED <<perUser, recorded>>
      BY <2>2 DEF AddDelta
    <3> QED
      BY <3>1, <3>2 DEF NoDoubleCount
  <2>3. CASE Tick \/ FinalFlush
    <3>1. \A q \in Users : drained[q] = 0 /\ drained'[q] = perUser[q] /\ perUser'[q] = 0
      BY <2>3, ZeroIsCounter DEF Tick, FinalFlush, DrainUserDeltas, FlushInvariant
    <3>2. UNCHANGED <<totals, failed, recorded>>
      BY <2>3 DEF Tick, FinalFlush, DrainUserDeltas
    <3> QED
      BY SMTT(60), Z3T(60), <2>0, <3>1, <3>2 DEF NoDoubleCount
  <2>4. CASE Shutdown \/ Crash
    <3>1. \A q \in Users : drained'[q] = 0 /\ perUser'[q] = 0
      BY <2>4, ZeroIsCounter DEF Shutdown, Crash, Exit
    <3>2. UNCHANGED <<totals, failed, recorded>>
      BY <2>4 DEF Shutdown, Crash, Exit
    <3> QED
      BY SMTT(60), Z3T(60), <2>0, <3>1, <3>2 DEF NoDoubleCount
  <2>5. CASE EndFlush \/ Signal \/ CloseAll \/ Start \/ UNCHANGED vars
    BY <2>5 DEF EndFlush, Signal, CloseAll, Start, vars, NoDoubleCount
  <2> QED
    BY <2>1, <2>2, <2>3, <2>4, <2>5 DEF Next, Terminated
<1> QED
  BY <1>1, <1>2, AlwaysFlush, PTL DEF Spec

\* A server that has stopped has in its table, or has logged an error for, all that was
\* in the Registry at the final drain.
THEOREM StoppedIsPersisted == Spec => []StopPersists
<1>1. Init => StopPersists
  BY DEF Init, StopPersists
<1>2. TypeOK /\ FlushInvariant /\ StopPersists /\ [Next]_vars => StopPersists'
  <2> SUFFICES ASSUME TypeOK, FlushInvariant, StopPersists, [Next]_vars, server' = "stopped",
                      NEW u \in Users
               PROVE  totals'[u] + failed'[u] >= atFinal'[u]
    BY DEF StopPersists
  <2>0. totals[u] \in Nat /\ failed[u] \in Nat
    BY DEF TypeOK, Counter
  <2>1. Shutdown \/ Terminated \/ UNCHANGED vars
    BY DEF Next, RecordTraffic, AddDelta, Tick, FinalFlush, DrainUserDeltas, EndFlush, Signal,
           CloseAll, Crash, Exit, Start, Running
  <2>2. CASE Shutdown
    <3>1. server = "closing" /\ flusher = "exited" /\ UNCHANGED <<totals, failed, atFinal>>
      BY <2>2 DEF Shutdown, Exit, FlushInvariant
    <3>2. drained[u] = 0 /\ totals[u] + failed[u] + drained[u] >= atFinal[u]
      BY <3>1, ZeroIsCounter DEF FlushInvariant, Running
    <3> QED
      BY SMTT(60), Z3T(60), <2>0, <3>1, <3>2
  <2>3. CASE Terminated \/ UNCHANGED vars
    BY <2>3 DEF Terminated, vars, StopPersists
  <2> QED
    BY <2>1, <2>2, <2>3
<1> QED
  BY <1>1, <1>2, AlwaysFlush, PTL DEF Spec

\* While a process runs no request leaves the account: a drain finds the hands of the
\* flusher empty, and a delta goes to the table or to the log as a whole.
THEOREM LossesAreExits == Spec => LostOnlyAtExit
<1>1. TypeOK /\ FlushInvariant /\ [Next]_vars
         => [(Running => Running') => \A u \in Users : Missing(u)' = Missing(u)]_vars
  <2> SUFFICES ASSUME TypeOK, FlushInvariant, [Next]_vars, Running => Running', NEW q \in Users
               PROVE  Missing(q)' = Missing(q)
    BY Zenon
  <2>0. /\ totals[q] \in Nat /\ failed[q] \in Nat /\ drained[q] \in Nat
        /\ perUser[q] \in Nat /\ recorded[q] \in Nat
    BY DEF TypeOK, Counter
  <2>1. ASSUME NEW u \in Users, NEW size, NEW announced, RecordTraffic(u, size, announced)
        PROVE  Missing(q)' = Missing(q)
    <3>1. /\ perUser'[q] = IF q = u THEN perUser[q] + 1 ELSE perUser[q]
          /\ recorded'[q] = IF q = u THEN recorded[q] + 1 ELSE recorded[q]
      BY <2>1 DEF RecordTraffic, TypeOK, Counter
    <3>2. UNCHANGED <<totals, failed, drained>>
      BY <2>1 DEF RecordTraffic
    <3> QED
      BY SMTT(60), Z3T(60), <2>0, <3>1, <3>2 DEF Missing
  <2>2. ASSUME NEW u \in Users, AddDelta(u)
        PROVE  Missing(q)' = Missing(q)
    <3>1. totals'[q] + failed'[q] + drained'[q] = totals[q] + failed[q] + drained[q]
      BY SMTT(60), Z3T(60), <2>0, <2>2 DEF AddDelta, TypeOK, Counter
    <3>2. UNCHANGED <<perUser, recorded>>
      BY <2>2 DEF AddDelta
    <3> QED
      BY <3>1, <3>2 DEF Missing
  <2>3. CASE Tick \/ FinalFlush
    <3>1. drained[q] = 0 /\ drained'[q] = perUser[q] /\ perUser'[q] = 0
      BY <2>3, ZeroIsCounter DEF Tick, FinalFlush, DrainUserDeltas, FlushInvariant
    <3>2. UNCHANGED <<totals, failed, recorded>>
      BY <2>3 DEF Tick, FinalFlush, DrainUserDeltas
    <3> QED
      BY SMTT(60), Z3T(60), <2>0, <3>1, <3>2 DEF Missing
  <2>4. ~Shutdown /\ ~Crash
    BY DEF Shutdown, Crash, Exit, Running
  <2>5. CASE EndFlush \/ Signal \/ CloseAll \/ Start \/ UNCHANGED vars
    BY <2>5 DEF EndFlush, Signal, CloseAll, Start, vars, Missing
  <2> QED
    BY <2>1, <2>2, <2>3, <2>4, <2>5 DEF Next, Terminated
<1> QED
  BY <1>1, AlwaysFlush, PTL DEF Spec, LostOnlyAtExit
================================================================================
