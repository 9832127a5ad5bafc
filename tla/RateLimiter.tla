------------------------------- MODULE RateLimiter -------------------------------
(***************************************************************************)
(* The fixed-window limiter that guards the authentication endpoints and   *)
(* the public tunnels; the two copies of it in the source differ in names  *)
(* only.  A caller reads the clock before it waits for the mutex, so the   *)
(* times that allow sees need not be in order.  PublicEntry has the calls. *)
(***************************************************************************)
EXTENDS Integers, FiniteSets

CONSTANTS
    Calls,      \* calls of allow
    Keys,       \* client IPs, or tunnels with client IPs
    Limit,      \* limit
    Window,     \* window, in ticks of the clock
    MaxDelay,   \* ticks that pass at most between reading the clock and allow
    MaxTime,    \* bound of the model: the last tick
    None        \* no key

ASSUME CallsAssumption == IsFiniteSet(Calls)
ASSUME LimitAssumption == Limit \in Nat \ {0} /\ Window \in Nat \ {0}
ASSUME TimeAssumption == MaxDelay \in Nat /\ MaxTime \in Nat
ASSUME NoneAssumption == None \notin Keys

VARIABLES
    clock,
    entries,   \* key -> when its window started, and the calls counted in it
    result,    \* call -> "none", "waiting" for the mutex, "allowed", "refused"
    key, now   \* the arguments of each call

vars == <<clock, entries, result, key, now>>

Absent == [started |-> 0, count |-> 0]

TypeOK ==
    /\ clock \in 0..MaxTime
    /\ entries \in [Keys -> [started : 0..MaxTime, count : 0..Limit]]
    /\ result \in [Calls -> {"none", "waiting", "allowed", "refused"}]
    /\ key \in [Calls -> Keys \cup {None}] /\ now \in [Calls -> 0..MaxTime]

Init ==
    /\ clock = 0
    /\ entries = [k \in Keys |-> Absent]
    /\ result = [c \in Calls |-> "none"]
    /\ key = [c \in Calls |-> None] /\ now = [c \in Calls |-> 0]

Tick ==
    /\ clock < MaxTime
    /\ \A c \in Calls : result[c] = "waiting" => clock - now[c] < MaxDelay
    /\ clock' = clock + 1
    /\ UNCHANGED <<entries, result, key, now>>

\* ServeHTTP evaluates the arguments of allow.
Arrive(c, k) ==
    /\ result[c] = "none"
    /\ result' = [result EXCEPT ![c] = "waiting"]
    /\ key' = [key EXCEPT ![c] = k]
    /\ now' = [now EXCEPT ![c] = clock]
    /\ UNCHANGED <<clock, entries>>

\* now.Sub(entry.started) >= l.window
Expired(entry, t) == t - entry.started >= Window

\* A fault: the windows of all keys end with the one of the caller.
PurgeAll(t) == [k \in Keys |-> Absent]

\* The loop of allow over all the entries.
Purge(t) == [k \in Keys |-> IF Expired(entries[k], t) THEN Absent ELSE entries[k]]

\* A fault: one call too many is counted.
FullAfter(entry) == entry.count > Limit

Full(entry) == entry.count >= Limit

\* allow, under the mutex.
Allow(c) ==
    LET left  == Purge(now[c])
        entry == left[key[c]]
    IN  /\ result[c] = "waiting"
        /\ \/ /\ entry.count = 0
              /\ entries' = [left EXCEPT ![key[c]] = [started |-> now[c], count |-> 1]]
              /\ result' = [result EXCEPT ![c] = "allowed"]
           \/ /\ entry.count > 0 /\ Full(entry)
              /\ entries' = left
              /\ result' = [result EXCEPT ![c] = "refused"]
           \/ /\ entry.count > 0 /\ ~Full(entry)
              /\ entries' = [left EXCEPT ![key[c]].count = @ + 1]
              /\ result' = [result EXCEPT ![c] = "allowed"]
        /\ UNCHANGED <<clock, key, now>>

--------------------------------------------------------------------------------
\* The calls of k that were allowed and came in the length of a window from t on.
AllowedFrom(k, t) ==
    {c \in Calls : result[c] = "allowed" /\ key[c] = k /\ now[c] \in t..(t + Window - 1)}

--------------------------------------------------------------------------------
(* What documents, comments or tests say and the code does not keep: TLC finds a   *)
(* counterexample to each of these under the constants that README.md names        *)

\* README.md:184-185: the endpoints are limited to a number of attempts per minute
\* and client IP.  No stretch as long as a window sees more than the limit.
AtMostLimit == \A k \in Keys, t \in 0..MaxTime : Cardinality(AllowedFrom(k, t)) <= Limit
================================================================================
