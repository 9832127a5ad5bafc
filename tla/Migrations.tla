------------------------------- MODULE Migrations -------------------------------
(***************************************************************************)
(* Pool.Migrate, run by every server (or test package) that starts on a    *)
(* shared PostgreSQL.  One connection takes an advisory lock, and applies  *)
(* the migrations that schema_migrations does not list, each in a          *)
(* transaction of its own together with the row that lists it.             *)
(***************************************************************************)
EXTENDS Integers, FiniteSets

CONSTANTS
    Servers,      \* processes that run Migrate
    N,            \* len(migrations.All)
    MaxRestarts,  \* bound of the model: times each process starts again
    None          \* no process

ASSUME NAssumption == N \in Nat
ASSUME MaxRestartsAssumption == MaxRestarts \in Nat
ASSUME NoneAssumption == None \notin Servers

VARIABLES
    lock,       \* the process whose connection holds migrationLockKey, or None
    listed,     \* versions in schema_migrations
    schema,     \* migration -> times its UpSQL has been committed
    pc,         \* where each process is in Migrate
    at,         \* index of the migration it has come to
    restarts    \* times it has started again

vars == <<lock, listed, schema, pc, at, restarts>>

All == 1..N

\* "conflict": its transaction met a table or a row that another had made.
PCs == {"start", "check", "apply", "unlock", "abort", "conflict", "done", "failed"}

TypeOK ==
    /\ lock \in Servers \cup {None}
    /\ listed \in SUBSET All
    /\ schema \in [All -> Nat]
    /\ pc \in [Servers -> PCs]
    /\ at \in [Servers -> 1..(N + 1)]
    /\ restarts \in [Servers -> 0..MaxRestarts]

Init ==
    /\ lock = None
    /\ listed = {} /\ schema = [m \in All |-> 0]
    /\ pc = [s \in Servers |-> "start"]
    /\ at = [s \in Servers |-> 1]
    /\ restarts = [s \in Servers |-> 0]

Go(s, from, to) ==
    /\ pc[s] = from
    /\ pc' = [pc EXCEPT ![s] = to]

\* A fault: the lock is not waited for.
LockAnyway(s) ==
    /\ Go(s, "start", "check")
    /\ lock' = s
    /\ at' = [at EXCEPT ![s] = 1]
    /\ UNCHANGED <<listed, schema, restarts>>

\* pg_advisory_lock waits until the lock is free.
Lock(s) ==
    /\ lock = None
    /\ Go(s, "start", "check")
    /\ lock' = s
    /\ at' = [at EXCEPT ![s] = 1]
    /\ UNCHANGED <<listed, schema, restarts>>

\* A fault: the loop runs past the last migration.
CheckPastEnd(s) ==
    /\ \/ at[s] \in All \ listed /\ Go(s, "check", "apply") /\ at' = at
       \/ /\ at[s] \notin All \ listed
          /\ Go(s, "check", IF at[s] > N THEN "unlock" ELSE "check")
          /\ at' = [at EXCEPT ![s] = @ + 1]
    /\ UNCHANGED <<lock, listed, schema, restarts>>

\* The SELECT on schema_migrations.
Check(s) ==
    /\ \/ at[s] \in All \ listed /\ Go(s, "check", "apply") /\ at' = at
       \/ /\ at[s] \in listed
          /\ Go(s, "check", "check")
          /\ at' = [at EXCEPT ![s] = @ + 1]
       \/ at[s] = N + 1 /\ Go(s, "check", "unlock") /\ at' = at
    /\ UNCHANGED <<lock, listed, schema, restarts>>

\* A fault: the version is listed in a transaction of its own, which fails.
CommitUnlisted(s) ==
    /\ schema' = [schema EXCEPT ![at[s]] = @ + 1]
    /\ listed' = listed

\* The transaction of one migration: its UpSQL and its row.
Commit(s) ==
    /\ schema' = [schema EXCEPT ![at[s]] = @ + 1]
    /\ listed' = listed \cup {at[s]}

Apply(s) ==
    /\ \/ /\ at[s] \notin listed
          /\ Go(s, "apply", "check")
          /\ Commit(s)
          /\ at' = [at EXCEPT ![s] = @ + 1]
       \/ /\ at[s] \in listed
          /\ Go(s, "apply", "conflict")
          /\ UNCHANGED <<listed, schema, at>>
    /\ UNCHANGED <<lock, restarts>>

\* A fault: a migration that fails is skipped.
FailSkips(s) ==
    /\ Go(s, "apply", "check")
    /\ at' = [at EXCEPT ![s] = @ + 1]
    /\ UNCHANGED <<lock, listed, schema, restarts>>

\* A statement fails: it is rolled back, or its commit is not confirmed.
Fail(s) ==
    /\ \/ Go(s, "check", "abort") /\ UNCHANGED <<listed, schema>>
       \/ Go(s, "apply", "abort") /\ UNCHANGED <<listed, schema>>
       \/ at[s] \notin listed /\ Go(s, "apply", "abort") /\ Commit(s)
    /\ UNCHANGED <<lock, at, restarts>>

\* A fault: the lock is kept when a migration fails.
UnlockOnSuccess(s) ==
    /\ Go(s, "unlock", "done") \/ Go(s, "abort", "failed") \/ Go(s, "conflict", "failed")
    /\ lock' = IF pc[s] = "unlock" THEN None ELSE lock
    /\ UNCHANGED <<listed, schema, at, restarts>>

\* The deferred pg_advisory_unlock, before the connection is released.
Unlock(s) ==
    /\ Go(s, "unlock", "done") \/ Go(s, "abort", "failed") \/ Go(s, "conflict", "failed")
    /\ lock' = None
    /\ UNCHANGED <<listed, schema, at, restarts>>

\* The 10 seconds of startupCtx pass while the lock is waited for.
GiveUp(s) ==
    /\ Go(s, "start", "failed")
    /\ UNCHANGED <<lock, listed, schema, at, restarts>>

\* The process is killed, or has failed, and is started again; PostgreSQL rolls
\* back and unlocks when the connection is gone.
Restart(s) ==
    /\ restarts[s] < MaxRestarts
    /\ restarts' = [restarts EXCEPT ![s] = @ + 1]
    /\ pc' = [pc EXCEPT ![s] = "start"]
    /\ lock' = IF lock = s THEN None ELSE lock
    /\ UNCHANGED <<listed, schema, at>>

Terminated == (\A s \in Servers : pc[s] \in {"done", "failed"}) /\ UNCHANGED vars

Next ==
    \/ \E s \in Servers : \/ Lock(s) \/ Check(s) \/ Apply(s) \/ Fail(s)
                          \/ Unlock(s) \/ GiveUp(s) \/ Restart(s)
    \/ Terminated

Spec == Init /\ [][Next]_vars

\* A process that has the lock goes on; nothing is assumed of failures, and a
\* process that waits for the lock may give up.
Fairness == \A s \in Servers : WF_vars(Check(s)) /\ WF_vars(Apply(s)) /\ WF_vars(Unlock(s))

FairSpec == Spec /\ Fairness

--------------------------------------------------------------------------------
(* Properties *)

\* docs/backend.md:73: each migration is applied exactly once.  It is in the schema
\* once if it is listed and not at all if not, whoever was killed in between.
ExactlyOnce == \A m \in All : schema[m] = IF m \in listed THEN 1 ELSE 0

\* Later migrations refer to the tables of earlier ones: the listed versions are
\* an initial part of migrations.All.
AppliedInOrder == \A m \in listed : 1..m \subseteq listed

\* database.go:48-50: concurrent calls do not race to create the same table twice.
NoConflict == \A s \in Servers : pc[s] # "conflict"

\* The lock is not kept: no failure of a process makes the others wait for good.
LockIsReleased == \A s \in Servers : lock = s ~> lock # s

\* A process between Lock and Unlock holds the lock; so what it has read from
\* schema_migrations is still so, and everything before its place is listed.
LockInvariant ==
    \A s \in Servers :
        /\ lock = s <=> pc[s] \in {"check", "apply", "unlock", "abort", "conflict"}
        /\ pc[s] \in {"check", "apply"} => 1..(at[s] - 1) \subseteq listed
        /\ pc[s] = "apply" => at[s] \in All \ listed

\* The inductive invariant behind the theorems.
MigrationInvariant == TypeOK /\ LockInvariant /\ NoConflict /\ ExactlyOnce /\ AppliedInOrder
================================================================================
