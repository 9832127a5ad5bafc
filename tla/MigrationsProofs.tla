---------------------------- MODULE MigrationsProofs ----------------------------
(***************************************************************************)
(* Proofs about Migrations, for any number of processes and migrations.    *)
(* The argument: a process between Lock and Unlock holds the lock, so      *)
(* nothing changes schema_migrations between its SELECT and its            *)
(* transaction.                                                            *)
(***************************************************************************)
EXTENDS Migrations, TLAPS

USE NAssumption, MaxRestartsAssumption, NoneAssumption

Holding == {"check", "apply", "unlock", "abort", "conflict"}

\* Every process is where it can be and typed at every step of Migrate.
LEMMA TypeStep == MigrationInvariant /\ [Next]_vars => TypeOK'
<1> SUFFICES ASSUME MigrationInvariant, [Next]_vars PROVE TypeOK'
  OBVIOUS
<1> USE DEF MigrationInvariant, TypeOK
<1>1. ASSUME NEW s \in Servers, Lock(s) PROVE TypeOK'
  BY SMTT(60), Z3T(60), <1>1 DEF Lock, Go, PCs, All
<1>2. ASSUME NEW s \in Servers, Check(s) PROVE TypeOK'
  <2>1. at' \in [Servers -> 1..(N + 1)]
    BY SMTT(60), Z3T(60), <1>2 DEF Check, All
  <2>2. pc' \in [Servers -> PCs]
    BY ZenonT(60), <1>2 DEF Check, Go, PCs
  <2> QED  BY <1>2, <2>1, <2>2 DEF Check
<1>3. ASSUME NEW s \in Servers, pc[s] = "apply", Commit(s)
      PROVE  listed' \in SUBSET All /\ schema' \in [All -> Nat]
  BY SMTT(60), Z3T(60), <1>3 DEF LockInvariant, Commit
<1>4. ASSUME NEW s \in Servers, Apply(s) PROVE TypeOK'
  <2>1. listed' \in SUBSET All /\ schema' \in [All -> Nat]
    BY <1>3, <1>4 DEF Apply, Go
  <2>2. pc' \in [Servers -> PCs]
    BY ZenonT(60), <1>4 DEF Apply, Go, PCs
  <2>3. at[s] + 1 \in 1..(N + 1)
    BY SMTT(60), Z3T(60), <1>4 DEF Apply, Go, LockInvariant, All
  <2>4. at' \in [Servers -> 1..(N + 1)]
    BY <1>4, <2>3 DEF Apply
  <2> QED  BY <1>4, <2>1, <2>2, <2>4 DEF Apply
<1>5. ASSUME NEW s \in Servers, Fail(s) PROVE TypeOK'
  <2>1. listed' \in SUBSET All /\ schema' \in [All -> Nat]
    BY <1>3, <1>5 DEF Fail, Go
  <2>2. pc' \in [Servers -> PCs]
    BY <1>5 DEF Fail, Go, PCs
  <2> QED  BY <1>5, <2>1, <2>2 DEF Fail
<1>6. ASSUME NEW s \in Servers, Unlock(s) PROVE TypeOK'
  BY <1>6 DEF Unlock, Go, PCs
<1>7. ASSUME NEW s \in Servers, GiveUp(s) PROVE TypeOK'
  BY <1>7 DEF GiveUp, Go, PCs
<1>8. ASSUME NEW s \in Servers, Restart(s) PROVE TypeOK'
  BY SMTT(60), Z3T(60), <1>8 DEF Restart, PCs
<1>9. CASE UNCHANGED vars
  BY <1>9 DEF vars
<1> QED
  BY <1>1, <1>2, <1>4, <1>5, <1>6, <1>7, <1>8, <1>9 DEF Next, Terminated

\* Only the process that holds the lock writes schema_migrations, so what another
\* relies on stays so.
LEMMA LockStep == MigrationInvariant /\ [Next]_vars => LockInvariant' /\ NoConflict'
<1> SUFFICES ASSUME MigrationInvariant, [Next]_vars PROVE LockInvariant' /\ NoConflict'
  OBVIOUS
<1>0. TypeOK /\ LockInvariant /\ NoConflict
  BY DEF MigrationInvariant
<1>a. \A s \in Servers : at[s] \in 1..(N + 1) /\ pc[s] \in PCs
  BY <1>0 DEF TypeOK
<1>b. ASSUME NEW s \in Servers, pc[s] \in Holding PROVE lock = s
  BY <1>0, <1>b DEF LockInvariant, Holding
<1>c. ASSUME NEW s \in Servers, lock # s PROVE pc[s] \notin Holding
  BY <1>0, <1>c DEF LockInvariant, Holding
<1> USE <1>0 DEF LockInvariant, NoConflict, TypeOK
<1>1. ASSUME NEW s \in Servers, Lock(s) PROVE LockInvariant' /\ NoConflict'
  BY SMTT(60), Z3T(60), <1>1, <1>c DEF Lock, Go, Holding
<1>2. ASSUME NEW s \in Servers, Check(s) PROVE LockInvariant' /\ NoConflict'
  <2>1. pc[s] = "check" /\ lock = s /\ lock' = lock /\ listed' = listed
    BY <1>2, <1>b DEF Check, Go, Holding
  <2>2. \A r \in Servers \ {s} : pc'[r] = pc[r] /\ at'[r] = at[r]
    BY ZenonT(60), <1>2 DEF Check, Go
  <2>3. pc'[s] \in {"apply", "check", "unlock"}
    BY <1>2 DEF Check, Go
  <2>4. pc'[s] \in {"check", "apply"} => 1..(at'[s] - 1) \subseteq listed
    <3>1. 1..(at[s] - 1) \subseteq listed
      BY <2>1
    <3>2. at'[s] = at[s] \/ (at[s] \in listed /\ at'[s] = at[s] + 1)
      BY <1>2 DEF Check
    <3> QED  BY SMTT(60), Z3T(60), <1>a, <3>1, <3>2
  <2>5. pc'[s] = "apply" => at'[s] \in All \ listed
    BY <1>2 DEF Check, Go
  <2> QED  BY ZenonT(60), <2>1, <2>2, <2>3, <2>4, <2>5
<1>3. ASSUME NEW s \in Servers, Apply(s) PROVE LockInvariant' /\ NoConflict'
  <2>1. pc[s] = "apply" /\ lock = s /\ lock' = lock /\ at[s] \notin listed
    BY <1>3, <1>b DEF Apply, Go, Holding
  <2>2. /\ pc'[s] = "check" /\ at'[s] = at[s] + 1
        /\ listed' = listed \cup {at[s]}
        /\ \A r \in Servers \ {s} : pc'[r] = pc[r] /\ at'[r] = at[r]
    BY SMTT(60), Z3T(60), <1>3, <2>1 DEF Apply, Go, Commit
  <2>3. 1..(at'[s] - 1) \subseteq listed'
    BY SMTT(60), Z3T(60), <1>a, <2>1, <2>2
  <2>4. \A r \in Servers \ {s} : pc[r] \notin Holding
    BY <1>c, <2>1
  <2> QED  BY ZenonT(60), <2>1, <2>2, <2>3, <2>4 DEF Holding
<1>4. ASSUME NEW s \in Servers, Fail(s) PROVE LockInvariant' /\ NoConflict'
  <2>1. pc[s] \in {"check", "apply"} /\ lock = s /\ lock' = lock
    BY <1>4, <1>b DEF Fail, Go, Holding
  <2>2. pc'[s] = "abort" /\ \A r \in Servers \ {s} : pc'[r] = pc[r]
    BY ZenonT(60), <1>4 DEF Fail, Go
  <2>3. \A r \in Servers \ {s} : pc[r] \notin Holding
    BY <1>c, <2>1
  <2> QED  BY ZenonT(60), <2>1, <2>2, <2>3 DEF Holding
<1>5. ASSUME NEW s \in Servers, Unlock(s) PROVE LockInvariant' /\ NoConflict'
  <2>1. lock = s
    BY <1>5, <1>b DEF Unlock, Go, Holding
  <2>2. pc'[s] \in {"done", "failed"} /\ \A r \in Servers \ {s} : pc'[r] = pc[r]
    BY ZenonT(60), <1>5 DEF Unlock, Go
  <2>3. \A r \in Servers \ {s} : pc[r] \notin Holding
    BY <1>c, <2>1
  <2> QED  BY ZenonT(60), <1>5, <2>2, <2>3 DEF Unlock, Holding
<1>6. ASSUME NEW s \in Servers, GiveUp(s) PROVE LockInvariant' /\ NoConflict'
  BY ZenonT(60), <1>6 DEF GiveUp, Go
<1>7. ASSUME NEW s \in Servers, Restart(s) PROVE LockInvariant' /\ NoConflict'
  <2>1. pc'[s] = "start" /\ \A r \in Servers \ {s} : pc'[r] = pc[r]
    BY <1>7 DEF Restart
  <2> QED  BY ZenonT(60), <1>7, <2>1 DEF Restart
<1>8. CASE UNCHANGED vars
  BY <1>8 DEF vars
<1> QED
  BY <1>1, <1>2, <1>3, <1>4, <1>5, <1>6, <1>7, <1>8 DEF Next, Terminated

\* A step leaves schema and schema_migrations alone, or adds one migration to both,
\* the first that is not listed.
LEMMA TablesStep ==
    MigrationInvariant /\ [Next]_vars =>
        \/ UNCHANGED <<listed, schema>>
        \/ \E m \in All \ listed : /\ 1..(m - 1) \subseteq listed
                                   /\ listed' = listed \cup {m}
                                   /\ schema' = [schema EXCEPT ![m] = @ + 1]
<1> SUFFICES ASSUME MigrationInvariant, [Next]_vars,
                    ~UNCHANGED <<listed, schema>>
             PROVE  \E m \in All \ listed : /\ 1..(m - 1) \subseteq listed
                                            /\ listed' = listed \cup {m}
                                            /\ schema' = [schema EXCEPT ![m] = @ + 1]
  OBVIOUS
<1>1. PICK s \in Servers : Apply(s) \/ Fail(s)
  BY DEF Next, Lock, Check, Unlock, GiveUp, Restart, Terminated, vars
<1>2. pc[s] = "apply" /\ Commit(s)
  BY <1>1 DEF Apply, Fail, Go
<1>3. at[s] \in All \ listed /\ 1..(at[s] - 1) \subseteq listed
  BY <1>2 DEF MigrationInvariant, LockInvariant
<1> QED  BY ZenonT(60), <1>2, <1>3 DEF Commit

\* The conjunction is inductive.
THEOREM MigrationsAreSafe == Spec => []MigrationInvariant
<1>1. Init => MigrationInvariant
  BY SMTT(60), Z3T(60) DEF Init, MigrationInvariant, TypeOK, PCs, All, LockInvariant, NoConflict, ExactlyOnce,
         AppliedInOrder
<1>2. MigrationInvariant /\ [Next]_vars => MigrationInvariant'
  <2> SUFFICES ASSUME MigrationInvariant, [Next]_vars PROVE MigrationInvariant'
    OBVIOUS
  <2>1. ExactlyOnce' /\ AppliedInOrder'
    <3> USE DEF MigrationInvariant, ExactlyOnce, AppliedInOrder, TypeOK
    <3>1. CASE UNCHANGED <<listed, schema>>
      BY <3>1
    <3>2. ASSUME NEW m \in All \ listed, 1..(m - 1) \subseteq listed,
                 listed' = listed \cup {m}, schema' = [schema EXCEPT ![m] = @ + 1]
          PROVE  ExactlyOnce' /\ AppliedInOrder'
      <4>1. m \in Nat /\ \A i \in 1..m : i = m \/ i \in 1..(m - 1)
        BY SMTT(60), Z3T(60) DEF All
      <4>2. AppliedInOrder'
        BY <3>2, <4>1
      <4>3. ExactlyOnce'
        BY SMTT(60), Z3T(60), <3>2
      <4> QED  BY <4>2, <4>3
    <3> QED  BY <3>1, <3>2, TablesStep
  <2> QED  BY <2>1, TypeStep, LockStep DEF MigrationInvariant
<1> QED  BY <1>1, <1>2, PTL DEF Spec

\* The lock, the tables and the place of every server in Migrate keep their types, through
\* any failures and restarts.
THEOREM TypeCorrect == Spec => []TypeOK
BY MigrationsAreSafe, PTL DEF MigrationInvariant

\* database.go:48-50: every migration is committed together with its row and never
\* again, by any number of servers that start, fail and start again.
THEOREM MigratedOnce == Spec => []ExactlyOnce
BY MigrationsAreSafe, PTL DEF MigrationInvariant

\* Two servers never apply the same migration: no transaction of Migrate meets what
\* another has made.
THEOREM NoRace == Spec => []NoConflict
BY MigrationsAreSafe, PTL DEF MigrationInvariant

\* The versions listed at any time are an initial part of migrations.All.
THEOREM InOrder == Spec => []AppliedInOrder
BY MigrationsAreSafe, PTL DEF MigrationInvariant
================================================================================
