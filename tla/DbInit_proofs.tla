----------------------------- MODULE DbInit_proofs -----------------------------
(***************************************************************************)
(* Proofs about DbInit, for any number of instances, inodes and crashes.    *)
(* Nothing here depends on the lock: whatever inodes the lock files have,   *)
(* the order of the statements and the overlapped and torn marks suffice.   *)
(***************************************************************************)
EXTENDS DbInit, TLAPS

\* The objects the first k - 1 statements of the script create.
Created(k) == {Script[j] : j \in 1 .. k - 1}

\* user_version tells the truth, and a script has made what it went past.
Migrated ==
  /\ userVersion = 1 => schema = ToSet(Script)
  /\ \A p \in Procs :
       /\ pc[p] \in {"unlock", "unlink", "ready"} => userVersion = 1
       /\ pc[p] = "script" => Created(at[p]) \subseteq schema
       /\ pc[p] # "script" => at[p] = 1

\* Two instances in the locked part are noticed. Before that, and before a
\* crash inside the script, a database without a version is empty, but for
\* what the one running script has made.
Unharmed ==
  /\ ~overlapped => \A p, q \in Procs : pc[p] \in Locked /\ pc[q] \in Locked => p = q
  /\ ~overlapped /\ ~torn =>
       /\ \A p \in Procs :
            pc[p] = "script" => userVersion = 0 /\ schema = Created(at[p])
       /\ (userVersion = 0 /\ \A p \in Procs : pc[p] # "script") => schema = {}

IInv == TypeOK /\ Migrated /\ Unharmed /\ FailureHasACause

LEMMA ScriptFacts ==
  /\ Len(Script) = 2
  /\ Script[1] = "files_fts" /\ Script[2] = "triggers"
  /\ ToSet(Script) = {"files_fts", "triggers"}
  /\ Created(1) = {}
  /\ Created(2) = {"files_fts"}
  /\ Created(3) = {"files_fts", "triggers"}
<1>1. Len(Script) = 2 /\ DOMAIN Script = 1 .. 2
  BY DEF Script
<1>2. Script[1] = "files_fts" /\ Script[2] = "triggers"
  BY DEF Script
<1>3. ToSet(Script) = {"files_fts", "triggers"}
  BY <1>1, <1>2, 1 .. 2 = {1, 2} DEF ToSet
<1>4. Created(1) = {}
  BY 1 .. 0 = {} DEF Created
<1>5. Created(2) = {"files_fts"}
  BY <1>2, 1 .. 1 = {1} DEF Created
<1>6. Created(3) = {"files_fts", "triggers"}
  BY <1>2, 1 .. 2 = {1, 2} DEF Created
<1> QED
  BY <1>1, <1>2, <1>3, <1>4, <1>5, <1>6

LEMMA InitIInv == Init => IInv
<1> SUFFICES ASSUME Init PROVE IInv
  OBVIOUS
<1> USE ScriptFacts
<1>1. TypeOK
  <2>1. at \in [Procs -> 1 .. Len(Script) + 1]
    <3>1. 1 \in 1 .. Len(Script) + 1
      OBVIOUS
    <3> QED
      BY <3>1 DEF Init
  <2>2. pc \in [Procs -> Pcs]
    BY DEF Init, Pcs
  <2>3. userVersion \in {0, 1} /\ schema \in SUBSET ToSet(Script)
    BY DEF Init
  <2>4. torn \in BOOLEAN /\ overlapped \in BOOLEAN
    BY DEF Init
  <2> QED
    BY <2>1, <2>2, <2>3, <2>4 DEF TypeOK
<1>2. Migrated
  BY DEF Init, Migrated
<1>3. Unharmed
  BY DEF Init, Unharmed, Locked
<1>4. FailureHasACause
  BY DEF Init, FailureHasACause
<1> QED
  BY <1>1, <1>2, <1>3, <1>4 DEF IInv

\* What a step does to the instances other than p.
LEMMA GotoFacts ==
  ASSUME TypeOK, NEW p \in Procs, NEW to \in Pcs, Goto(p, to)
  PROVE  /\ pc' \in [Procs -> Pcs]
         /\ pc'[p] = to
         /\ \A q \in Procs : q # p => pc'[q] = pc[q]
BY DEF TypeOK, Goto

\* A step that moves one instance and leaves the database, the script
\* positions and the marks alone.
LEMMA Moves ==
  ASSUME IInv, NEW p \in Procs, NEW to \in Pcs, Goto(p, to),
         UNCHANGED <<at, dbVars, torn, overlapped>>,
         pc[p] # "script",
         to = "script" => userVersion = 0 /\ pc[p] \in Locked,
         to \in {"unlock", "unlink", "ready"} => userVersion = 1,
         to \in Locked => pc[p] \in Locked,
         to \in {"unlock_failed", "unlink_failed", "failed"} =>
           overlapped \/ torn
  PROVE  IInv'
<1> USE ScriptFacts, GotoFacts DEF dbVars
<1>0. TypeOK /\ Migrated /\ Unharmed /\ FailureHasACause
  BY DEF IInv
<1>1. TypeOK'
  BY <1>0 DEF TypeOK
<1>2. Migrated'
  BY <1>0 DEF Migrated, TypeOK
<1>3. Unharmed'
  <2>1. ASSUME ~overlapped
        PROVE  \A q, r \in Procs : pc'[q] \in Locked /\ pc'[r] \in Locked => q = r
    BY <1>0, <2>1 DEF Unharmed
  <2>2. ASSUME ~overlapped, ~torn, NEW q \in Procs, pc'[q] = "script"
        PROVE  userVersion = 0 /\ schema = Created(at[q])
    <3>1. CASE q # p
      BY <1>0, <2>2, <3>1 DEF Unharmed
    <3>2. CASE q = p
      <4>1. userVersion = 0 /\ pc[p] \in Locked
        BY <2>2, <3>2, <1>0
      <4>2. \A r \in Procs : pc[r] # "script"
        BY <4>1, <1>0, <2>2 DEF Unharmed, Locked
      <4>3. schema = {} /\ at[q] = 1
        BY <4>1, <4>2, <3>2, <1>0, <2>2 DEF Unharmed, Migrated
      <4> QED
        BY <4>1, <4>3
    <3> QED
      BY <3>1, <3>2
  <2>3. ASSUME ~overlapped, ~torn, userVersion = 0,
               \A q \in Procs : pc'[q] # "script"
        PROVE  schema = {}
    BY <1>0, <2>3 DEF Unharmed
  <2> QED
    BY <2>1, <2>2, <2>3 DEF Unharmed
<1>4. FailureHasACause'
  BY <1>0 DEF FailureHasACause
<1> QED
  BY <1>1, <1>2, <1>3, <1>4 DEF IInv

-----------------------------------------------------------------------------
LEMMA NextIInv == IInv /\ [Next]_vars => IInv'
<1> SUFFICES ASSUME IInv, [Next]_vars PROVE IInv'
  OBVIOUS
<1> USE ScriptFacts
<1>0. TypeOK /\ Migrated /\ Unharmed /\ FailureHasACause
  BY DEF IInv
<1>1. CASE UNCHANGED vars
  BY <1>0, <1>1 DEF vars, lockVars, dbVars, history,
     IInv, TypeOK, Migrated, Unharmed, FailureHasACause
<1> SUFFICES ASSUME NEW p \in Procs,
                    Clean(p) \/ InitStep(p) \/ Exit(p) \/ Crash(p)
             PROVE  IInv'
  BY <1>1 DEF Next
<1> USE DEF dbVars, lockVars, history
<1>2. CASE Clean(p)
  BY <1>2, Moves DEF Clean, Locked, Pcs, Starting
<1>3. CASE Open(p)
  BY <1>3, Moves DEF Open, Locked, Pcs, Starting
<1>4. CASE Flock(p)
  <2>1. TypeOK'
    BY <1>0, <1>4, GotoFacts DEF Flock, TypeOK, Pcs, Starting, Locked
  <2>2. Migrated'
    BY <1>0, <1>4 DEF Flock, Migrated, TypeOK, Goto
  <2>3. ASSUME ~overlapped'
        PROVE  /\ ~overlapped
               /\ \A q \in Procs : pc[q] \notin Locked
    BY <1>4, <2>3 DEF Flock
  <2>4. Unharmed'
    <3>1. ASSUME ~overlapped'
          PROVE  \A q, r \in Procs : pc'[q] \in Locked /\ pc'[r] \in Locked => q = r
      BY <1>0, <1>4, <2>3, <3>1 DEF Flock, TypeOK, Goto
    <3>2. ASSUME ~overlapped', ~torn', NEW q \in Procs
          PROVE  pc[q] # "script" /\ pc'[q] # "script"
      BY <1>0, <1>4, <2>3, <3>2 DEF Flock, TypeOK, Goto, Locked
    <3>3. ASSUME ~overlapped', ~torn', userVersion' = 0
          PROVE  schema' = {}
      BY <1>0, <1>4, <2>3, <3>2, <3>3 DEF Flock, Unharmed
    <3> QED
      BY <3>1, <3>2, <3>3 DEF Unharmed
  <2>5. FailureHasACause'
    BY <1>0, <1>4 DEF Flock, FailureHasACause, TypeOK, Goto
  <2> QED
    BY <2>1, <2>2, <2>4, <2>5 DEF IInv
<1>5. CASE Bootstrap(p)
  <2>1. CASE Goto(p, "tables")
    BY <1>5, <2>1, Moves DEF Bootstrap, Locked, Pcs, Starting
  <2>2. CASE Goto(p, "unlock_failed") /\ \E q \in Procs \ {p} : pc[q] \in Locked
    <3>1. overlapped
      BY <1>0, <1>5, <2>2 DEF Bootstrap, Unharmed, Locked
    <3> QED
      BY <1>5, <2>2, <3>1, Moves DEF Bootstrap, Locked, Pcs, Starting
  <2> QED
    BY <1>5, <2>1, <2>2 DEF Bootstrap
<1>6. CASE Tables(p)
  <2>1. userVersion < 1 <=> userVersion = 0
    BY <1>0 DEF TypeOK
  <2>2. userVersion # 0 => userVersion = 1
    BY <1>0 DEF TypeOK
  <2> QED
    BY <1>6, <2>1, <2>2, Moves DEF Tables, Locked, Pcs, Starting
<1>7. CASE ScriptStatement(p)
  <2>0. at[p] \in {1, 2, 3} /\ Created(at[p]) \subseteq schema /\ pc[p] = "script"
    BY <1>0, <1>7 DEF ScriptStatement, TypeOK, Migrated
  <2>1. CASE at[p] > Len(Script) /\ userVersion' = 1 /\ Goto(p, "unlock")
             /\ at' = [at EXCEPT ![p] = 1] /\ UNCHANGED schema
    <3>1. at[p] = 3 /\ schema = ToSet(Script)
      BY <1>0, <2>0, <2>1 DEF TypeOK
    <3>2. /\ pc'[p] = "unlock" /\ at'[p] = 1
          /\ \A q \in Procs : q # p => pc'[q] = pc[q] /\ at'[q] = at[q]
      BY <1>0, <2>1 DEF TypeOK, Goto
    <3>3. TypeOK'
      BY <1>0, <1>7, <2>1 DEF ScriptStatement, TypeOK, Goto, Pcs, Starting, Locked
    <3>4. Migrated'
      BY <1>0, <2>1, <3>1, <3>2 DEF Migrated
    <3>5. Unharmed'
      BY <1>0, <1>7, <2>0, <2>1, <3>2 DEF ScriptStatement, Unharmed, Locked
    <3>6. FailureHasACause'
      BY <1>0, <1>7, <3>2 DEF ScriptStatement, FailureHasACause
    <3> QED
      BY <3>3, <3>4, <3>5, <3>6 DEF IInv
  <2>2. CASE at[p] <= Len(Script) /\ Script[at[p]] \notin schema
             /\ schema' = schema \cup {Script[at[p]]}
             /\ at' = [at EXCEPT ![p] = @ + 1]
             /\ UNCHANGED <<pc, userVersion>>
    <3>1. /\ at'[p] = at[p] + 1 /\ at'[p] \in 1 .. Len(Script) + 1
          /\ \A q \in Procs : q # p => at'[q] = at[q]
      BY <1>0, <2>0, <2>2 DEF TypeOK
    <3>2. Script[at[p]] \in ToSet(Script)
      BY <2>0, <2>2
    <3>3. Created(at'[p]) = Created(at[p]) \cup {Script[at[p]]}
      BY <2>0, <2>2, <3>1
    <3>4. TypeOK'
      BY <1>0, <1>7, <2>2, <3>1, <3>2 DEF ScriptStatement, TypeOK
    <3>5. Migrated'
      BY <1>0, <2>0, <2>2, <3>1, <3>2, <3>3 DEF Migrated, TypeOK
    <3>6. Unharmed'
      BY <1>0, <1>7, <2>0, <2>2, <3>1, <3>3 DEF ScriptStatement, Unharmed, Locked
    <3>7. FailureHasACause'
      BY <1>0, <1>7, <2>2 DEF ScriptStatement, FailureHasACause
    <3> QED
      BY <3>4, <3>5, <3>6, <3>7 DEF IInv
  <2>3. CASE at[p] <= Len(Script) /\ Script[at[p]] \in schema
             /\ Goto(p, "unlock_failed") /\ at' = [at EXCEPT ![p] = 1]
             /\ UNCHANGED <<schema, userVersion>>
    <3>1. overlapped \/ torn
      <4> SUFFICES ASSUME ~overlapped, ~torn PROVE FALSE
        OBVIOUS
      <4>1. schema = Created(at[p])
        BY <1>0, <2>0 DEF Unharmed
      <4> QED
        BY <2>0, <2>3, <4>1
    <3>2. /\ pc'[p] = "unlock_failed" /\ at'[p] = 1
          /\ \A q \in Procs : q # p => pc'[q] = pc[q] /\ at'[q] = at[q]
      BY <1>0, <2>3 DEF TypeOK, Goto
    <3>3. TypeOK'
      BY <1>0, <1>7, <2>3 DEF ScriptStatement, TypeOK, Goto, Pcs, Starting, Locked
    <3>4. Migrated'
      BY <1>0, <2>3, <3>2 DEF Migrated
    <3>5. Unharmed'
      BY <1>0, <1>7, <2>0, <2>3, <3>1, <3>2 DEF ScriptStatement, Unharmed, Locked
    <3>6. FailureHasACause'
      BY <1>0, <1>7, <3>1 DEF ScriptStatement, FailureHasACause
    <3> QED
      BY <3>3, <3>4, <3>5, <3>6 DEF IInv
  <2> QED
    BY <1>7, <2>1, <2>2, <2>3 DEF ScriptStatement
<1>8. CASE Unlock(p)
  <2>1. CASE pc[p] = "unlock"
    BY <1>0, <1>8, <2>1, Moves DEF Unlock, Locked, Pcs, Starting, Migrated
  <2>2. CASE pc[p] = "unlock_failed"
    BY <1>0, <1>8, <2>2, Moves DEF Unlock, Locked, Pcs, Starting, FailureHasACause
  <2> QED
    BY <1>8, <2>1, <2>2 DEF Unlock
<1>9. CASE Unlink(p)
  <2>1. CASE pc[p] = "unlink"
    BY <1>0, <1>9, <2>1, Moves DEF Unlink, Locked, Pcs, Starting, Migrated
  <2>2. CASE pc[p] = "unlink_failed"
    BY <1>0, <1>9, <2>2, Moves DEF Unlink, Locked, Pcs, Starting, FailureHasACause
  <2> QED
    BY <1>9, <2>1, <2>2 DEF Unlink
<1>10. CASE Exit(p)
  BY <1>10, Moves DEF Exit, Locked, Pcs, Starting
<1>11. CASE Crash(p)
  <2>1. /\ pc'[p] = "idle" /\ at'[p] = 1
        /\ \A q \in Procs : q # p => pc'[q] = pc[q] /\ at'[q] = at[q]
    BY <1>0, <1>11 DEF Crash, TypeOK, Goto
  <2>2. TypeOK'
    BY <1>0, <1>11 DEF Crash, TypeOK, Goto, Pcs
  <2>3. Migrated'
    BY <1>0, <1>11, <2>1 DEF Crash, Migrated
  <2>4. ASSUME ~overlapped', ~torn', pc[p] = "script"
        PROVE  schema' = {}
    <3>1. at[p] \in {1, 2, 3}
      BY <1>0 DEF TypeOK
    <3>2. ~overlapped /\ ~torn /\ ~(at[p] > 1)
      <4>1. torn' = (torn \/ (pc[p] = "script" /\ at[p] > 1))
        BY <1>11 DEF Crash
      <4>2. UNCHANGED overlapped
        BY <1>11 DEF Crash
      <4> QED
        BY <2>4, <4>1, <4>2, Zenon
    <3> QED
      BY <1>0, <1>11, <2>4, <3>1, <3>2 DEF Crash, Unharmed
  <2>5. Unharmed'
    <3>1. ASSUME ~overlapped'
          PROVE  \A q, r \in Procs : pc'[q] \in Locked /\ pc'[r] \in Locked => q = r
      BY <1>0, <1>11, <2>1, <3>1 DEF Crash, Unharmed, Locked
    <3>2. ASSUME ~overlapped', ~torn', NEW q \in Procs, pc'[q] = "script"
          PROVE  userVersion' = 0 /\ schema' = Created(at'[q])
      BY <1>0, <1>11, <2>1, <3>2 DEF Crash, Unharmed
    <3>3. ASSUME ~overlapped', ~torn', userVersion' = 0,
                 \A q \in Procs : pc'[q] # "script"
          PROVE  schema' = {}
      BY <1>0, <1>11, <2>1, <2>4, <3>3 DEF Crash, Unharmed
    <3> QED
      BY <3>1, <3>2, <3>3 DEF Unharmed
  <2>6. FailureHasACause'
    BY <1>0, <1>11, <2>1 DEF Crash, FailureHasACause
  <2> QED
    BY <2>2, <2>3, <2>5, <2>6 DEF IInv
<1> QED
  BY <1>2, <1>3, <1>4, <1>5, <1>6, <1>7, <1>8, <1>9, <1>10, <1>11 DEF InitStep

THEOREM InductiveInvariant == Spec => []IInv
<1> QED
  BY InitIInv, NextIInv, PTL DEF Spec

\* Types: in particular the script never goes on past its end.
THEOREM StartTypes == Spec => []TypeOK
<1>1. IInv => TypeOK
  BY DEF IInv
<1> QED
  BY <1>1, InductiveInvariant, PTL

\* Whoever comes out of __init__ without an error uses a complete schema.
THEOREM ReadyIsMigrated == Spec => []ReadyMeansMigrated
<1>1. IInv => ReadyMeansMigrated
  BY DEF IInv, Migrated, ReadyMeansMigrated
<1> QED
  BY <1>1, InductiveInvariant, PTL

\* __init__ raises only after an overlap or a crash inside the script.
THEOREM FailuresAreCaused == Spec => []FailureHasACause
<1>1. IInv => FailureHasACause
  BY DEF IInv
<1> QED
  BY <1>1, InductiveInvariant, PTL
=============================================================================
