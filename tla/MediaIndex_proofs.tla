-------------------------- MODULE MediaIndex_proofs --------------------------
(* A machine-checked proof that the scanner does not miss a change for good, for *)
(* any number of files, changes and scanner threads. The inductive invariant     *)
(* follows a stamp that a row or a thread remembers to the file that has it now:  *)
(* that file has the content remembered with the stamp, or it has left the path.  *)
EXTENDS MediaIndex, TLAPS

\* The files table: each entry has the columns of a row.
RowsAreRows ==
  /\ rows = [p \in Paths |-> rows[p]]
  /\ \A p \in Listed :
       rows[p] = [rowid |-> rows[p].rowid, id |-> rows[p].id, sha |-> rows[p].sha, stamp |-> rows[p].stamp]

\* Every write gives its file a new stamp.
StampsAreUnique ==
  /\ \A p \in Paths : disk[p] # None => disk[p].stamp <= changes
  /\ \A p, q \in Paths :
       disk[p] # None /\ disk[q] # None /\ disk[p].stamp = disk[q].stamp => p = q

\* The file with the stamp that a thread read at p is there or was there.
SeenAt(p, stamp) ==
  /\ stamp <= changes
  /\ \A q \in Paths : disk[q] # None /\ disk[q].stamp = stamp => q = p \/ p \in been[q]

\* The file with a stamp that was read at p before the hash was made has that
\* hash, or has left p.
Agrees(p, stamp, hash) ==
  /\ stamp <= changes
  /\ hash # p => \A q \in Paths :
       disk[q] # None /\ disk[q].stamp = stamp => disk[q].content = hash \/ (q # p /\ p \in been[q])

JobsAgree ==
  \A w \in Workers :
    /\ pc[w] = "hash" => SeenAt(job[w].path, job[w].stamp)
    /\ pc[w] = "upsert" => Agrees(job[w].path, job[w].stamp, job[w].hash)

RowsAgree == \A p \in Listed : rows[p].stamp \in Nat /\ Agrees(p, rows[p].stamp, rows[p].sha)

TypesOK == TypeOK /\ RowsAreRows
AllAgree == StampsAreUnique /\ JobsAgree /\ RowsAgree
IInv == TypesOK /\ (~returned => AllAgree)

LEMMA InitInv == Init => IInv
<1> SUFFICES ASSUME Init
             PROVE  IInv
  OBVIOUS
<1>1. TypeOK
  BY DEF Init, TypeOK, NoJob, Busy
<1>2. RowsAreRows /\ RowsAgree
  BY DEF Init, RowsAreRows, RowsAgree, Listed
<1>3. StampsAreUnique /\ JobsAgree
  BY DEF Init, StampsAreUnique, JobsAgree
<1> QED BY <1>1, <1>2, <1>3 DEF IInv, TypesOK, AllAgree

-----------------------------------------------------------------------------
(* The disk changes. *)

\* What a change of the disk may do to the files that have an earlier stamp.
FollowsFiles ==
  \A p \in Paths : disk'[p] # None =>
    \/ disk'[p].stamp = changes + 1
    \/ /\ disk[p] # None /\ disk'[p] = disk[p] /\ been'[p] = been[p]
    \/ \E q \in Paths \ {p} :
         /\ disk[q] # None /\ disk'[p] = disk[q] /\ been'[p] = been[q] \cup {q} /\ p \notin been[q]

LEMMA AgreesFollows ==
  ASSUME TypesOK, FollowsFiles, changes' = changes + 1,
         NEW p \in Paths, NEW stamp \in Nat, NEW hash
  PROVE  /\ SeenAt(p, stamp) => SeenAt(p, stamp)'
         /\ Agrees(p, stamp, hash) => Agrees(p, stamp, hash)'
<1>1. changes \in Nat
  BY DEF TypesOK, TypeOK
<1>2. SeenAt(p, stamp) => SeenAt(p, stamp)'
  BY <1>1 DEF FollowsFiles, SeenAt
<1>3. ASSUME Agrees(p, stamp, hash), hash # p, NEW q \in Paths, disk'[q] # None, disk'[q].stamp = stamp
      PROVE  disk'[q].content = hash \/ (q # p /\ p \in been'[q])
  <2>1. stamp <= changes /\ disk'[q].stamp # changes + 1
    BY <1>1, <1>3 DEF Agrees
  <2>2. CASE disk[q] # None /\ disk'[q] = disk[q] /\ been'[q] = been[q]
    BY <1>3, <2>2 DEF Agrees
  <2>3. CASE \E r \in Paths \ {q} :
               /\ disk[r] # None /\ disk'[q] = disk[r] /\ been'[q] = been[r] \cup {r} /\ q \notin been[r]
    <3>1. PICK r \in Paths \ {q} :
            /\ disk[r] # None /\ disk'[q] = disk[r] /\ been'[q] = been[r] \cup {r} /\ q \notin been[r]
      BY <2>3
    <3>2. disk[r].content = hash \/ (r # p /\ p \in been[r])
      BY <1>3, <3>1 DEF Agrees
    <3> QED BY <3>1, <3>2
  <2> QED BY <1>3, <2>1, <2>2, <2>3 DEF FollowsFiles
<1>4. Agrees(p, stamp, hash) => Agrees(p, stamp, hash)'
  BY <1>1, <1>3 DEF Agrees
<1> QED BY <1>2, <1>4

LEMMA DiskKeeps ==
  ASSUME TypesOK, AllAgree, TypeOK', FollowsFiles, StampsAreUnique', changes' = changes + 1,
         UNCHANGED <<tableVars, workerVars, cleanVars>>
  PROVE  AllAgree'
<1>1. JobsAgree'
  <2> SUFFICES ASSUME NEW w \in Workers
               PROVE  /\ pc[w] = "hash" => SeenAt(job[w].path, job[w].stamp)'
                      /\ pc[w] = "upsert" => Agrees(job[w].path, job[w].stamp, job[w].hash)'
    BY DEF JobsAgree, workerVars
  <2>1. UNCHANGED <<job, pc>>
    BY DEF workerVars
  <2>2. pc[w] \in {"hash", "upsert"} => job[w].path \in Paths /\ job[w].stamp \in Nat
    BY DEF TypesOK, TypeOK, Busy
  <2>3. CASE pc[w] = "hash"
    <3> DEFINE p == job[w].path
               t == job[w].stamp
    <3>1. SeenAt(p, t) /\ p' = p /\ t' = t /\ p \in Paths /\ t \in Nat
      BY <2>1, <2>2, <2>3 DEF AllAgree, JobsAgree
    <3>2. PICK k \in Paths, u \in Nat : k = p /\ u = t
      BY <3>1
    <3>3. SeenAt(k, u)'
      BY <3>1, <3>2, AgreesFollows
    <3> QED BY <2>3, <3>1, <3>2, <3>3 DEF SeenAt
  <2>4. CASE pc[w] = "upsert"
    <3> DEFINE p == job[w].path
               t == job[w].stamp
               h == job[w].hash
    <3>1. Agrees(p, t, h) /\ p' = p /\ t' = t /\ h' = h /\ p \in Paths /\ t \in Nat
      BY <2>1, <2>2, <2>4 DEF AllAgree, JobsAgree
    <3>2. \E k \in Paths, u \in Nat : \E g \in {h} : k = p /\ u = t
      BY <3>1
    <3>3. PICK k \in Paths, u \in Nat : \E g \in {h} : k = p /\ u = t
      BY <3>2
    <3>4. PICK g : g = h
      OBVIOUS
    <3>5. Agrees(k, u, g)'
      BY <3>1, <3>3, <3>4, AgreesFollows
    <3> QED BY <2>4, <3>1, <3>3, <3>4, <3>5 DEF Agrees
  <2> QED BY <2>3, <2>4
<1>2. RowsAgree'
  <2> SUFFICES ASSUME NEW p \in Listed
               PROVE  rows[p].stamp \in Nat /\ Agrees(p, rows[p].stamp, rows[p].sha)'
    BY DEF tableVars, RowsAgree, Listed
  <2>1. p \in Paths /\ rows' = rows /\ rows[p].stamp \in Nat /\ Agrees(p, rows[p].stamp, rows[p].sha)
    BY DEF tableVars, AllAgree, RowsAgree, Listed
  <2>2. PICK u \in Nat : u = rows[p].stamp
    BY <2>1
  <2>3. PICK g : g = rows[p].sha
    OBVIOUS
  <2>4. Agrees(p, u, g)'
    BY <2>1, <2>2, <2>3, AgreesFollows
  <2> QED BY <2>1, <2>2, <2>3, <2>4 DEF Agrees
<1> QED BY <1>1, <1>2 DEF AllAgree

LEMMA ChangeInv ==
  ASSUME IInv, NEW p \in Paths, NEW c \in Contents, NEW q \in Paths, Write(p, c) \/ Move(p, q) \/ Delete(p)
  PROVE  IInv'
<1>1. changes' = changes + 1 /\ changes \in Nat /\ UNCHANGED <<tableVars, workerVars, cleanVars>>
  BY DEF Write, Move, Delete, Change, IInv, TypesOK, TypeOK
<1>2. TypesOK'
  <2>1. TypeOK'
    <3> DEFINE Files == [content : Contents, stamp : Nat] \cup {None}
    <3>1. disk \in [Paths -> Files] /\ been \in [Paths -> SUBSET Paths] /\ returned \in BOOLEAN
      BY DEF IInv, TypesOK, TypeOK
    <3>2. CASE Write(p, c)
      <4>1. [content |-> c, stamp |-> changes'] \in Files
        BY <1>1
      <4> QED
        BY <1>1, <3>1, <3>2, <4>1 DEF Write, IInv, TypesOK, TypeOK, workerVars, cleanVars
    <3>3. CASE Move(p, q)
      <4>1. /\ disk' = [disk EXCEPT ![p] = None, ![q] = disk[p]] /\ disk[p] \in Files
            /\ been' = [been EXCEPT ![p] = {}, ![q] = been[p] \cup {p}] /\ been[p] \cup {p} \in SUBSET Paths
            /\ returned' \in BOOLEAN
        BY <3>1, <3>3 DEF Move
      <4>2. disk' \in [Paths -> Files] /\ been' \in [Paths -> SUBSET Paths]
        BY <3>1, <4>1
      <4> QED BY <1>1, <4>1, <4>2 DEF IInv, TypesOK, TypeOK, workerVars, cleanVars
    <3>4. CASE Delete(p)
      BY <1>1, <3>1, <3>4 DEF Delete, IInv, TypesOK, TypeOK, workerVars, cleanVars
    <3> QED BY <3>2, <3>3, <3>4
  <2>2. RowsAreRows'
    BY <1>1 DEF tableVars, IInv, TypesOK, RowsAreRows, Listed
  <2> QED BY <2>1, <2>2 DEF TypesOK
<1>3. ASSUME ~returned'
      PROVE  AllAgree'
  <2>1. ~returned /\ AllAgree
    BY <1>3 DEF Write, Move, Delete, IInv, TypesOK, TypeOK
  <2>2. FollowsFiles
    <3>1. /\ disk \in [Paths -> [content : Contents, stamp : Nat] \cup {None}]
          /\ been \in [Paths -> SUBSET Paths]
      BY DEF IInv, TypesOK, TypeOK
    <3>2. CASE Write(p, c)
      <4>1. /\ disk'[p] = [content |-> c, stamp |-> changes + 1]
            /\ \A r \in Paths \ {p} : disk'[r] = disk[r] /\ been'[r] = been[r]
        BY <1>1, <3>1, <3>2 DEF Write
      <4> QED BY <4>1 DEF FollowsFiles
    <3>3. CASE Move(p, q)
      <4>1. /\ p # q /\ disk[p] # None /\ disk'[p] = None /\ disk'[q] = disk[p]
            /\ been'[q] = been[p] \cup {p} /\ q \notin been[p]
            /\ \A r \in Paths \ {p, q} : disk'[r] = disk[r] /\ been'[r] = been[r]
        BY <1>3, <3>1, <3>3 DEF Move
      <4> QED BY <4>1 DEF FollowsFiles
    <3>4. CASE Delete(p)
      BY <3>1, <3>4 DEF Delete, FollowsFiles
    <3> QED BY <3>2, <3>3, <3>4
  <2>3. StampsAreUnique'
    BY <1>1, <2>1 DEF Write, Move, Delete, IInv, TypesOK, TypeOK, AllAgree, StampsAreUnique
  <2> QED BY <1>1, <1>2, <2>1, <2>2, <2>3, DiskKeeps DEF IInv, TypesOK
<1> QED BY <1>2, <1>3 DEF IInv

-----------------------------------------------------------------------------
(* The scanner and the tables. *)

\* Steps that leave the disk alone keep what a thread or a row agrees with.
LEMMA AgreesStays ==
  ASSUME UNCHANGED diskVars, NEW p, NEW stamp, NEW hash
  PROVE  /\ SeenAt(p, stamp)' = SeenAt(p, stamp) /\ Agrees(p, stamp, hash)' = Agrees(p, stamp, hash)
         /\ StampsAreUnique' = StampsAreUnique
BY DEF diskVars, SeenAt, Agrees, StampsAreUnique

\* What upsert_file does to the rows, given what its thread has found.
LEMMA UpsertRows ==
  ASSUME TypesOK, NEW p \in Paths, NEW hash, NEW stamp \in Nat, Upsert(p, hash, stamp)
  PROVE  /\ RowsAreRows'
         /\ \A q \in Paths : \/ rows'[q] = rows[q]
                             \/ q = p /\ rows'[p].sha = hash /\ rows'[p].stamp = stamp
<1>1. CASE rows[p] # None /\ rows' = [rows EXCEPT ![p].sha = hash, ![p].stamp = stamp]
  <2>1. rows[p] = [rowid |-> rows[p].rowid, id |-> rows[p].id, sha |-> rows[p].sha, stamp |-> rows[p].stamp]
    BY <1>1 DEF TypesOK, RowsAreRows, Listed
  <2> DEFINE new == [rowid |-> rows[p].rowid, id |-> rows[p].id, sha |-> hash, stamp |-> stamp]
  <2>2. [[rows[p] EXCEPT !.sha = hash] EXCEPT !.stamp = stamp] = new
    <3>1. PICK s : s = [rows[p] EXCEPT !.sha = hash]
      OBVIOUS
    <3>2. PICK a, b, c, d : /\ a = rows[p].rowid /\ b = rows[p].id /\ c = rows[p].sha /\ d = rows[p].stamp
                           /\ rows[p] = [rowid |-> a, id |-> b, sha |-> c, stamp |-> d]
      BY <2>1, Zenon
    <3>3. s = [rowid |-> a, id |-> b, sha |-> hash, stamp |-> d]
      BY <3>1, <3>2
    <3>4. [s EXCEPT !.stamp = stamp] = [rowid |-> a, id |-> b, sha |-> hash, stamp |-> stamp]
      BY <3>3
    <3> QED BY <3>1, <3>2, <3>4
  <2>3. rows' = [rows EXCEPT ![p] = new]
    <3>1. rows = [q \in Paths |-> rows[q]]
      BY DEF TypesOK, RowsAreRows
    <3>2. rows' = [rows EXCEPT ![p] = [[rows[p] EXCEPT !.sha = hash] EXCEPT !.stamp = stamp]]
      BY <1>1, <3>1
    <3> QED BY <2>2, <3>2
  <2> QED BY <2>3 DEF TypesOK, RowsAreRows, Listed
<1>2. CASE rows' = [rows EXCEPT ![p] = [rowid |-> NextRowid, id |-> hash, sha |-> hash, stamp |-> stamp]]
  BY <1>2 DEF TypesOK, RowsAreRows, Listed
<1>3. CASE rows' = rows
  BY <1>3 DEF TypesOK, RowsAreRows, Listed
<1> QED BY <1>1, <1>2, <1>3 DEF tableVars, Upsert

JobType == [path : Paths \cup {None}, stamp : Nat, hash : Hashes \cup {None}]

\* A step of one thread that leaves the disk alone.
LEMMA ThreadMoves ==
  ASSUME IInv, NEW w \in Workers, NEW to \in Busy \cup {"idle"}, NEW j \in JobType,
         pc' = [pc EXCEPT ![w] = to], job' = [job EXCEPT ![w] = j], UNCHANGED diskVars,
         todo' \in SUBSET Paths, missing' \in Paths \cup {None}, to \in Busy => j.path \in Paths,
         RowsAreRows', ~returned => RowsAgree',
         ~returned /\ to = "hash" => SeenAt(j.path, j.stamp),
         ~returned /\ to = "upsert" => Agrees(j.path, j.stamp, j.hash)
  PROVE  IInv'
<1>1. pc \in [Workers -> Busy \cup {"idle"}] /\ job \in [Workers -> JobType]
  BY DEF IInv, TypesOK, TypeOK, JobType
<1>2. /\ pc'[w] = to /\ job'[w] = j
      /\ \A v \in Workers \ {w} : pc'[v] = pc[v] /\ job'[v] = job[v]
      /\ pc' \in [Workers -> Busy \cup {"idle"}] /\ job' \in [Workers -> JobType]
  BY <1>1
<1>3. TypeOK'
  BY <1>2 DEF IInv, TypesOK, TypeOK, JobType, diskVars
<1>4. ASSUME ~returned
      PROVE  JobsAgree'
  <2> SUFFICES ASSUME NEW v \in Workers
               PROVE  /\ pc'[v] = "hash" => SeenAt(job[v].path, job[v].stamp)'
                      /\ pc'[v] = "upsert" => Agrees(job[v].path, job[v].stamp, job[v].hash)'
    BY DEF JobsAgree
  <2>1. CASE v = w
    BY <1>2, <1>4, <2>1 DEF SeenAt, Agrees, diskVars
  <2>2. CASE v # w
    <3>1. /\ pc[v] = "hash" => SeenAt(job[v].path, job[v].stamp)
          /\ pc[v] = "upsert" => Agrees(job[v].path, job[v].stamp, job[v].hash)
      BY <1>4 DEF IInv, AllAgree, JobsAgree
    <3> QED BY <1>2, <2>2, <3>1 DEF SeenAt, Agrees, diskVars
  <2> QED BY <2>1, <2>2
<1>5. ~returned => StampsAreUnique'
  BY DEF IInv, AllAgree, StampsAreUnique, diskVars
<1> QED BY <1>3, <1>4, <1>5 DEF IInv, TypesOK, AllAgree, diskVars

\* A thread that ends its job, whatever becomes of the rows.
LEMMA RowsStay ==
  ASSUME IInv, UNCHANGED <<diskVars, rows>>
  PROVE  RowsAreRows' /\ (~returned => RowsAgree')
<1>1. RowsAreRows'
  BY DEF IInv, TypesOK, RowsAreRows, Listed
<1>2. RowsAgree => RowsAgree'
  BY DEF RowsAgree, Agrees, Listed, diskVars
<1> QED BY <1>1, <1>2 DEF IInv, AllAgree

LEMMA NoJobIsJob == NoJob \in JobType /\ \A p \in Paths : [NoJob EXCEPT !.path = p] \in JobType
BY DEF NoJob, JobType

LEMMA LookInv == ASSUME IInv, NEW w \in Workers, Look(w) PROVE IInv'
<1>1. /\ UNCHANGED <<diskVars, rows, missing>> /\ todo' \in SUBSET Paths
      /\ missing \in Paths \cup {None} /\ todo \in SUBSET Paths
      /\ pc \in [Workers -> Busy \cup {"idle"}] /\ job \in [Workers -> JobType]
  BY DEF tableVars, Look, cleanVars, IInv, TypesOK, TypeOK, JobType
<1>2. RowsAreRows' /\ (~returned => RowsAgree')
  BY <1>1, RowsStay
<1>3. PICK p \in todo : \/ UNCHANGED <<pc, job>>
                        \/ /\ pc' = [pc EXCEPT ![w] = "stat"]
                           /\ job' = [job EXCEPT ![w] = [NoJob EXCEPT !.path = p]]
  BY DEF Look
<1>4. CASE UNCHANGED <<pc, job>>
  <2>1. TypeOK'
    BY <1>1, <1>4 DEF IInv, TypesOK, TypeOK, diskVars
  <2>2. JobsAgree => JobsAgree'
    BY <1>1, <1>4 DEF JobsAgree, SeenAt, Agrees, diskVars
  <2>3. StampsAreUnique => StampsAreUnique'
    BY <1>1 DEF StampsAreUnique, diskVars
  <2> QED BY <1>1, <1>2, <2>1, <2>2, <2>3 DEF IInv, TypesOK, AllAgree, diskVars
<1>5. CASE pc' = [pc EXCEPT ![w] = "stat"] /\ job' = [job EXCEPT ![w] = [NoJob EXCEPT !.path = p]]
  <2>1. p \in Paths /\ [NoJob EXCEPT !.path = p] \in JobType /\ [NoJob EXCEPT !.path = p].path = p
    BY <1>1, NoJobIsJob DEF NoJob
  <2> QED BY <1>1, <1>2, <1>5, <2>1, ThreadMoves DEF Busy
<1> QED BY <1>3, <1>4, <1>5

\* A thread that is done with its job.
LEMMA EndInv ==
  ASSUME IInv, NEW w \in Workers, pc' = [pc EXCEPT ![w] = "idle"], job' = [job EXCEPT ![w] = NoJob],
         UNCHANGED <<diskVars, todo>>, missing' \in Paths \cup {None},
         RowsAreRows', ~returned => RowsAgree'
  PROVE  IInv'
<1>1. todo' \in SUBSET Paths
  BY DEF IInv, TypesOK, TypeOK
<1> QED BY <1>1, NoJobIsJob, ThreadMoves DEF Busy

LEMMA StatInv == ASSUME IInv, NEW w \in Workers, Stat(w) PROVE IInv'
<1>1. /\ pc[w] = "stat" /\ UNCHANGED <<diskVars, rows, missing, todo>>
      /\ missing \in Paths \cup {None} /\ todo \in SUBSET Paths /\ job[w] \in JobType
      /\ job[w].path \in Paths /\ disk \in [Paths -> [content : Contents, stamp : Nat] \cup {None}]
  BY DEF tableVars, Stat, cleanVars, IInv, TypesOK, TypeOK, Busy, JobType
<1>2. RowsAreRows' /\ (~returned => RowsAgree')
  BY <1>1, RowsStay
<1>3. PICK p \in Paths : p = job[w].path
  BY <1>1
<1>4. CASE disk[p] = None
  BY <1>1, <1>2, <1>3, <1>4, EndInv DEF Stat
<1>5. CASE disk[p] # None
  <2>1. PICK j \in JobType : j = [job[w] EXCEPT !.stamp = disk[p].stamp]
    BY <1>1, <1>5 DEF JobType
  <2>2. j.path = p /\ j.stamp = disk[p].stamp
    BY <1>1, <1>3, <2>1 DEF JobType
  <2>3. pc' = [pc EXCEPT ![w] = "hash"] /\ job' = [job EXCEPT ![w] = j]
    BY <1>3, <1>5, <2>1 DEF Stat
  <2>4. ~returned => SeenAt(p, disk[p].stamp)
    BY <1>5 DEF IInv, AllAgree, StampsAreUnique, SeenAt
  <2> QED BY <1>1, <1>2, <2>2, <2>3, <2>4, ThreadMoves DEF Busy
<1> QED BY <1>4, <1>5

LEMMA HashInv == ASSUME IInv, NEW w \in Workers, Hash(w) PROVE IInv'
<1>1. /\ pc[w] = "hash" /\ UNCHANGED <<diskVars, rows, missing, todo>>
      /\ missing \in Paths \cup {None} /\ todo \in SUBSET Paths /\ job[w] \in JobType
      /\ job[w].path \in Paths /\ disk \in [Paths -> [content : Contents, stamp : Nat] \cup {None}]
  BY DEF tableVars, Hash, cleanVars, IInv, TypesOK, TypeOK, Busy, JobType
<1>2. RowsAreRows' /\ (~returned => RowsAgree')
  BY <1>1, RowsStay
<1>3. CASE pc' = [pc EXCEPT ![w] = "idle"] /\ job' = [job EXCEPT ![w] = NoJob]
  BY <1>1, <1>2, <1>3, EndInv
<1>4. ASSUME NEW h \in HashesOf(job[w].path), job' = [job EXCEPT ![w].hash = h],
             pc' = [pc EXCEPT ![w] = "upsert"]
      PROVE  IInv'
  <2>1. h = job[w].path \/ (disk[job[w].path] # None /\ h = disk[job[w].path].content)
    BY DEF HashesOf
  <2>2. PICK j \in JobType : j = [job[w] EXCEPT !.hash = h]
    BY <1>1, <2>1 DEF JobType, Hashes
  <2>3. j.path = job[w].path /\ j.stamp = job[w].stamp /\ j.hash = h
    BY <1>1, <2>2 DEF JobType
  <2>4. ~returned => SeenAt(job[w].path, job[w].stamp)
    BY <1>1 DEF IInv, AllAgree, JobsAgree
  <2>5. ~returned => Agrees(job[w].path, job[w].stamp, h)
    BY <2>1, <2>4 DEF SeenAt, Agrees
  <2>6. job' = [job EXCEPT ![w] = j]
    BY <1>4, <2>2
  <2> QED BY <1>1, <1>2, <1>4, <2>3, <2>5, <2>6, ThreadMoves DEF Busy
<1> QED BY <1>3, <1>4 DEF Hash

LEMMA StoreInv == ASSUME IInv, NEW w \in Workers, Store(w) PROVE IInv'
<1>1. /\ pc[w] = "upsert" /\ UNCHANGED <<diskVars, todo>> /\ missing' \in Paths \cup {None}
      /\ job[w].path \in Paths /\ job[w].stamp \in Nat
      /\ pc' = [pc EXCEPT ![w] = "idle"] /\ job' = [job EXCEPT ![w] = NoJob]
      /\ Upsert(job[w].path, job[w].hash, job[w].stamp)
  BY DEF Store, IInv, TypesOK, TypeOK, Busy
<1>2. PICK p \in Paths, t \in Nat : p = job[w].path /\ t = job[w].stamp
  BY <1>1
<1>3. PICK h : h = job[w].hash
  OBVIOUS
<1>4. /\ RowsAreRows'
      /\ \A q \in Paths : \/ rows'[q] = rows[q]
                          \/ q = p /\ rows'[p].sha = h /\ rows'[p].stamp = t
  BY <1>1, <1>2, <1>3, UpsertRows DEF IInv
<1>5. ASSUME ~returned
      PROVE  RowsAgree'
  <2>1. Agrees(p, t, h) /\ RowsAgree
    BY <1>1, <1>2, <1>3, <1>5 DEF IInv, AllAgree, JobsAgree
  <2> SUFFICES ASSUME NEW q \in Paths, rows'[q] # None
               PROVE  rows'[q].stamp \in Nat /\ Agrees(q, rows[q].stamp, rows[q].sha)'
    BY DEF RowsAgree, Listed
  <2>2. CASE rows'[q] = rows[q]
    <3>1. rows[q].stamp \in Nat /\ Agrees(q, rows[q].stamp, rows[q].sha)
      BY <2>1, <2>2 DEF RowsAgree, Listed
    <3> QED BY <1>1, <2>2, <3>1 DEF Agrees, diskVars
  <2>3. CASE q = p /\ rows'[p].sha = h /\ rows'[p].stamp = t
    BY <1>1, <2>1, <2>3 DEF Agrees, diskVars
  <2> QED BY <1>4, <2>2, <2>3
<1> QED BY <1>1, <1>4, <1>5, EndInv

\* Steps in which no thread takes part.
LEMMA OtherInv ==
  ASSUME IInv,
         StartScan \/ (\E p \in Paths : CheckMissing(p)) \/ DeleteMissing \/ CleanFiles \/ CleanFts
  PROVE  IInv'
<1>1. UNCHANGED <<diskVars, pc, job>> /\ todo' \in SUBSET Paths /\ missing' \in Paths \cup {None}
  BY DEF StartScan, CheckMissing, DeleteMissing, CleanFiles, CleanFts, workerVars, cleanVars, FilesBelow,
         OnDisk, IInv, TypesOK, TypeOK
<1>2. \A q \in Paths : rows'[q] \in {rows[q], None}
  BY DEF tableVars, StartScan, CheckMissing, DeleteMissing, CleanFiles, CleanFts, DeleteRow, cleanVars, IInv, TypesOK,
         RowsAreRows
<1>3. rows' = [q \in Paths |-> rows'[q]]
  BY DEF tableVars, StartScan, CheckMissing, DeleteMissing, CleanFiles, CleanFts, DeleteRow, cleanVars, IInv, TypesOK,
         RowsAreRows
<1>4. RowsAreRows'
  BY <1>2, <1>3 DEF IInv, TypesOK, RowsAreRows, Listed
<1>5. RowsAgree => RowsAgree'
  BY <1>1, <1>2 DEF RowsAgree, Agrees, Listed, diskVars
<1>6. (JobsAgree => JobsAgree') /\ (StampsAreUnique => StampsAreUnique')
  BY <1>1 DEF JobsAgree, SeenAt, Agrees, StampsAreUnique, diskVars
<1>7. TypeOK'
  BY <1>1 DEF IInv, TypesOK, TypeOK, diskVars
<1> QED BY <1>1, <1>4, <1>5, <1>6, <1>7 DEF IInv, TypesOK, AllAgree, diskVars

LEMMA NextInv == IInv /\ [Next]_vars => IInv'
<1>1. ASSUME IInv, UNCHANGED vars
      PROVE  IInv'
  <2>1. UNCHANGED <<diskVars, rows, pc, job, todo, missing>>
    BY <1>1 DEF tableVars, vars, workerVars, cleanVars
  <2>2. TypeOK'
    BY <1>1, <2>1 DEF IInv, TypesOK, TypeOK, diskVars
  <2>3. (JobsAgree => JobsAgree') /\ (StampsAreUnique => StampsAreUnique')
    BY <2>1 DEF JobsAgree, SeenAt, Agrees, StampsAreUnique, diskVars
  <2>4. RowsAreRows' /\ (~returned => RowsAgree')
    BY <1>1, <2>1, RowsStay
  <2> QED BY <1>1, <2>1, <2>2, <2>3, <2>4 DEF IInv, TypesOK, AllAgree, diskVars
<1>2. ASSUME IInv, NEW p \in Paths, Delete(p) \/ CheckMissing(p) \/ \E c \in Contents : Write(p, c)
      PROVE  IInv'
  <2>1. CASE CheckMissing(p)
    BY <1>2, <2>1, OtherInv
  <2>2. CASE \E c \in Contents : Write(p, c)
    BY <1>2, <2>2, ChangeInv
  <2>3. CASE Delete(p)
    <3>1. Contents # {}
      BY <2>3, <1>2 DEF Delete, IInv, TypesOK, TypeOK
    <3> QED BY <1>2, <2>3, <3>1, ChangeInv
  <2> QED BY <1>2, <2>1, <2>2, <2>3
<1>3. ASSUME IInv, NEW p \in Paths, NEW q \in Paths, Move(p, q)
      PROVE  IInv'
  <2>1. Contents # {}
    BY <1>3 DEF Move, IInv, TypesOK, TypeOK
  <2> QED BY <1>3, <2>1, ChangeInv
<1>4. ASSUME IInv, StartScan \/ DeleteMissing \/ CleanFiles \/ CleanFts
      PROVE  IInv'
  BY <1>4, OtherInv
<1>5. ASSUME IInv, NEW w \in Workers, WorkerStep(w)
      PROVE  IInv'
  BY <1>5, LookInv, StatInv, HashInv, StoreInv DEF WorkerStep
<1> QED BY <1>1, <1>2, <1>3, <1>4, <1>5 DEF Next

\* Types of what the scanner and its threads keep; a thread at work has a file.
THEOREM ScannerTypes == Spec => []TypeOK
<1>1. IInv => TypeOK
  BY DEF IInv, TypesOK
<1> QED BY InitInv, NextInv, <1>1, PTL DEF Spec

\* A row that holds the hash of another content has another stamp than its file,
\* so that the next scan reads the file again, through any writes, moves and
\* removals during overlapping scans, as long as no file is moved back to where it
\* had been (process_file, analyze_file, upsert_file).
THEOREM ChangesAreNotMissed == Spec => []StaleIsDetected
<1>1. IInv => StaleIsDetected
  BY DEF IInv, AllAgree, RowsAgree, Agrees, StaleIsDetected, Listed, OnDisk
<1> QED BY InitInv, NextInv, <1>1, PTL DEF Spec

-----------------------------------------------------------------------------
(* The full-text index. *)

\* A row has its entry in the index, unless clean_all has taken it.
RowsAreIndexed == \A p \in Listed \ stripped : Entry(p, rows[p].rowid) \in fts

IndexInv == RowsAreRows /\ RowsAreIndexed

LEMMA UpsertIndexes ==
  ASSUME IndexInv, TypeOK, NEW p \in Paths, NEW hash, NEW stamp, Upsert(p, hash, stamp)
  PROVE  RowsAreIndexed'
<1> SUFFICES ASSUME NEW q \in Paths, rows'[q] # None, q \notin stripped'
             PROVE  Entry(q, rows'[q].rowid) \in fts'
  BY DEF RowsAreIndexed, Listed, Entry
<1>1. CASE q # p
  <2>1. rows'[q] = rows[q] /\ fts \subseteq fts' /\ q \notin stripped
    BY <1>1 DEF Upsert, tableVars, IndexInv, RowsAreRows
  <2> QED BY <2>1 DEF IndexInv, RowsAreIndexed, Listed
<1>2. CASE q = p /\ rows[p] # None
  <2>1. /\ rows' = [rows EXCEPT ![p].sha = hash, ![p].stamp = stamp]
        /\ fts' = fts \cup {Entry(p, rows[p].rowid)}
    BY <1>2 DEF Upsert
  <2>2. rows'[p].rowid = rows[p].rowid
    <3>1. rows = [r \in Paths |-> rows[r]]
      BY DEF IndexInv, RowsAreRows
    <3>2. rows'[p] = [[rows[p] EXCEPT !.sha = hash] EXCEPT !.stamp = stamp]
      BY <2>1, <3>1
    <3>3. rows[p] = [rowid |-> rows[p].rowid, id |-> rows[p].id, sha |-> rows[p].sha, stamp |-> rows[p].stamp]
      BY <1>2 DEF IndexInv, RowsAreRows, Listed
    <3>4. PICK a, b, c, d : /\ a = rows[p].rowid /\ b = rows[p].id /\ c = rows[p].sha /\ d = rows[p].stamp
                           /\ rows[p] = [rowid |-> a, id |-> b, sha |-> c, stamp |-> d]
      BY <3>3, Zenon
    <3> QED BY <3>2, <3>4
  <2> QED BY <1>2, <2>1, <2>2 DEF Entry
<1>3. CASE q = p /\ rows[p] = None
  <2>1. /\ rows' = [rows EXCEPT ![p] = [rowid |-> NextRowid, id |-> hash, sha |-> hash, stamp |-> stamp]]
        /\ fts' = fts \cup {Entry(p, NextRowid)}
    BY <1>3 DEF Upsert, tableVars
  <2>2. rows'[p].rowid = NextRowid
    BY <2>1 DEF IndexInv, RowsAreRows
  <2> QED BY <1>3, <2>1, <2>2 DEF Entry
<1> QED BY <1>1, <1>2, <1>3

\* Clean-ups take rows; clean_all takes entries only of rows it notes as stripped.
LEMMA CleaningIndexes ==
  ASSUME IndexInv, DeleteMissing \/ CleanFiles \/ CleanFts
  PROVE  RowsAreIndexed'
<1>1. CASE DeleteMissing
  BY <1>1 DEF DeleteMissing, DeleteRow, IndexInv, RowsAreRows, RowsAreIndexed, Listed, Entry
<1>2. CASE CleanFiles
  BY <1>2 DEF CleanFiles, RowsAreIndexed, Listed
<1>3. CASE CleanFts
  BY <1>3 DEF CleanFts, RowsAreIndexed, Listed
<1> QED BY <1>1, <1>2, <1>3

LEMMA IndexStep == IndexInv /\ IInv /\ IInv' /\ [Next]_vars => IndexInv'
<1> SUFFICES ASSUME IndexInv, IInv, IInv', [Next]_vars
             PROVE  RowsAreIndexed'
  BY DEF IndexInv, IInv, TypesOK
<1>1. ASSUME UNCHANGED tableVars
      PROVE  RowsAreIndexed'
  BY <1>1 DEF tableVars, IndexInv, RowsAreIndexed, Listed, Entry
<1>2. ASSUME NEW w \in Workers, Store(w)
      PROVE  RowsAreIndexed'
  <2>1. TypeOK /\ job[w].path \in Paths /\ Upsert(job[w].path, job[w].hash, job[w].stamp)
    BY <1>2 DEF Store, IInv, TypesOK, TypeOK, Busy
  <2>2. PICK p \in Paths : p = job[w].path
    BY <2>1
  <2>3. PICK h, t : h = job[w].hash /\ t = job[w].stamp
    OBVIOUS
  <2> QED BY <2>1, <2>2, <2>3, UpsertIndexes
<1>3. ASSUME NEW w \in Workers, Look(w) \/ Stat(w) \/ Hash(w)
      PROVE  UNCHANGED tableVars
  BY <1>3 DEF Look, Stat, Hash
<1>4. ASSUME NEW p \in Paths, NEW c \in Contents, Write(p, c)
      PROVE  UNCHANGED tableVars
  BY <1>4 DEF Write, Change
<1>5. ASSUME NEW p \in Paths, Delete(p) \/ CheckMissing(p)
      PROVE  UNCHANGED tableVars
  BY <1>5 DEF Delete, Change, CheckMissing
<1>6. ASSUME NEW p \in Paths, NEW q \in Paths, Move(p, q)
      PROVE  UNCHANGED tableVars
  BY <1>6 DEF Move, Change
<1>7. CASE StartScan
  BY <1>1, <1>7 DEF StartScan
<1>8. CASE UNCHANGED vars
  BY <1>1, <1>8 DEF vars
<1> QED BY <1>1, <1>2, <1>3, <1>4, <1>5, <1>6, <1>7, <1>8, CleaningIndexes DEF Next, WorkerStep

\* A search for the word of a listed file returns that file, among overlapping
\* scans, clean-ups and numbers given out again, unless the word is none that the
\* query syntax takes or clean_all took the row's entry between its two DELETEs
\* (search_files, upsert_file with its triggers, clean_all).
THEOREM SearchesFind == Spec => []SearchFinds
<1>1. Init => IndexInv
  BY DEF Init, IndexInv, RowsAreRows, RowsAreIndexed, Listed
<1>2. IndexInv => SearchFinds
  <2> SUFFICES ASSUME IndexInv, NEW p \in Listed \ stripped, ~Search(p).error
               PROVE  p \in Search(p).found
    BY DEF SearchFinds
  <2>1. p \in {q \in Listed : <<rows[q].rowid, p>> \in fts}
    BY DEF IndexInv, RowsAreIndexed, Entry
  <2> QED BY <2>1 DEF Search
<1> QED BY InitInv, NextInv, IndexStep, <1>1, <1>2, PTL DEF Spec
=============================================================================
