---------------------------- MODULE Intake_proofs ----------------------------
(* A machine-checked proof that neither concurrency nor crashes damage what is *)
(* uploaded, for any number of uploads, names and crashes, as long as no upload *)
(* begins under the name of an unfinished one. The inductive invariant gives     *)
(* each staged file to the one upload under its name, and each inode one place.   *)
EXTENDS Intake, TLAPS

\* An upload that has a file in the staging directory to itself.
Holding == {"first", "second", "staged", "hashed", "duplicate", "move"}

\* One that may have left a file there, after a crash too.
Owning == Holding \cup {"aborted", "dropped"}

\* Of the uploads under one name all but one are done.
NamesAreApart ==
  \A u, v \in Uploads : u # v /\ name[u] # None /\ name[u] = name[v] => pc[u] = "done" \/ pc[v] = "done"

\* Each inode has one place, and a new upload's inode none.
InodesAreApart ==
  /\ \A m, n \in Names : m # n /\ staging[m] # None => staging[m] # staging[n]
  /\ \A n \in Names : \A h \in Data : staging[n] # None => store[h] # staging[n]
  /\ \A u \in Uploads : pc[u] = "new" =>
       /\ name[u] = None
       /\ \A n \in Names : staging[n] # u
       /\ \A h \in Data : store[h] # u

\* A staged file belongs to an upload that is not done; one that works on its
\* file finds it.
StagedIsOwned ==
  /\ \A n \in Names : staging[n] # None =>
       \E u \in Uploads : name[u] = n /\ pc[u] \in Owning
  /\ \A u \in Uploads : pc[u] # "new" => name[u] \in Names
  /\ \A u \in Uploads : pc[u] \in Holding => staging[name[u]] # None
  /\ \A u \in Uploads : pc[u] \in {"first", "second"} => fd[u] = staging[name[u]]

\* The file under an upload's name is there and has its whole body.
StagedWhole(u) == staging[name[u]] # None /\ data[staging[name[u]]] = Whole(Body[u])

\* How much of the body a file has at each stage.
WorkIsRight ==
  \A u \in Uploads :
    /\ pc[u] = "second" => data[fd[u]][1] = Body[u]
    /\ pc[u] \in {"staged", "hashed", "duplicate", "move"} => data[staging[name[u]]] = Whole(Body[u])
    /\ pc[u] \in {"hashed", "duplicate", "move"} => digest[u] = Whole(Body[u])
    /\ pc[u] \in {"duplicate", "register", "done"} => store[Whole(Body[u])] # None
    /\ pc[u] = "dropped" => \/ StagedWhole(u) \/ store[Whole(Body[u])] # None

Apart == NamesAreApart /\ InodesAreApart
Right == StagedIsOwned /\ WorkIsRight /\ \A h \in Data : store[h] # None => data[store[h]] = h
IInv == TypeOK /\ (~collided => Apart /\ Right)

LEMMA Wholes == \A u \in Uploads : Body[u] \in Contents /\ Whole(Body[u]) \in Data
BY BodyAssumption DEF Contents, Data, Whole

LEMMA InitInv == Init => IInv
<1> SUFFICES ASSUME Init
             PROVE  IInv
  OBVIOUS
<1>1. TypeOK
  <2>1. <<None, None>> \in Data
    BY DEF Data
  <2>2. data \in [Inodes -> Data]
    BY <2>1 DEF Init
  <2>3. crashes \in 0 .. MaxCrashes
    BY MaxCrashesAssumption DEF Init
  <2>4. \A u \in Uploads : fd[u] # None <=> pc[u] \in {"first", "second"}
    BY DEF Init
  <2> QED BY <2>2, <2>3, <2>4 DEF Init, TypeOK, Pcs, Uploading, Ingesting
<1>2. Apart
  BY NoneAssumption DEF Init, Apart, NamesAreApart, InodesAreApart
<1>3. Right
  BY DEF Init, Right, StagedIsOwned, WorkIsRight, StagedWhole, Owning, Holding
<1> QED BY <1>1, <1>2, <1>3 DEF IInv

-----------------------------------------------------------------------------
(* upload_batch. *)

\* Without a collision a name is given to nobody who is not done, so that no
\* file has it.
LEMMA NameIsFree ==
  ASSUME IInv, NEW u \in Uploads, NEW n \in Names, Open(u, n), ~collided'
  PROVE  ~collided /\ staging[n] = None /\ fd'[u] = u /\ \A v \in Uploads : name[v] = n => pc[v] = "done"
<1>1. ~collided /\ \A v \in Uploads : name[v] = n => pc[v] = "done"
  BY DEF Open, IInv, TypeOK
<1>2. staging[n] = None
  BY <1>1 DEF IInv, Right, StagedIsOwned, Owning, Holding
<1> QED BY <1>1, <1>2 DEF Open, IInv, TypeOK

LEMMA OpenInv == ASSUME IInv, NEW u \in Uploads, NEW n \in Names, Open(u, n) PROVE IInv'
<1>1. TypeOK
  BY DEF IInv
<1>2. fd'[u] \in Inodes /\ fd'[u] # None /\ <<None, None>> \in Data
  BY <1>1, NoneAssumption DEF Open, TypeOK, Inodes, Data
<1>3. TypeOK'
  BY <1>1, <1>2 DEF Open, Goto, TypeOK, Pcs, Uploading, Ingesting
<1>4. ASSUME ~collided'
      PROVE  Apart' /\ Right'
  <2>1. ~collided /\ staging[n] = None /\ fd'[u] = u /\ \A v \in Uploads : name[v] = n => pc[v] = "done"
    BY <1>4, NameIsFree
  <2>2. Apart /\ Right
    BY <2>1 DEF IInv
  <2>3. /\ pc[u] = "new" /\ pc' = [pc EXCEPT ![u] = "first"] /\ name' = [name EXCEPT ![u] = n]
        /\ fd' = [fd EXCEPT ![u] = u] /\ data' = [data EXCEPT ![u] = <<None, None>>]
        /\ staging' = [staging EXCEPT ![n] = u] /\ UNCHANGED <<digest, store>>
    BY <1>1, <2>1 DEF Open, Goto, TypeOK
  <2>4. NamesAreApart'
    BY <1>1, <2>1, <2>2, <2>3 DEF Apart, NamesAreApart, TypeOK
  <2>5. InodesAreApart'
    BY <1>1, <2>2, <2>3, NoneAssumption DEF Apart, InodesAreApart, TypeOK
  <2>6. StagedIsOwned'
    <3>1. \A m \in Names : staging'[m] # None =>
            \E v \in Uploads : name'[v] = m /\ pc'[v] \in Owning
      <4> SUFFICES ASSUME NEW m \in Names, staging'[m] # None
                   PROVE  \E v \in Uploads : name'[v] = m /\ pc'[v] \in Owning
        OBVIOUS
      <4>1. CASE m = n
        BY <1>1, <2>3, <4>1 DEF TypeOK, Owning, Holding
      <4>2. CASE m # n
        <5>1. PICK v \in Uploads : name[v] = m /\ pc[v] \in Owning
          BY <1>1, <2>2, <2>3, <4>2 DEF Right, StagedIsOwned, TypeOK
        <5>2. v # u
          BY <2>3, <5>1 DEF Owning, Holding
        <5> QED BY <1>1, <2>3, <5>1, <5>2 DEF TypeOK
      <4> QED BY <4>1, <4>2
    <3>2. \A v \in Uploads \ {u} : pc[v] \in Holding => name[v] # n
      BY <2>1 DEF Owning, Holding
    <3> QED BY <1>1, <2>2, <2>3, <3>1, <3>2, NoneAssumption DEF Right, StagedIsOwned, TypeOK, Owning, Holding, Inodes
  <2>7. WorkIsRight'
    <3>1. \A v \in Uploads \ {u} : pc[v] \in Holding \cup {"dropped"} => name[v] \in Names \ {n} /\ staging[name[v]] # u
      BY <2>1, <2>2, <2>3 DEF Right, StagedIsOwned, Apart, InodesAreApart, Owning, Holding
    <3>2. \A v \in Uploads \ {u} :
            pc[v] \in Holding \/ (pc[v] = "dropped" /\ staging[name[v]] # None) => staging[name[v]] \in Inodes
      BY <1>1, <2>2, <3>1 DEF Right, StagedIsOwned, TypeOK
    <3>3. \A v \in Uploads \ {u} : pc[v] = "second" => fd[v] = staging[name[v]]
      BY <2>2 DEF Right, StagedIsOwned
    <3> QED BY <1>1, <2>2, <2>3, <3>1, <3>2, <3>3 DEF Right, WorkIsRight, StagedWhole, TypeOK, Owning, Holding
  <2>8. \A h \in Data : store'[h] # None => data'[store'[h]] = h
    BY <1>1, <2>2, <2>3 DEF Right, Apart, InodesAreApart, TypeOK
  <2> QED BY <2>4, <2>5, <2>6, <2>7, <2>8 DEF Apart, Right
<1> QED BY <1>3, <1>4 DEF IInv

\* A chunk written changes the writer's own file only.
LEMMA WritesAreOwn ==
  ASSUME IInv, ~collided, NEW u \in Uploads, pc[u] \in {"first", "second"}
  PROVE  /\ name[u] \in Names /\ fd[u] = staging[name[u]] /\ fd[u] \in Inodes
         /\ \A h \in Data : store[h] # fd[u]
         /\ \A v \in Uploads \ {u} : pc[v] \in Holding \/ (pc[v] = "dropped" /\ staging[name[v]] # None) =>
              staging[name[v]] # fd[u] /\ staging[name[v]] \in Inodes
<1>1. TypeOK /\ Apart /\ Right
  BY DEF IInv
<1>2. name[u] \in Names /\ fd[u] = staging[name[u]] /\ fd[u] \in Inodes
  BY <1>1 DEF Right, StagedIsOwned, Owning, Holding, TypeOK
<1>3. \A h \in Data : store[h] # fd[u]
  BY <1>1, <1>2, NoneAssumption DEF Apart, InodesAreApart, Inodes
<1>4. ASSUME NEW v \in Uploads \ {u}, pc[v] \in Holding \/ (pc[v] = "dropped" /\ staging[name[v]] # None)
      PROVE  staging[name[v]] # fd[u] /\ staging[name[v]] \in Inodes
  <2>1. name[v] \in Names /\ staging[name[v]] # None
    BY <1>1, <1>4 DEF Right, StagedIsOwned, Owning, Holding
  <2>2. name[v] # name[u]
    BY <1>1, <1>2, <1>4, <2>1, NoneAssumption DEF Apart, NamesAreApart, Owning, Holding, TypeOK
  <2> QED BY <1>1, <1>2, <2>1, <2>2 DEF Apart, InodesAreApart, TypeOK
<1> QED BY <1>2, <1>3, <1>4

LEMMA FirstChunkInv == ASSUME IInv, NEW u \in Uploads, FirstChunk(u) PROVE IInv'
<1>1. TypeOK /\ fd[u] \in Inodes /\ data[fd[u]] \in Data
  BY DEF IInv, TypeOK, Uploading, FirstChunk
<1> DEFINE new == [data[fd[u]] EXCEPT ![1] = Body[u]]
<1>2. new \in Data /\ new[1] = Body[u] /\ new[2] = data[fd[u]][2]
  BY <1>1, Wholes DEF Data
<1>3. data' = [data EXCEPT ![fd[u]] = new]
  BY <1>1 DEF FirstChunk, TypeOK
<1> HIDE DEF new
<1>4. TypeOK'
  <2>1. data' \in [Inodes -> Data]
    BY <1>1, <1>2, <1>3 DEF TypeOK
  <2>2. /\ pc' = [pc EXCEPT ![u] = "second"] /\ pc[u] = "first"
        /\ UNCHANGED <<name, fd, digest, staging, store, catalog, crashes, collided>>
    BY DEF FirstChunk, Goto, request
  <2> QED BY <1>1, <2>1, <2>2 DEF TypeOK, Pcs, Uploading, Ingesting
<1>5. ASSUME ~collided'
      PROVE  Apart' /\ Right'
  <2>1. ~collided /\ Apart /\ Right
    BY <1>5 DEF FirstChunk, IInv
  <2>2. /\ pc[u] = "first" /\ pc' = [pc EXCEPT ![u] = "second"]
        /\ UNCHANGED <<name, fd, digest, staging, store>>
    BY DEF FirstChunk, Goto, request
  <2>3. Apart'
    BY <1>1, <2>1, <2>2 DEF Apart, NamesAreApart, InodesAreApart, TypeOK
  <2>4. StagedIsOwned'
    BY <1>1, <2>1, <2>2 DEF Right, StagedIsOwned, Owning, Holding, TypeOK
  <2>5. WorkIsRight' /\ \A h \in Data : store'[h] # None => data'[store'[h]] = h
    BY <1>1, <1>2, <1>3, <2>1, <2>2, WritesAreOwn DEF Right, WorkIsRight, StagedWhole, StagedIsOwned, Owning, Holding, TypeOK
  <2> QED BY <2>3, <2>4, <2>5 DEF Right
<1> QED BY <1>4, <1>5 DEF IInv

LEMMA SecondChunkInv == ASSUME IInv, NEW u \in Uploads, SecondChunk(u) PROVE IInv'
<1>1. TypeOK /\ fd[u] \in Inodes /\ data[fd[u]] \in Data
  BY DEF IInv, TypeOK, Uploading, SecondChunk
<1> DEFINE new == [data[fd[u]] EXCEPT ![2] = Body[u]]
<1>2. new \in Data /\ (data[fd[u]][1] = Body[u] => new = Whole(Body[u]))
  <2>1. PICK a \in Contents \cup {None}, b \in Contents \cup {None} : data[fd[u]] = <<a, b>>
    BY <1>1 DEF Data
  <2>2. new = <<a, Body[u]>>
    BY <2>1
  <2>3. new \in Data
    BY <2>2, Wholes DEF Data
  <2>4. a = Body[u] => new = Whole(Body[u])
    BY <2>2 DEF Whole
  <2> HIDE DEF new
  <2> QED BY <2>1, <2>3, <2>4
<1>3. data' = [data EXCEPT ![fd[u]] = new]
  BY <1>1 DEF SecondChunk, TypeOK
<1> HIDE DEF new
<1>4. TypeOK'
  <2>1. data' \in [Inodes -> Data]
    BY <1>1, <1>2, <1>3 DEF TypeOK
  <2>2. /\ pc' = [pc EXCEPT ![u] = "staged"] /\ pc[u] = "second" /\ fd' = [fd EXCEPT ![u] = None]
        /\ UNCHANGED <<name, digest, staging, store, catalog, crashes, collided>>
    BY DEF SecondChunk, Goto
  <2> QED BY <1>1, <2>1, <2>2 DEF TypeOK, Pcs, Uploading, Ingesting
<1>5. ASSUME ~collided'
      PROVE  Apart' /\ Right'
  <2>1. ~collided /\ Apart /\ Right
    BY <1>5 DEF SecondChunk, IInv
  <2>2. /\ pc[u] = "second" /\ pc' = [pc EXCEPT ![u] = "staged"] /\ fd' = [fd EXCEPT ![u] = None]
        /\ UNCHANGED <<name, digest, staging, store>>
    BY DEF SecondChunk, Goto
  <2>3. Apart'
    BY <1>1, <2>1, <2>2 DEF Apart, NamesAreApart, InodesAreApart, TypeOK
  <2>4. StagedIsOwned'
    BY <1>1, <2>1, <2>2 DEF Right, StagedIsOwned, Owning, Holding, TypeOK
  <2>5. WorkIsRight' /\ \A h \in Data : store'[h] # None => data'[store'[h]] = h
    BY <1>1, <1>2, <1>3, <2>1, <2>2, WritesAreOwn DEF Right, WorkIsRight, StagedWhole, StagedIsOwned, Owning, Holding, TypeOK
  <2> QED BY <2>3, <2>4, <2>5 DEF Right
<1> QED BY <1>4, <1>5 DEF IInv

-----------------------------------------------------------------------------
(* ingest_files. *)

\* Steps that leave the files alone, from one stage of the ingest to the next.
LEMMA DigestInv == ASSUME IInv, NEW u \in Uploads, Digest(u) PROVE IInv'
<1>1. TypeOK /\ pc[u] = "staged" /\ UNCHANGED <<name, fd, data, staging, store, catalog, crashes, collided>>
  BY DEF IInv, Digest, files
<1>2. Staged(u) # None => Staged(u) \in Inodes
  BY <1>1 DEF TypeOK, Staged
<1>3. TypeOK'
  BY <1>1, <1>2 DEF Digest, Goto, TypeOK, Pcs, Uploading, Ingesting
<1>4. ASSUME ~collided'
      PROVE  Apart' /\ Right'
  <2>1. Apart /\ Right
    BY <1>1, <1>4 DEF IInv
  <2>2. Staged(u) = staging[name[u]] /\ Staged(u) # None /\ data[Staged(u)] = Whole(Body[u])
    BY <1>1, <2>1, NoneAssumption DEF Right, StagedIsOwned, WorkIsRight, StagedWhole, Staged, Owning, Holding
  <2>3. pc' = [pc EXCEPT ![u] = "hashed"] /\ digest' = [digest EXCEPT ![u] = Whole(Body[u])]
    BY <2>2 DEF Digest, Goto
  <2>4. Apart'
    BY <1>1, <2>1, <2>3 DEF Apart, NamesAreApart, InodesAreApart, TypeOK
  <2>5. Right'
    BY <1>1, <2>1, <2>3 DEF Right, StagedIsOwned, WorkIsRight, StagedWhole, Owning, Holding, TypeOK
  <2> QED BY <2>4, <2>5
<1> QED BY <1>3, <1>4 DEF IInv

LEMMA DestExistsInv == ASSUME IInv, NEW u \in Uploads, DestExists(u) PROVE IInv'
<1>1. /\ TypeOK /\ pc[u] = "hashed"
      /\ UNCHANGED <<name, fd, digest, data, staging, store, catalog, crashes, collided>>
      /\ pc' = [pc EXCEPT ![u] = IF store[digest[u]] = None THEN "move" ELSE "duplicate"]
  BY DEF IInv, DestExists, files, request, Goto
<1>2. TypeOK'
  BY <1>1 DEF TypeOK, Pcs, Uploading, Ingesting
<1>3. ASSUME ~collided'
      PROVE  Apart' /\ Right'
  <2>1. Apart /\ Right
    BY <1>1, <1>3 DEF IInv
  <2>2. Apart'
    BY <1>1, <2>1 DEF Apart, NamesAreApart, InodesAreApart, TypeOK
  <2>3. Right'
    BY <1>1, <2>1 DEF Right, StagedIsOwned, WorkIsRight, StagedWhole, Owning, Holding, TypeOK
  <2> QED BY <2>2, <2>3
<1> QED BY <1>2, <1>3 DEF IInv

\* The file of an upload that takes it away is no other upload's.
LEMMA NameIsOwn ==
  ASSUME IInv, ~collided, NEW u \in Uploads, pc[u] \in {"duplicate", "move"}
  PROVE  /\ name[u] \in Names /\ staging[name[u]] \in Inodes
         /\ \A v \in Uploads \ {u} : pc[v] \in Owning => name[v] # name[u]
<1>1. TypeOK /\ Apart /\ Right
  BY DEF IInv
<1>2. name[u] \in Names /\ staging[name[u]] \in Inodes
  BY <1>1 DEF Right, StagedIsOwned, Owning, Holding, TypeOK
<1> QED BY <1>1, <1>2, NoneAssumption DEF Apart, NamesAreApart, Owning, Holding

\* What is left in the staging directory then has its owner still.
LEMMA OwnersStay ==
  ASSUME IInv, ~collided, NEW u \in Uploads, pc[u] \in {"duplicate", "move"},
         pc' = [pc EXCEPT ![u] = "register"], staging' = [staging EXCEPT ![name[u]] = None],
         UNCHANGED <<name, fd>>
  PROVE  StagedIsOwned'
<1>1. TypeOK /\ Right
  BY DEF IInv
<1>2. /\ name[u] \in Names
      /\ \A v \in Uploads \ {u} : pc[v] \in Owning => name[v] # name[u]
  BY NameIsOwn
<1>3. \A n \in Names : staging'[n] # None =>
        \E v \in Uploads : name'[v] = n /\ pc'[v] \in Owning
  <2> SUFFICES ASSUME NEW n \in Names, staging'[n] # None
               PROVE  \E v \in Uploads : name'[v] = n /\ pc'[v] \in Owning
    OBVIOUS
  <2>1. n # name[u] /\ staging[n] # None
    BY <1>1, <1>2 DEF TypeOK
  <2>2. PICK v \in Uploads : name[v] = n /\ pc[v] \in Owning
    BY <1>1, <2>1 DEF Right, StagedIsOwned
  <2> QED BY <1>1, <2>1, <2>2 DEF TypeOK
<1> QED BY <1>1, <1>2, <1>3 DEF Right, StagedIsOwned, Owning, Holding, TypeOK

LEMMA RemoveDuplicateInv == ASSUME IInv, NEW u \in Uploads, RemoveDuplicate(u) PROVE IInv'
<1>1. /\ TypeOK /\ pc[u] = "duplicate" /\ pc' = [pc EXCEPT ![u] = "register"]
      /\ staging' = [staging EXCEPT ![name[u]] = None]
      /\ UNCHANGED <<name, fd, digest, data, store, catalog, crashes, collided>>
  BY DEF IInv, RemoveDuplicate, request, Goto
<1>2. TypeOK'
  BY <1>1 DEF TypeOK, Pcs, Uploading, Ingesting
<1>3. ASSUME ~collided'
      PROVE  Apart' /\ Right'
  <2>1. ~collided /\ Apart /\ Right
    BY <1>1, <1>3 DEF IInv
  <2>2. Apart'
    BY <1>1, <2>1, NameIsOwn, NoneAssumption DEF Apart, NamesAreApart, InodesAreApart, TypeOK
  <2>3. StagedIsOwned'
    BY <1>1, <2>1, OwnersStay
  <2>4. WorkIsRight'
    BY <1>1, <2>1, NameIsOwn DEF Right, WorkIsRight, StagedWhole, StagedIsOwned, Owning, Holding, TypeOK
  <2> QED BY <1>1, <2>1, <2>2, <2>3, <2>4 DEF Right
<1> QED BY <1>2, <1>3 DEF IInv

LEMMA MoveInv == ASSUME IInv, NEW u \in Uploads, Move(u) PROVE IInv'
<1>1. /\ TypeOK /\ pc[u] = "move"
      /\ UNCHANGED <<name, fd, digest, data, catalog, crashes, collided>>
  BY DEF IInv, Move, request
<1>2. Staged(u) # None => Staged(u) \in Inodes
  BY <1>1 DEF TypeOK, Staged
<1>3. TypeOK'
  BY <1>1, <1>2 DEF Move, Goto, TypeOK, Pcs, Uploading, Ingesting
<1>4. ASSUME ~collided'
      PROVE  Apart' /\ Right'
  <2>1. ~collided /\ Apart /\ Right
    BY <1>1, <1>4 DEF IInv
  <2>2. /\ name[u] \in Names /\ staging[name[u]] \in Inodes /\ staging[name[u]] # None
        /\ \A v \in Uploads \ {u} : pc[v] \in Owning => name[v] # name[u]
    BY <1>1, <2>1, NameIsOwn, NoneAssumption DEF Inodes
  <2>3. /\ pc' = [pc EXCEPT ![u] = "register"] /\ staging' = [staging EXCEPT ![name[u]] = None]
        /\ store' = [store EXCEPT ![digest[u]] = staging[name[u]]]
    BY <2>2, NoneAssumption DEF Move, Staged, Goto
  <2>4. digest[u] = Whole(Body[u]) /\ digest[u] \in Data /\ data[staging[name[u]]] = digest[u]
    BY <1>1, <2>1, Wholes DEF Right, WorkIsRight
  <2>5. NamesAreApart'
    BY <1>1, <2>1, <2>3 DEF Apart, NamesAreApart, TypeOK
  <2>6. InodesAreApart'
    BY <1>1, <2>1, <2>2, <2>3, <2>4, NoneAssumption DEF Apart, InodesAreApart, TypeOK
  <2>7. StagedIsOwned'
    BY <1>1, <2>1, <2>3, OwnersStay
  <2>8. WorkIsRight'
    BY <1>1, <2>1, <2>2, <2>3, <2>4, Wholes DEF Right, WorkIsRight, StagedWhole, StagedIsOwned, Owning, Holding, TypeOK
  <2>9. \A h \in Data : store'[h] # None => data'[store'[h]] = h
    BY <1>1, <2>1, <2>2, <2>3, <2>4 DEF Right, TypeOK
  <2> QED BY <2>5, <2>6, <2>7, <2>8, <2>9 DEF Apart, Right
<1> QED BY <1>3, <1>4 DEF IInv

LEMMA RegisterInv == ASSUME IInv, NEW u \in Uploads, Register(u) PROVE IInv'
<1>1. /\ TypeOK /\ pc[u] = "register" /\ pc' = [pc EXCEPT ![u] = "done"]
      /\ UNCHANGED <<name, fd, digest, data, staging, store, catalog, crashes, collided>>
  BY DEF IInv, Register, request, files, Goto
<1>2. TypeOK'
  BY <1>1 DEF TypeOK, Pcs, Uploading, Ingesting
<1>3. ASSUME ~collided'
      PROVE  Apart' /\ Right'
  <2>1. Apart /\ Right
    BY <1>1, <1>3 DEF IInv
  <2>2. Apart'
    BY <1>1, <2>1 DEF Apart, NamesAreApart, InodesAreApart, TypeOK
  <2>3. Right'
    BY <1>1, <2>1 DEF Right, StagedIsOwned, WorkIsRight, StagedWhole, Owning, Holding, TypeOK
  <2> QED BY <2>2, <2>3
<1> QED BY <1>2, <1>3 DEF IInv

\* A crash makes what was under way aborted, which still owns its file.
LEMMA CrashInv == ASSUME IInv, Crash PROVE IInv'
<1>1. /\ TypeOK /\ UNCHANGED <<name, digest, data, staging, store, catalog, collided>>
      /\ pc' = [u \in Uploads |-> IF pc[u] \in Uploading THEN "aborted"
                                 ELSE IF pc[u] \in Ingesting THEN "dropped" ELSE pc[u]]
      /\ fd' = [u \in Uploads |-> None]
  BY DEF IInv, Crash, files
<1>2. TypeOK'
  BY <1>1, MaxCrashesAssumption DEF Crash, TypeOK, Pcs, Uploading, Ingesting
<1>3. ASSUME ~collided'
      PROVE  Apart' /\ Right'
  <2>1. Apart /\ Right
    BY <1>1, <1>3 DEF IInv
  <2>2. Apart'
    BY <1>1, <2>1 DEF Apart, NamesAreApart, InodesAreApart, Uploading, Ingesting, TypeOK
  <2>3. StagedIsOwned'
    BY <1>1, <2>1 DEF Right, StagedIsOwned, Owning, Holding, Uploading, Ingesting, TypeOK
  <2>4. WorkIsRight'
    BY <1>1, <2>1 DEF Right, StagedIsOwned, WorkIsRight, StagedWhole, Holding, Uploading, Ingesting, TypeOK
  <2> QED BY <1>1, <2>1, <2>2, <2>3, <2>4 DEF Right
<1> QED BY <1>2, <1>3 DEF IInv

-----------------------------------------------------------------------------
LEMMA NextInv == ASSUME IInv, [Next]_vars PROVE IInv'
<1>1. ASSUME NEW u \in Uploads, Step(u)
      PROVE  IInv'
  BY <1>1, FirstChunkInv, SecondChunkInv, DigestInv, DestExistsInv, RemoveDuplicateInv, MoveInv, RegisterInv
    DEF Step
<1>2. CASE UNCHANGED vars
  BY <1>2 DEF vars, request, files, IInv, TypeOK, Apart, Right, NamesAreApart, InodesAreApart,
    StagedIsOwned, WorkIsRight, StagedWhole
<1> QED BY <1>1, <1>2, OpenInv, CrashInv DEF Next

\* Types; a request has its file open exactly while it writes it.
THEOREM IntakeTypes == Spec => []TypeOK
<1>1. IInv => TypeOK
  BY DEF IInv
<1> QED BY <1>1, InitInv, NextInv, PTL DEF Spec

\* As long as no upload begins under the name of an unfinished one, whatever runs
\* at the same time and wherever the server crashes, a stored file is what its
\* hash says: ingest_files hashes a file that nobody writes any more, and moves the
\* file it has hashed.
THEOREM StoreIsTrue == Spec => []StoreIsAddressedByContent
<1>1. IInv => StoreIsAddressedByContent
  BY DEF IInv, Right, StoreIsAddressedByContent
<1> QED BY <1>1, InitInv, NextInv, PTL DEF Spec

\* As long as no upload begins under the name of an unfinished one, what
\* upload_batch has answered for stays, in the staging directory until its content
\* is in the store, for any number of uploads and wherever a crash drops their
\* ingests: unlink takes only a file that has a stored twin.
THEOREM AnsweredUploadsStay == Spec => []AnsweredIsKept
<1>1. IInv => AnsweredIsKept
  <2> SUFFICES ASSUME IInv, ~collided, NEW u \in Uploads, Answered(u)
               PROVE  \/ Staged(u) # None /\ data[Staged(u)] = Whole(Body[u])
                      \/ store[Whole(Body[u])] # None
    BY DEF AnsweredIsKept
  <2>1. pc[u] \in {"staged", "hashed", "duplicate", "move", "register", "done", "dropped"}
    BY DEF Answered, Ingesting
  <2> QED BY <2>1, NoneAssumption DEF IInv, Right, StagedIsOwned, WorkIsRight, StagedWhole, Owning, Holding, Staged
<1> QED BY <1>1, InitInv, NextInv, PTL DEF Spec
=============================================================================
