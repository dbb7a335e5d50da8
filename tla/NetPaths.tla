------------------------------ MODULE NetPaths ------------------------------
(***************************************************************************)
(* The network paths of video/config.py: every process reads video.cfg when   *)
(* it starts, its threads change the parsed configuration and write all of it  *)
(* back, and nothing is locked. The command line starts a process for each     *)
(* command; the server answers POST /cli in threads. A path is removed by its  *)
(* index in a list that was shown before.                                     *)
(***************************************************************************)
EXTENDS Naturals, Sequences, SequencesExt

CONSTANTS
  Callers,   \* threads
  ProcessOf, \* the process of each
  Shares,    \* the paths in question
  NoSection, \* a configuration without [paths]
  Garbled,   \* a file that cannot be parsed
  MaxCalls,  \* bound: calls
  MaxRestarts \* bound: processes that are killed and started again

Processes == {ProcessOf[t] : t \in Callers}
ASSUME NetPathsAssumption ==
  /\ MaxCalls \in Nat /\ MaxRestarts \in Nat
  /\ NoSection # Garbled /\ {NoSection, Garbled} \cap (Shares \cup Seq(Shares)) = {}

VARIABLES
  cfg,      \* per process: _cfg, its list of paths
  cfgFile,  \* video.cfg: the list, NoSection while it is empty, or Garbled
  op,       \* per thread: the call it makes, and the list get_network_paths gave it
  opened,   \* threads that have emptied the file and not written it
  added,    \* history: processes that answered an addition, and the path
  contested, \* history: paths that were removed, or that a change from a list without them overtook
  callCount, restarts

netVars == <<cfg, cfgFile, op, opened, added, contested, callCount, restarts>>

NoCall == [pc |-> "idle", path |-> NoSection, list |-> <<>>]

NetInit ==
  /\ cfgFile \in {<<>>, NoSection} /\ cfg = [p \in Processes |-> cfgFile]
  /\ op = [t \in Callers |-> NoCall] /\ opened = {}
  /\ added = {} /\ contested = {} /\ callCount = 0 /\ restarts = 0

Mine(t) == cfg[ProcessOf[t]]
List(c) == IF c \in {NoSection, Garbled} THEN <<>> ELSE c
Called == callCount < MaxCalls /\ callCount' = callCount + 1

\* add_network_path: a duplicate is refused; without [paths], set raises
\* NoSectionError.
AddPath(t, p) ==
  /\ op[t].pc = "idle" /\ Called
  /\ op' = IF Contains(List(Mine(t)), p) THEN op
           ELSE [op EXCEPT ![t] = [pc |-> "set", path |-> p, list |-> Append(List(Mine(t)), p)]]
  /\ UNCHANGED <<cfg, cfgFile, opened, added, contested, restarts>>

\* remove_network_path: an index that is too large raises ValueError. A negative one
\* counts from the end, and stands for one of the same positions.
RemovePath(t, i) ==
  /\ op[t].pc = "idle" /\ Called
  /\ op' = IF i > Len(List(Mine(t))) THEN op
           ELSE [op EXCEPT ![t] = [pc |-> "set", path |-> NoSection, list |-> RemoveAt(Mine(t), i)]]
  /\ contested' = IF i > Len(List(Mine(t))) THEN contested ELSE contested \cup {Mine(t)[i]}
  /\ UNCHANGED <<cfg, cfgFile, opened, added, restarts>>

\* What other processes have added.
Foreign(t) ==
  {p \in Shares : \E u \in Callers : ProcessOf[u] # ProcessOf[t] /\
                    (<<ProcessOf[u], p>> \in added \/ (op[u].pc = "answer" /\ op[u].path = p))}

\* _cfg.set
Set(t) ==
  /\ op[t].pc = "set"
  /\ IF Mine(t) = NoSection
     THEN op' = [op EXCEPT ![t] = NoCall] /\ UNCHANGED <<cfg, contested>>
     ELSE /\ cfg' = [cfg EXCEPT ![ProcessOf[t]] = op[t].list]
          /\ op' = [op EXCEPT ![t].pc = "open"]
          /\ contested' = contested \cup (ToSet(Mine(t)) \ ToSet(op[t].list))
  /\ UNCHANGED <<cfgFile, opened, added, callCount, restarts>>

\* _write_cfg opens the file, which empties it, and writes what the process has
\* by then. Where somebody else has written since, the rest of a longer text stays
\* behind a shorter one, and the file cannot be parsed.
OpenFile(t) ==
  /\ op[t].pc = "open" /\ op' = [op EXCEPT ![t].pc = "write"]
  /\ cfgFile' = NoSection /\ opened' = opened \cup {t}
  /\ UNCHANGED <<cfg, added, contested, callCount, restarts>>

WriteOwnList(t) ==  \* Fault: it writes the list it has made, not what the process has by now.
  /\ op[t].pc = "write" /\ op' = [op EXCEPT ![t].pc = "answer"]
  /\ opened' = opened \ {t} /\ cfgFile' = op[t].list
  /\ contested' = contested \cup (Foreign(t) \ ToSet(op[t].list))
  /\ UNCHANGED <<cfg, added, callCount, restarts>>

WriteFile(t) ==
  /\ op[t].pc = "write" /\ op' = [op EXCEPT ![t].pc = "answer"]
  /\ opened' = opened \ {t}
  /\ \/ cfgFile' = Mine(t)
     \/ cfgFile \notin {NoSection, Mine(t)} /\ cfgFile' = Garbled
  /\ contested' = contested \cup (Foreign(t) \ ToSet(Mine(t)))
  /\ UNCHANGED <<cfg, added, callCount, restarts>>

Answer(t) ==
  /\ op[t].pc = "answer" /\ op' = [op EXCEPT ![t] = NoCall]
  /\ added' = added \cup {<<ProcessOf[t], p>> : p \in {op[t].path} \cap Shares}
  /\ UNCHANGED <<cfg, cfgFile, opened, contested, callCount, restarts>>

\* A process dies, perhaps with the file emptied, and reads it when it is back;
\* it cannot come back when the file does not parse.
Renew(p) ==
  /\ cfgFile # Garbled /\ restarts < MaxRestarts /\ restarts' = restarts + 1
  /\ op' = [t \in Callers |-> IF ProcessOf[t] = p THEN NoCall ELSE op[t]]
  /\ opened' = {t \in opened : ProcessOf[t] # p}
  /\ cfg' = [cfg EXCEPT ![p] = cfgFile]
  /\ UNCHANGED <<cfgFile, added, contested, callCount>>

CallerStep(t) == Set(t) \/ OpenFile(t) \/ WriteFile(t) \/ Answer(t)

NetNext ==
  \/ \E t \in Callers : CallerStep(t) \/ (\E p \in Shares : AddPath(t, p)) \/ \E i \in 1 .. MaxCalls : RemovePath(t, i)
  \/ \E p \in Processes : Renew(p)

-----------------------------------------------------------------------------
\* A path whose addition was answered is in the file whenever nobody is writing it,
\* unless it was removed or a change from a list that lacked it overtook it. Where
\* two writers have left an unreadable file, or a process that died an empty one,
\* this holds again from the next write on.
AddedIsKept ==
  opened = {} /\ cfgFile \notin {NoSection, Garbled} =>
    \A a \in added : a[2] \in contested \cup ToSet(cfgFile)
=============================================================================
