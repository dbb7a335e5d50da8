------------------------------ MODULE Commands ------------------------------
(***************************************************************************)
(* What becomes of a command on its way from a front end to dispatch in       *)
(* video/cli.py and back. The shell gives dispatch what argparse made of the   *)
(* arguments, standard input a workflow of several steps, the REST and text    *)
(* interfaces one step each, a REST job some that it does not look at.         *)
(* dispatch answers with a result, with an error object, or raises.           *)
(***************************************************************************)
EXTENDS Naturals, Sequences, SequencesExt

CONSTANTS
  Media,     \* files under the root
  Mounts,    \* network paths
  NoArg,
  MaxVerbs   \* bound: commands

ASSUME CommandsAssumption == MaxVerbs \in Nat /\ NoArg \notin Mounts

VARIABLES
  disk,      \* the files that are there
  holdings,  \* the state behind the commands: files table, backup, network paths
  front,     \* the front end whose turn it is, or "none"
  verb,      \* the command it has read, or Nothing
  results,   \* of the steps that are done, printed when all are
  reply,     \* what the caller was given: the results, or that it failed or completed
  request,   \* history: the commands of the request, as far as they were taken up
  prior,     \* history: holdings as it was before
  verbCount

commandVars == <<disk, holdings, front, verb, results, reply, request, prior, verbCount>>

V(name, arg) == [name |-> name, arg |-> arg]
Nothing == V("nothing", NoArg)
Empty == [catalogue |-> {}, backup |-> {}, mounts |-> <<>>]
Reply(kind, list) == [kind |-> kind, list |-> list]

CommandInit ==
  /\ disk \in SUBSET Media /\ holdings = Empty
  /\ front = "none" /\ verb = Nothing /\ results = <<>> /\ reply = Reply("none", <<>>)
  /\ request = <<>> /\ prior = holdings /\ verbCount = 0

\* stats, recent and dump are "ask", list and show are "list".
Plain(names) == {V(n, NoArg) : n \in names}
PathVerbs == {V("paths add", m) : m \in Mounts} \cup {V("paths remove", i) : i \in 0 .. 1}
UnknownVerbs == {"plugin", "transcode", "batches create", "batches delete"}

\* What each front end can ask for: build_parser, api.py, tui.py.
ShellVerbs == Plain({"scan", "ask", "search", "list", "clean", "confirmed clean", "backup", "sync", "dam",
                     "plugin", "batches create"}) \cup PathVerbs
StdinVerbs == ShellVerbs \cup Plain({"batches add"} \cup UnknownVerbs)
ApiVerbs == Plain({"scan", "ask", "search", "list", "backup", "sync", "batches add", "batches delete"}) \cup PathVerbs
TuiVerbs == Plain({"scan", "ask", "search", "list"})
JobVerbs == Plain({"transcode", "batches create"})
Offered == [shell |-> ShellVerbs, stdin |-> StdinVerbs, api |-> ApiVerbs, tui |-> TuiVerbs, job |-> JobVerbs]

\* argparse stores a sub-command as path_cmd or batch_cmd, where dispatch looks
\* for cmd; the REST interface says q for query and name for index.
LosesCmd == front = "shell" /\ verb.name \in {"list", "paths add", "paths remove", "batches create"}
LosesKey == front = "api" /\ verb.name \in {"search", "paths remove"}

\* run_cli, run_cli_from_json: a step is taken up. Only workflows and jobs have
\* more than one.
Enter(f, v) ==
  /\ verb = Nothing /\ verbCount < MaxVerbs /\ verbCount' = verbCount + 1
  /\ \/ front = "none" /\ reply' = Reply("none", <<>>) /\ request' = <<v>> /\ prior' = holdings
     \/ front = f /\ f \in {"stdin", "job"} /\ request' = Append(request, v) /\ UNCHANGED <<reply, prior>>
  /\ front' = f /\ v \in Offered[f] /\ verb' = v
  /\ UNCHANGED <<disk, holdings, results>>

\* A command is answered with an object.
Object(kind) ==
  /\ results' = Append(results, kind)
  /\ verb' = Nothing /\ UNCHANGED <<disk, front, reply, request, prior, verbCount>>
Result == Object("result")
ErrorObject == Object("error")

\* An exception ends the workflow, and nothing of it is printed; what its earlier
\* steps have done stays. The REST interface answers with status 500.
Raises ==
  /\ results' = <<>> /\ reply' = Reply("failed", <<>>) /\ front' = "none"
  /\ verb' = Nothing /\ UNCHANGED <<disk, request, prior, verbCount>>

Scanned == holdings' = [holdings EXCEPT !.catalogue = @ \cup disk]

DispatchScan == verb.name = "scan" /\ Result /\ Scanned

\* index_folder_as_batch scans and makes a batch, whose manifest then cannot be
\* made unless it is empty.
DispatchAdd ==
  /\ verb.name = "batches add"
  /\ IF disk = {} THEN Result /\ UNCHANGED holdings ELSE Raises /\ Scanned

\* list_recent, list_by_batch, list_all_files, get_stats
Rows == Result /\ UNCHANGED holdings

DispatchQuery == verb.name \in {"ask", "list"} /\ ~LosesCmd /\ Rows

DispatchSearch == verb.name = "search" /\ IF LosesKey THEN Raises /\ UNCHANGED holdings ELSE Rows

DispatchCleanFirst ==  \* Fault: the rows are gone before it looks for --confirm.
  /\ verb.name \in {"clean", "confirmed clean"} /\ holdings' = [holdings EXCEPT !.catalogue = {}]
  /\ IF verb.name = "clean" THEN ErrorObject ELSE Result

DispatchClean ==
  \/ verb.name = "clean" /\ ErrorObject /\ UNCHANGED holdings
  \/ verb.name = "confirmed clean" /\ Result /\ holdings' = [holdings EXCEPT !.catalogue = {}]

\* A row whose file is gone is skipped.
DispatchBackup ==
  verb.name = "backup" /\ Result /\ holdings' = [holdings EXCEPT !.backup = @ \cup (holdings.catalogue \cap disk)]

\* Away from iOS the sync returns an error object, which SyncResult cannot be
\* made of; dam imports a package that does not exist.
DispatchSync == verb.name \in {"sync", "dam"} /\ Raises /\ UNCHANGED holdings

DispatchPathAdd ==
  /\ verb.name = "paths add" /\ ~LosesCmd
  /\ IF Contains(holdings.mounts, verb.arg) THEN ErrorObject /\ UNCHANGED holdings
     ELSE Result /\ holdings' = [holdings EXCEPT !.mounts = Append(@, verb.arg)]

DispatchPathRemove ==
  /\ verb.name = "paths remove" /\ ~LosesCmd
  /\ IF LosesKey \/ verb.arg >= Len(holdings.mounts) THEN Raises /\ UNCHANGED holdings
     ELSE Result /\ holdings' = [holdings EXCEPT !.mounts = RemoveAt(@, verb.arg + 1)]

\* COMMAND_REGISTRY is looked up for "batches" only, where it holds nothing: the
\* verb of a plug-in is as unknown as one that was never written.
DispatchUnknown == (LosesCmd \/ verb.name \in UnknownVerbs) /\ ErrorObject /\ UNCHANGED holdings

\* All steps are done. A job is completed whatever the results say.
PrintResults ==
  /\ verb = Nothing /\ results # <<>> /\ results' = <<>>
  /\ reply' = (IF front = "job" THEN Reply("completed", <<>>) ELSE Reply("answer", results)) /\ front' = "none"
  /\ UNCHANGED <<disk, holdings, verb, request, prior, verbCount>>

\* Somebody takes a file away.
Vanish(m) ==
  /\ m \in disk /\ disk' = disk \ {m}
  /\ UNCHANGED <<holdings, front, verb, results, reply, request, prior, verbCount>>

CommandNext ==
  \/ DispatchScan \/ DispatchAdd \/ DispatchQuery \/ DispatchSearch \/ DispatchClean \/ DispatchBackup \/ DispatchSync
  \/ DispatchPathAdd \/ DispatchPathRemove \/ DispatchUnknown \/ PrintResults
  \/ (\E m \in Media : Vanish(m)) \/ \E f \in DOMAIN Offered : \E v \in Offered[f] : Enter(f, v)

-----------------------------------------------------------------------------
\* The i-th command has the name, and the list answers it with a result.
Granted(list, i, name) == i \in DOMAIN list /\ list[i] = "result" /\ request[i].name = name
AnyGranted(list, name) == \E i \in DOMAIN list : Granted(list, i, name)

\* What whoever reads the results may rely on: what each has done is there unless a
\* later one has undone it,
DoneIsThere(list) ==
  \A i \in DOMAIN list :
    /\ Granted(list, i, "scan") =>
         disk \subseteq holdings.catalogue \/ \E j \in DOMAIN list : j > i /\ Granted(list, j, "confirmed clean")
    /\ Granted(list, i, "confirmed clean") =>
         holdings.catalogue = {} \/ \E j \in DOMAIN list : j > i /\ Granted(list, j, "scan")
    /\ Granted(list, i, "backup") /\ ~AnyGranted(list, "confirmed clean") =>
         disk \cap prior.catalogue \subseteq holdings.backup
    /\ Granted(list, i, "backup") /\ (\E j \in DOMAIN list : j < i /\ Granted(list, j, "scan"))
         /\ ~AnyGranted(list, "confirmed clean") => disk \subseteq holdings.backup
    /\ Granted(list, i, "paths add") =>
         \/ \E k \in DOMAIN holdings.mounts : holdings.mounts[k] = request[i].arg
         \/ \E j \in DOMAIN list : j > i /\ Granted(list, j, "paths remove")
    /\ Granted(list, i, "paths remove") /\ Len(request) = 1 =>
         \A l \in DOMAIN holdings.mounts : holdings.mounts[l] # prior.mounts[request[i].arg + 1]

\* and what none of them was about is as it was.
RestIsUntouched(list) ==
  /\ AnyGranted(list, "scan") \/ AnyGranted(list, "confirmed clean") \/ holdings.catalogue = prior.catalogue
  /\ AnyGranted(list, "confirmed clean") \/ prior.catalogue \subseteq holdings.catalogue
  /\ AnyGranted(list, "backup") \/ holdings.backup = prior.backup
  /\ AnyGranted(list, "paths add") \/ AnyGranted(list, "paths remove") \/ holdings.mounts = prior.mounts

\* A reply can be relied on. A list has a result or an error object for each command,
\* those with a result have done what they are for, and nothing else was done. A
\* request of one command that failed has done nothing, unless it was "batches add",
\* which has catalogued the files by then. And a job that is reported completed has
\* done nothing at all.
RepliesAreTrue ==
  /\ reply.kind = "answer" =>
       Len(reply.list) = Len(request) /\ DoneIsThere(reply.list) /\ RestIsUntouched(reply.list)
  /\ reply.kind = "failed" /\ Len(request) = 1 =>
       IF request[1].name = "batches add"
       THEN disk \subseteq holdings.catalogue /\ [holdings EXCEPT !.catalogue = prior.catalogue] = prior
       ELSE holdings = prior
  /\ reply.kind = "completed" => holdings = prior
=============================================================================
