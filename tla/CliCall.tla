-------------------------------- MODULE CliCall --------------------------------
(***************************************************************************)
(* run_cli_from_json (video/cli.py): one step of the command line run in    *)
(* the calling thread, with sys.stdout replaced by a buffer while it runs   *)
(* and put back afterwards. Handlers and workers call it from many threads, *)
(* and sys.stdout is one variable of the process.                          *)
(*                                                                         *)
(* A caller stands for the buffer of its call in progress. The buffers of   *)
(* calls that have ended are not told apart: nobody reads them again.       *)
(***************************************************************************)

CONSTANTS
  Callers,  \* threads
  Console,  \* the stdout the process started with
  Lost,     \* the buffer of a call that has ended
  None,     \* no buffer; nothing printed
  Garbled   \* the results of several calls

ASSUME CallersAssumption == {Console, Lost, None, Garbled} \cap Callers = {}
ASSUME PlacesAssumption ==
  Console # Lost /\ Console # None /\ Lost # None /\ None # Garbled

VARIABLES
  stdout,   \* sys.stdout: the console or a buffer
  callPc,   \* per caller: where run_cli_from_json is
  orig,     \* per caller: its _orig_stdout
  text,     \* per caller: whose result is in its buffer
  returned, \* per caller: what getvalue returned
  shared    \* history: per caller, another call has overlapped its call

callVars == <<stdout, callPc, orig, text, returned, shared>>

CallPcs == {"out", "redirect", "print", "raised", "getvalue", "restore"}
Inside(c) == callPc[c] # "out"

CallInit ==
  /\ stdout = Console
  /\ callPc = [c \in Callers |-> "out"]
  /\ orig = [c \in Callers |-> None]
  /\ text = [c \in Callers |-> None]
  /\ returned = [c \in Callers |-> None]
  /\ shared = [c \in Callers |-> FALSE]

-----------------------------------------------------------------------------
\* A new StringIO; sys.stdout is saved.
Save(c) ==
  /\ ~Inside(c)
  /\ orig' = [orig EXCEPT ![c] = stdout]
  /\ shared' = [d \in Callers |->
                  IF d = c THEN \E e \in Callers \ {c} : Inside(e)
                  ELSE shared[d] \/ Inside(d)]
  /\ callPc' = [callPc EXCEPT ![c] = "redirect"]
  /\ UNCHANGED <<stdout, text, returned>>

\* Fault: the redirection is skipped if stdout is redirected already.
RedirectOnce(c) ==
  /\ callPc[c] = "redirect"
  /\ stdout' = IF stdout = Console THEN c ELSE stdout
  /\ callPc' = [callPc EXCEPT ![c] = "print"]
  /\ UNCHANGED <<orig, text, returned, shared>>

Redirect(c) ==
  /\ callPc[c] = "redirect"
  /\ stdout' = c
  /\ callPc' = [callPc EXCEPT ![c] = "print"]
  /\ UNCHANGED <<orig, text, returned, shared>>

\* dispatch, then print: into whatever sys.stdout is by now.
PrintResult(c) ==
  /\ callPc[c] = "print"
  /\ text' = [d \in Callers |->
                IF d = stdout THEN IF text[d] = None THEN c ELSE Garbled
                ELSE text[d]]
  /\ callPc' = [callPc EXCEPT ![c] = "getvalue"]
  /\ UNCHANGED <<stdout, orig, returned, shared>>

\* The step is no JSON, the database cannot be opened, dispatch raises or its result
\* cannot be serialised: nothing is printed and nothing returned.
CallRaises(c) ==
  /\ callPc[c] = "print"
  /\ callPc' = [callPc EXCEPT ![c] = "raised"]
  /\ UNCHANGED <<stdout, orig, text, returned, shared>>

GetValue(c) ==
  /\ callPc[c] = "getvalue"
  /\ returned' = [returned EXCEPT ![c] = text[c]]
  /\ callPc' = [callPc EXCEPT ![c] = "restore"]
  /\ UNCHANGED <<stdout, orig, text, shared>>

\* finally: sys.stdout becomes what it was when this call began, and whoever
\* saved this call's buffer will put that one back.
Restore(c) ==
  /\ callPc[c] \in {"raised", "restore"}
  /\ stdout' = orig[c]
  /\ orig' = [d \in Callers |-> IF d = c THEN None
                                ELSE IF orig[d] = c THEN Lost ELSE orig[d]]
  /\ callPc' = [callPc EXCEPT ![c] = "out"]
  /\ text' = [text EXCEPT ![c] = None]
  /\ returned' = [returned EXCEPT ![c] = None]
  /\ shared' = [shared EXCEPT ![c] = FALSE]

\* The part of a call between its beginning and its end.
CallStep(c) == Redirect(c) \/ PrintResult(c) \/ CallRaises(c) \/ GetValue(c)

-----------------------------------------------------------------------------
\* Types; and sys.stdout never is the buffer of a call that has not begun or
\* has ended.
CallTypeOK ==
  /\ stdout \in Callers \cup {Console, Lost}
  /\ callPc \in [Callers -> CallPcs]
  /\ orig \in [Callers -> Callers \cup {Console, Lost, None}]
  /\ text \in [Callers -> Callers \cup {None, Garbled}]
  /\ returned \in [Callers -> Callers \cup {None, Garbled}]
  /\ shared \in [Callers -> BOOLEAN]
  /\ stdout \in Callers => Inside(stdout)

\* A call that no other overlaps, if it returns, returns its own result and nothing
\* else, also when earlier overlapping calls, or calls that raised, have left
\* sys.stdout on a buffer of theirs.
LoneCallIsRight ==
  \A c \in Callers : callPc[c] = "restore" /\ ~shared[c] => returned[c] = c

\* What the docstring of run_cli_from_json says, and the code keeps for lone
\* calls only: "return the raw stdout that run_cli() would have printed".
CallReturnsOwnResult ==
  \A c \in Callers : callPc[c] = "restore" => returned[c] = c
=============================================================================
