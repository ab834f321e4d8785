----------------------------- MODULE CliProcess -----------------------------
(***************************************************************************)
(* runCliProcess (adapters/cli/process.ts): one command, from the caller's *)
(* abort signal and executable resolution over the child's output, exit,   *)
(* errors and timeout to the promise that settles once.  The child and its *)
(* termination are ProcessTree, with the one terminator "run".             *)
(*                                                                         *)
(* An action is one event the process handles to its end.  Output is       *)
(* counted in units; only how much of it is kept matters.                  *)
(***************************************************************************)
EXTENDS ProcessTree, Naturals

CONSTANTS
  MaxOutput,   \* maxOutputBytes
  MaxChunk     \* bound: the largest chunk a pipe delivers

ASSUME OutputAssumption == MaxOutput \in Nat /\ MaxChunk \in Nat \ {0}
ASSUME TerminatorAssumption == Terminators = {"run"}

VARIABLES
  stage,         \* entry, resolving, or process: where runCliProcess is
  aborted,       \* options.signal.aborted
  listener,      \* onAbort is registered
  timer,         \* the timeout is armed
  child,         \* none, failed (spawned, will report an error), spawned, closed
  stdout,        \* output retained from each stream
  stderr,
  dropped,       \* output was received and not retained
  terminalError, \* cancelled, timeout or output_limit: why termination was started
  outcome        \* pending, resolved, or the error it rejected with

runVars == <<stage, aborted, listener, timer, child, stdout, stderr, dropped,
             terminalError, outcome>>
vars == <<runVars, treeVars>>

Streams == {"stdout", "stderr"}
outputBytes == stdout + stderr
Pending == outcome = "pending"

Init ==
  /\ TreeInit({})
  /\ stage = "entry"
  /\ aborted \in BOOLEAN
  /\ listener = FALSE
  /\ timer = FALSE
  /\ child = "none"
  /\ stdout = 0
  /\ stderr = 0
  /\ dropped = FALSE
  /\ terminalError = "none"
  /\ outcome = "pending"

\* settleRejected and settleResolved: the first wins, and cleans up.
Settle(verdict) ==
  /\ outcome' = IF Pending THEN verdict ELSE outcome
  /\ timer' = FALSE
  /\ listener' = FALSE

-----------------------------------------------------------------------------
(* Up to the spawned child. *)

Enter ==
  /\ stage = "entry" /\ Pending
  /\ IF aborted
     THEN Settle("cancelled") /\ UNCHANGED stage
     ELSE stage' = "resolving" /\ UNCHANGED <<outcome, timer, listener>>
  /\ UNCHANGED <<aborted, child, stdout, stderr, dropped, terminalError, treeVars>>

ResolveFails ==
  /\ stage = "resolving" /\ Pending
  /\ Settle("executable_not_found")
  /\ UNCHANGED <<stage, aborted, child, stdout, stderr, dropped, terminalError, treeVars>>

ResolvedAborted ==
  /\ stage = "resolving" /\ Pending
  /\ aborted
  /\ Settle("cancelled")
  /\ UNCHANGED <<stage, aborted, child, stdout, stderr, dropped, terminalError, treeVars>>

\* spawn throws after the abort listener was added: settling removes it.
SpawnThrows ==
  /\ stage = "resolving" /\ Pending
  /\ ~aborted
  /\ stage' = "process"
  /\ Settle("spawn")
  /\ UNCHANGED <<aborted, child, stdout, stderr, dropped, terminalError, treeVars>>

\* The child runs, or exists only to report why it could not be started.
Spawn(kind) ==
  /\ stage = "resolving" /\ Pending
  /\ ~aborted
  /\ stage' = "process"
  /\ child' = kind
  /\ listener' = TRUE
  /\ timer' = TRUE
  /\ IF kind = "spawned" THEN SpawnLeader ELSE UNCHANGED treeVars
  /\ UNCHANGED <<aborted, stdout, stderr, dropped, terminalError, outcome>>

-----------------------------------------------------------------------------
(* Events of the child, the timer and the signal. *)

\* terminateWith: the first error is the one the promise will reject with.
TerminateWith(error) ==
  IF terminalError # "none" \/ ~Pending
  THEN UNCHANGED <<terminalError, timer, treeVars>>
  ELSE /\ terminalError' = error
       /\ timer' = FALSE
       /\ StartTermination("run")

\* The budget is shared by both streams, and the chunk that exceeds it is kept
\* up to the limit.  Mutant (ResourcesBounded): a budget for each stream.
RemainingOf(stream) == MaxOutput - (IF stream = "stdout" THEN stdout ELSE stderr)
Remaining(stream) == MaxOutput - outputBytes

\* onData.
Data(stream, size) ==
  LET retained == IF size <= Remaining(stream) THEN size ELSE Remaining(stream)
      ignored == terminalError # "none" \/ ~Pending
  IN  /\ child = "spawned"
      /\ IF ignored
         THEN UNCHANGED <<stdout, stderr, terminalError, timer, treeVars>>
         ELSE /\ stdout' = IF stream = "stdout" THEN stdout + retained ELSE stdout
              /\ stderr' = IF stream = "stderr" THEN stderr + retained ELSE stderr
              /\ IF retained < size
                 THEN TerminateWith("output_limit")
                 ELSE UNCHANGED <<terminalError, timer, treeVars>>
      /\ dropped' = (dropped \/ ignored \/ retained < size)
      /\ UNCHANGED <<stage, aborted, listener, child, outcome>>

Timeout ==
  /\ timer
  /\ TerminateWith("timeout")
  /\ UNCHANGED <<stage, aborted, listener, child, stdout, stderr, dropped, outcome>>

\* { once: true }: the listener is gone after the first call.
Abort ==
  /\ ~aborted
  /\ aborted' = TRUE
  /\ listener' = FALSE
  /\ IF listener
     THEN TerminateWith("cancelled")
     ELSE UNCHANGED <<terminalError, timer, treeVars>>
  /\ UNCHANGED <<stage, child, stdout, stderr, dropped, outcome>>

\* An event of the child counts only while nothing has been decided.  Mutant
\* (FirstCauseWins): while nothing has been settled.
UndecidedIfPending == Pending
Undecided == terminalError = "none" /\ Pending

\* The 'error' event of a child that could not be started.
ErrorEvent ==
  /\ child = "failed"
  /\ child' = "closed"
  /\ IF Undecided THEN Settle("spawn") ELSE UNCHANGED <<outcome, timer, listener>>
  /\ UNCHANGED <<stage, aborted, stdout, stderr, dropped, terminalError, treeVars>>

\* The 'close' event: the leader is gone and its pipes are closed.  Only exit
\* code 0 resolves; another code, a signal or neither rejects.
CloseEvent(verdict) ==
  /\ child = "spawned" /\ Leader \notin alive
  /\ child' = "closed"
  /\ IF Undecided THEN Settle(verdict) ELSE UNCHANGED <<outcome, timer, listener>>
  /\ UNCHANGED <<stage, aborted, stdout, stderr, dropped, terminalError, treeVars>>

\* Mutant (NoSurvivors): the termination is not awaited.
TerminationUnawaited ==
  /\ termination["run"] # "none" /\ Pending
  /\ child' = "closed"
  /\ Settle(terminalError)
  /\ UNCHANGED <<stage, aborted, stdout, stderr, dropped, terminalError, treeVars>>

\* terminateProcessTree is over, verified or not: the pipes are destroyed and
\* the promise rejects with the terminal error.
TerminationSettles ==
  /\ termination["run"] = "done" /\ Pending
  /\ child' = "closed"
  /\ Settle(terminalError)
  /\ UNCHANGED <<stage, aborted, stdout, stderr, dropped, terminalError, treeVars>>

Tree == TreeNext /\ UNCHANGED runVars

\* The promise has settled and nothing is left to happen.
Done == ~Pending /\ UNCHANGED vars

Next ==
  \/ Enter
  \/ ResolveFails
  \/ ResolvedAborted
  \/ SpawnThrows
  \/ \E kind \in {"spawned", "failed"} : Spawn(kind)
  \/ \E stream \in Streams, size \in 1 .. MaxChunk : Data(stream, size)
  \/ Timeout
  \/ Abort
  \/ ErrorEvent
  \/ \E verdict \in {"resolved", "exit"} : CloseEvent(verdict)
  \/ TerminationSettles
  \/ Tree
  \/ Done

Spec == Init /\ [][Next]_vars

\* Resolution ends, timers fire and their callbacks run; the child itself may
\* hang for ever, and only a signal it cannot ignore makes it end.
Fairness ==
  /\ WF_vars(Enter)
  /\ WF_vars(ResolveFails \/ ResolvedAborted \/ SpawnThrows
             \/ \E kind \in {"spawned", "failed"} : Spawn(kind))
  /\ WF_vars(Timeout)
  /\ WF_vars(ErrorEvent)
  /\ WF_vars(TerminationSettles)
  /\ WF_vars(\E t \in Terminators : EndGrace(t) /\ UNCHANGED runVars)
  /\ \A p \in Processes : WF_vars(Doomed(p) /\ Exit(p) /\ UNCHANGED runVars)

FairSpec == Spec /\ Fairness
-----------------------------------------------------------------------------
(* Properties. *)

\* The retained output of both streams together stays within the limit, a
\* command whose output was cut is never reported as successful, and the timer
\* and the abort listener do not outlive the promise.
ResourcesBounded ==
  /\ outputBytes <= MaxOutput
  /\ outcome = "resolved" => ~dropped
  /\ listener \/ timer => Pending /\ stage = "process"

\* What stopped the command is what the caller is told, however the child ends
\* and whatever else happens while the tree is being terminated; a command whose
\* caller aborts before its promise has settled, also while the executable is
\* being resolved, never resolves.
FirstCauseWins ==
  /\ [][terminalError # "none" =>
          /\ terminalError' = terminalError
          /\ Pending => outcome' \in {"pending", terminalError}]_vars
  /\ [](aborted /\ Pending => [](outcome # "resolved"))

\* When a cancelled, timed-out or too verbose command is reported, every
\* process of its group has ended or has been sent SIGKILL; if the group cannot
\* be signalled this holds of the leader.
NoSurvivors ==
  outcome = terminalError =>
    IF groupReachable THEN alive \subseteq killed ELSE alive \cap {Leader} \subseteq killed

\* Every call settles, even if the command hangs and ignores SIGTERM.
Settles == <>(~Pending)
=============================================================================
