----------------------------- MODULE CliCommand -----------------------------
(***************************************************************************)
(* One invocation of the command line (runCli in cli.ts) and, for the      *)
(* command `run`, the one run of a Rolekit that it starts                  *)
(* (createConfiguredRun in composition.ts), which is the run of RolekitRun.*)
(*                                                                         *)
(* A command is the sequence of its awaits.  SIGINT and SIGTERM are        *)
(* captured for as long as the command lasts: the first one is recorded,   *)
(* the controller is aborted, and the command goes on to its next check.   *)
(* Signals arrive between two awaits' continuations, never within one, so  *)
(* what follows an await up to the next one is a single action.            *)
(***************************************************************************)
EXTENDS RolekitRun, Integers, Sequences

CONSTANTS
  TheRun,       \* the only call of Rolekit.run
  TheRunId,     \* the id createRunId gives it
  Controller    \* controller.signal

ASSUME OneRunAssumption == Calls = {TheRun} /\ RunIds = {TheRunId} /\ Signals = {Controller}
\* The bundled adapters all implement cancel, the clock is the system's, and
\* nobody subscribes to the run's events.
ASSUME CompositionAssumption == AdapterCancels /\ ~ClockMayFail /\ MaxSequence = 0

VARIABLES
  command,         \* the command of the arguments
  phase,           \* where runCli is
  awaits,          \* the awaits of the command still to come, the current one first
  receivedSignal,  \* context.receivedSignal
  settlement,      \* the CommandResult or failure: its exit code
  envelope,        \* what is being rendered
  exitCode         \* what runCli returned

cliVars == <<command, phase, awaits, receivedSignal, settlement, envelope, exitCode>>
runVars == vars
allVars == <<cliVars, runVars>>

CliSignals == {"SIGINT", "SIGTERM"}

\* The awaits of each command, in order.
Script == [
  help           |-> <<>>,
  version        |-> <<"package">>,
  validate       |-> <<"data">>,
  configValidate |-> <<"config", "validation">>,
  compile        |-> <<"data", "config", "binding", "plan">>,
  run            |-> <<"data", "configured", "run">>,
  finalize       |-> <<"plan", "receipt", "finalization">>,
  list           |-> <<"config", "inspection">>,
  describe       |-> <<"config", "inspection">>,
  probe          |-> <<"config", "inspection", "probe">>]

\* How an await may fail: usage errors are also found after files were read
\* (an unknown contract kind, a missing --executor or --receipt).
FailuresOf(await) ==
  CASE await = "package" -> {"unexpected_error"}
    [] await \in {"data", "plan", "receipt"} -> {"usage_error", "rolekit_error"}
    [] await = "configured" -> {"config_error", "host_execution_required"}
    [] await = "inspection" -> {"usage_error", "config_error"}
    [] await = "finalization" -> {"rolekit_error"}
    [] await = "run" -> {"rolekit_error", "unexpected_error"}
    [] OTHER -> {"config_error"}

\* cliError
FailureExit(code) ==
  CASE code = "usage_error" -> 2
    [] code \in {"config_error", "rolekit_error"} -> 3
    [] code = "host_execution_required" -> 4
    [] OTHER -> 1

SignalExit(s) == IF s = "SIGINT" THEN 130 ELSE 143

\* resultExitCode
ResultExit(status) ==
  CASE status = "completed" -> 0
    [] status = "blocked" -> 4
    [] status = "cancelled" /\ receivedSignal \in CliSignals -> SignalExit(receivedSignal)
    [] OTHER -> 1

NoEnvelope == [ok |-> FALSE, says |-> "none"]
Interrupted == receivedSignal # "none"

CliInit ==
  /\ Init
  /\ command \in DOMAIN Script
  /\ phase = "parsing"
  /\ awaits = Script[command]
  /\ receivedSignal = "none"
  /\ settlement = 0
  /\ envelope = NoEnvelope
  /\ exitCode = -1

-----------------------------------------------------------------------------
(* How executeCommand settles, as the rendering sees it. *)

Render(ok, says, exit) ==
  /\ envelope' = [ok |-> ok, says |-> says]
  /\ settlement' = exit
  /\ phase' = "rendering"
  /\ awaits' = <<>>
  /\ UNCHANGED <<command, receivedSignal, exitCode>>

\* It throws; a signal that has been received overrides the error.
Fails(code) ==
  IF Interrupted
  THEN Render(FALSE, receivedSignal, SignalExit(receivedSignal))
  ELSE Render(FALSE, code, FailureExit(code))

\* It returns; only a cancelled run result is still told after a signal.
Returns(data, exit) ==
  IF Interrupted /\ data # "cancelled"
  THEN Render(FALSE, receivedSignal, SignalExit(receivedSignal))
  ELSE Render(TRUE, data, exit)

\* parseArguments and the checks before the first await.
ParseFails ==
  /\ phase = "parsing"
  /\ Fails("usage_error")
  /\ UNCHANGED runVars

Parse ==
  /\ phase = "parsing"
  /\ IF awaits = <<>>
     THEN Returns("data", 0)
     ELSE phase' = "awaiting"
          /\ UNCHANGED <<command, awaits, receivedSignal, settlement, envelope, exitCode>>
  /\ UNCHANGED runVars

-----------------------------------------------------------------------------
(* From one await to the next. *)

Awaiting(await) == phase = "awaiting" /\ awaits # <<>> /\ Head(awaits) = await
Proceed ==
  /\ awaits' = Tail(awaits)
  /\ UNCHANGED <<command, phase, receivedSignal, settlement, envelope, exitCode>>

\* assertCommandActive comes before these.
Checked == {"configured", "run", "probe"}
\* Their awaits are not: they have their own actions.
Plain(await) == await # "run" /\ Awaiting(await)

AwaitFails(await, code) ==
  /\ Plain(await)
  /\ code \in FailuresOf(await)
  /\ Fails(code)
  /\ UNCHANGED runVars

\* The last await: compile may be denied, finalize and probe tell anything.
CommandReturns(await) ==
  /\ Plain(await)
  /\ Len(awaits) = 1
  /\ \/ command # "finalize" /\ Returns("data", 0)
     \/ command = "compile" /\ Returns("data", 4)
     \/ command = "finalize" /\ \E s \in TerminalStatuses : Returns(s, ResultExit(s))
  /\ UNCHANGED runVars

NextAwait(await) ==
  /\ Plain(await)
  /\ Len(awaits) > 1
  /\ awaits[2] \notin Checked
  /\ Proceed
  /\ UNCHANGED runVars

CheckInterrupts(await) ==
  /\ Plain(await)
  /\ Len(awaits) > 1 /\ awaits[2] \in Checked /\ Interrupted
  /\ Fails("unexpected_error")
  /\ UNCHANGED runVars

CheckPasses(await) ==
  /\ Plain(await)
  /\ Len(awaits) > 1 /\ awaits[2] \in Checked \ {"run"} /\ ~Interrupted
  /\ Proceed
  /\ UNCHANGED runVars

\* Mutant (NoWorkAfterSignal): the run is started without context.signal.
StartsUnsignalled == Start(TheRun, TheRunId, NoSignal)

StartsConfigured == Start(TheRun, TheRunId, Controller)

\* What run() settled with is the command's result.
RunSettled ==
  IF result'[TheRun] = "rejected"
  THEN \E code \in FailuresOf("run") : Fails(code)
  ELSE Returns(result'[TheRun], ResultExit(result'[TheRun]))

\* configured.run: Rolekit.run goes to its first await, or throws before it.
StartRun ==
  /\ Awaiting("configured") /\ ~Interrupted
  /\ StartsConfigured \/ Refuse(TheRun, NoRunId)
  /\ IF pc'[TheRun] = "settled" THEN RunSettled ELSE Proceed

\* Everything Rolekit.run does is part of the command's last await.
RunContinues ==
  /\ Awaiting("run")
  /\ Continue(TheRun)
  /\ IF pc'[TheRun] = "settled" THEN RunSettled ELSE UNCHANGED cliVars

AdapterAnswers ==
  /\ Awaiting("run")
  /\ ProbeAnswers(TheRun) \/ ExecuteAnswers(TheRun)
  /\ UNCHANGED cliVars

AdapterCancelSettles == CancelSettles(TheRun) /\ UNCHANGED cliVars

-----------------------------------------------------------------------------
(* Signals and the rendering. *)

\* Mutants: the last signal counts (ExitCodeHonest); the run is not told
\* (InterruptedCommandsEnd).
LastSignal(s) == s
SignalKept(s) == UNCHANGED runVars

FirstSignal(s) == IF Interrupted THEN receivedSignal ELSE s

AbortsController(s) ==
  IF Controller \in aborted THEN UNCHANGED runVars ELSE Abort(Controller)

\* captureSignal, while the handlers are installed.
CaptureSignal(s) ==
  /\ phase \in {"awaiting", "rendering"}
  /\ receivedSignal' = FirstSignal(s)
  /\ AbortsController(s)
  /\ UNCHANGED <<command, phase, awaits, settlement, envelope, exitCode>>

\* The one write is over: a signal received since then has the last word on
\* the exit code.
Written ==
  /\ phase = "rendering"
  /\ phase' = "returned"
  /\ exitCode' = IF Interrupted THEN SignalExit(receivedSignal) ELSE settlement
  /\ UNCHANGED <<command, awaits, receivedSignal, settlement, envelope, runVars>>

\* runCli rejects, and so does main: Node exits with 1.
WriteFails ==
  /\ phase = "rendering"
  /\ phase' = "rejected"
  /\ exitCode' = 1
  /\ UNCHANGED <<command, awaits, receivedSignal, settlement, envelope, runVars>>

-----------------------------------------------------------------------------
AwaitNames == UNION {{Script[c][i] : i \in DOMAIN Script[c]} : c \in DOMAIN Script}

AwaitEnds(await) ==
  \/ \E code \in FailuresOf(await) : AwaitFails(await, code)
  \/ CommandReturns(await)
  \/ NextAwait(await)
  \/ CheckInterrupts(await)
  \/ CheckPasses(await)

Finished == phase \in {"returned", "rejected"} /\ UNCHANGED allVars

CliNext ==
  \/ Parse
  \/ ParseFails
  \/ \E await \in AwaitNames : AwaitEnds(await)
  \/ StartRun
  \/ RunContinues
  \/ AdapterAnswers
  \/ AdapterCancelSettles
  \/ \E s \in CliSignals : CaptureSignal(s)
  \/ Written
  \/ WriteFails
  \/ Finished

\* Files are read and output is written in the end.  An adapter answers a
\* probe or an execution once it is told to stop.
CliFairness ==
  /\ WF_allVars(Parse)
  /\ \A await \in AwaitNames \ {"probe"} : WF_allVars(AwaitEnds(await))
  /\ WF_allVars(Controller \in aborted /\ AwaitEnds("probe"))
  /\ WF_allVars(StartRun)
  /\ WF_allVars(RunContinues)
  /\ WF_allVars(IsAborted(TheRun) /\ AdapterAnswers)
  /\ WF_allVars(AdapterCancelSettles)
  /\ WF_allVars(Written)

CliSpec == CliInit /\ [][CliNext]_allVars /\ CliFairness

-----------------------------------------------------------------------------
(* Properties. *)

\* The exit code means what the README says: 130 and 143 tell the signal that
\* was received first, and so does an envelope that names one, however many
\* signals come and whether or not they come while it is written; 0 tells that
\* the work was done and told, of which a run means that the adapter was
\* admitted and executed; and a run's envelope tells what run() settled with.
ExitCodeHonest ==
  phase = "returned" =>
    /\ \A s \in CliSignals : exitCode = SignalExit(s) <=> receivedSignal = s
    /\ envelope.says \in CliSignals => exitCode = SignalExit(envelope.says)
    /\ exitCode = 0 =>
         /\ envelope.ok
         /\ command = "run" => result[TheRun] = "completed" /\ TheRun \in executed
    /\ command = "run" /\ envelope.ok => envelope.says = result[TheRun]

\* Once a signal was received no adapter is handed a task, no run is begun and
\* no executor probed by the command.
NoWorkAfterSignal ==
  [][Interrupted =>
       /\ executed' = executed
       /\ awaits' # awaits /\ awaits' # <<>> => Head(awaits') \notin Checked]_allVars

\* A command that received a signal ends, whatever it was doing and although
\* its adapter would have run for ever.
InterruptedCommandsEnd == Interrupted ~> (phase \in {"returned", "rejected"})
=============================================================================
