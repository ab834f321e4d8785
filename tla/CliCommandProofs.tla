--------------------------- MODULE CliCommandProofs ---------------------------
(***************************************************************************)
(* Proofs about an invocation of the command line.  The command `run` is   *)
(* shown to take Rolekit.run's own steps or none, so that what holds of    *)
(* every run holds of the one it starts; what the exit code tells then     *)
(* follows from an invariant that relates it to that run.                  *)
(***************************************************************************)
EXTENDS CliCommand, RolekitRunProofs

\* Everything a command may await.
Awaited == {"package", "data", "config", "validation", "binding", "plan", "configured", "run",
            "receipt", "finalization", "inspection", "probe"}

\* Every variable of the command has its type.
CommandTypeInv ==
  /\ command \in DOMAIN Script
  /\ phase \in {"parsing", "awaiting", "rendering", "returned", "rejected"}
  /\ awaits \in Seq(Awaited)
  /\ receivedSignal \in CliSignals \cup {"none"}
  /\ envelope.ok \in BOOLEAN

\* Before anything was awaited every await is still to come, and the awaits of
\* a run that have not ended yet end with the run itself.
ScriptInv ==
  /\ phase = "parsing" => awaits = Script[command]
  /\ command = "run" /\ phase \in {"parsing", "awaiting"} =>
       awaits \in {<<"data", "configured", "run">>, <<"configured", "run">>, <<"run">>}

\* A signal that was received has aborted the controller, and that is the
\* signal a run in flight was given.
SignalInv ==
  /\ Interrupted => Controller \in aborted
  /\ Active(TheRun) => signal[TheRun] = Controller

\* What is rendered: an exit code of a signal, or an envelope that names one,
\* comes from the signal that was received; success was told as such, and a
\* run's envelope tells the result of that run.
RenderInv ==
  /\ phase \in {"rendering", "returned"} =>
       /\ settlement \in 0 .. 4 \/ (Interrupted /\ settlement = SignalExit(receivedSignal))
       /\ envelope.says \in CliSignals => envelope.says = receivedSignal
       /\ settlement = 0 => envelope.ok
       /\ command = "run" /\ envelope.ok =>
            /\ envelope.says = result[TheRun]
            /\ settlement = 0 => result[TheRun] = "completed"
  /\ phase = "returned" =>
       exitCode = IF Interrupted THEN SignalExit(receivedSignal) ELSE settlement

CommandInv == CommandTypeInv /\ ScriptInv /\ SignalInv /\ RenderInv

-----------------------------------------------------------------------------
(* The run that a command starts. *)

\* Every step of a command is a step of Rolekit.run or leaves the run alone.
LEMMA CommandStepsRun == [CliNext]_allVars => [Next]_vars
<1> USE OneRunAssumption DEF runVars
<1>1. ASSUME UNCHANGED vars PROVE [Next]_vars
  BY <1>1
<1>2. ASSUME StartRun PROVE Next
  BY <1>2 DEF StartRun, StartsConfigured, Next, SignalChoices
<1>3. ASSUME RunContinues PROVE Next
  BY <1>3 DEF RunContinues, Next
<1>4. ASSUME AdapterAnswers PROVE Next
  BY <1>4 DEF AdapterAnswers, Next
<1>5. ASSUME AdapterCancelSettles PROVE Next
  BY <1>5 DEF AdapterCancelSettles, Next
<1>6. ASSUME NEW s \in CliSignals, CaptureSignal(s) PROVE [Next]_vars
  BY <1>6 DEF CaptureSignal, AbortsController, Next
<1>7. ASSUME NEW await \in AwaitNames, AwaitEnds(await) PROVE UNCHANGED vars
  BY <1>7 DEF AwaitEnds, AwaitFails, CommandReturns, NextAwait, CheckInterrupts, CheckPasses
<1>8. ASSUME Parse \/ ParseFails \/ Finished \/ UNCHANGED allVars PROVE UNCHANGED vars
  BY <1>8 DEF Parse, ParseFails, Finished, allVars
<1>9. ASSUME Written \/ WriteFails PROVE UNCHANGED vars
  BY <1>9 DEF Written, WriteFails, vars
<1> QED
  BY <1>2, <1>3, <1>4, <1>5, <1>6, <1>7, <1>8, <1>9 DEF CliNext

(***************************************************************************)
(* The run of a command is a run of Rolekit.run, whatever is awaited and   *)
(* whenever the signals come (createConfiguredRun in composition.ts).      *)
(***************************************************************************)
THEOREM CommandRunsARun == CliSpec => Spec
<1>1. CliInit => Init
  BY DEF CliInit
<1> QED
  BY <1>1, CommandStepsRun, PTL DEF CliSpec, Spec

-----------------------------------------------------------------------------
(* How a command settles. *)

Codes == {"usage_error", "rolekit_error", "config_error", "host_execution_required",
          "unexpected_error"}

\* The part of the invariant that the run's own state does not disturb.
Rendered == CommandTypeInv /\ ScriptInv /\ RenderInv

\* A command that throws tells the error, or the signal it received.
LEMMA FailsRendered ==
  ASSUME CommandInv, NEW code \in Codes, Fails(code)
  PROVE  Rendered'
<1>1. /\ envelope' = [ok |-> FALSE, says |-> IF Interrupted THEN receivedSignal ELSE code]
      /\ settlement' = IF Interrupted THEN SignalExit(receivedSignal) ELSE FailureExit(code)
      /\ phase' = "rendering" /\ awaits' = <<>>
      /\ UNCHANGED <<command, receivedSignal, exitCode>>
  BY DEF Fails, Render
<1>2. FailureExit(code) \in 1 .. 4
  BY DEF FailureExit, Codes
<1>3. CommandTypeInv'
  <2>1. awaits' \in Seq(Awaited)
    BY <1>1
  <2> QED
    BY <1>1, <2>1 DEF CommandInv, CommandTypeInv, CliSignals, Codes
<1>4. RenderInv'
  BY <1>1, <1>2 DEF CommandInv, CommandTypeInv, RenderInv, Interrupted, CliSignals, Codes, SignalExit
<1> QED
  BY <1>1, <1>3, <1>4 DEF Rendered, ScriptInv

\* A command that returns tells its data, or the signal it received; `run`
\* returns what its run settled with.
LEMMA ReturnsRendered ==
  ASSUME CommandInv, NEW data, NEW exit \in Nat, Returns(data, exit),
         data \notin CliSignals,
         exit \in 0 .. 4 \/ (Interrupted /\ exit = SignalExit(receivedSignal)),
         command = "run" => data = result'[TheRun] /\ (exit = 0 => data = "completed")
  PROVE  Rendered'
<1>1. /\ phase' = "rendering" /\ awaits' = <<>>
      /\ UNCHANGED <<command, receivedSignal, exitCode>>
  BY DEF Returns, Render
<1>0. awaits' \in Seq(Awaited)
  BY <1>1
<1> USE <1>0
<1>2. CASE Interrupted /\ data # "cancelled"
  <2>1. /\ envelope' = [ok |-> FALSE, says |-> receivedSignal]
        /\ settlement' = SignalExit(receivedSignal)
    BY <1>2 DEF Returns, Render
  <2> QED
    BY <1>1, <1>2, <2>1 DEF CommandInv, CommandTypeInv, Rendered, ScriptInv, RenderInv,
                            Interrupted, CliSignals, SignalExit
<1>3. CASE ~(Interrupted /\ data # "cancelled")
  <2>1. envelope' = [ok |-> TRUE, says |-> data] /\ settlement' = exit
    BY <1>3 DEF Returns, Render
  <2> QED
    BY <1>1, <1>3, <2>1 DEF CommandInv, CommandTypeInv, Rendered, ScriptInv, RenderInv,
                            Interrupted, CliSignals
<1> QED
  BY <1>2, <1>3

\* The exit code of a result is a small one or the received signal's, and 0
\* is that of a completed run.
LEMMA ResultExitRange ==
  ASSUME CommandTypeInv, NEW status
  PROVE  /\ ResultExit(status) \in 0 .. 4 \/ (Interrupted /\ ResultExit(status) = SignalExit(receivedSignal))
         /\ ResultExit(status) = 0 => status = "completed"
         /\ ResultExit(status) \in Nat
  BY DEF CommandTypeInv, ResultExit, Interrupted, CliSignals, SignalExit

\* Every way an await may fail is told as one of the codes.
LEMMA FailureCodes ==
  ASSUME NEW await, NEW code \in FailuresOf(await)
  PROVE  code \in Codes
  BY DEF FailuresOf, Codes

\* A run that settled is told as it settled.
LEMMA RunSettledRendered ==
  ASSUME CommandInv, TypeOK', RunSettled
  PROVE  Rendered'
<1>1. TheRun \in Calls
  BY OneRunAssumption
<1>2. CASE result'[TheRun] = "rejected"
  BY <1>2, FailsRendered, FailureCodes DEF RunSettled
<1>3. CASE result'[TheRun] # "rejected"
  <2>1. result'[TheRun] \notin CliSignals
    <3>1. result'[TheRun] \in Results \cup {"pending"}
      BY <1>1 DEF TypeOK
    <3> QED
      BY <3>1 DEF Results, TerminalStatuses, CliSignals
  <2>2. PICK data, exit : data = result'[TheRun] /\ exit = ResultExit(data)
    OBVIOUS
  <2>3. Returns(data, exit)
    BY <1>3, <2>2 DEF RunSettled, Returns, Render
  <2>4. exit \in Nat
    BY <2>2, ResultExitRange DEF CommandInv
  <2> QED
    BY <2>1, <2>2, <2>3, <2>4, ReturnsRendered, ResultExitRange DEF CommandInv
<1> QED
  BY <1>2, <1>3

\* Going on to the next await.
LEMMA ProceedRendered ==
  ASSUME CommandInv, NEW await, await # "run", Awaiting(await), Proceed,
         Len(awaits) > 1
  PROVE  Rendered'
<1>1. /\ awaits \in Seq(Awaited) /\ awaits # <<>> /\ awaits[1] # "run"
      /\ phase = "awaiting" /\ awaits' = Tail(awaits)
      /\ UNCHANGED <<command, phase, receivedSignal, settlement, envelope, exitCode>>
  BY DEF CommandInv, CommandTypeInv, Awaiting, Proceed
<1>2. ASSUME command = "run"
      PROVE  awaits' \in {<<"configured", "run">>, <<"run">>}
  <2>1. awaits \in {<<"data", "configured", "run">>, <<"configured", "run">>, <<"run">>}
    BY <1>1, <1>2 DEF CommandInv, ScriptInv
  <2>2. CASE awaits = <<"data", "configured", "run">>
    <3>1. Tail(awaits) = <<"configured", "run">>
      BY <2>2
    <3> QED
      BY <1>1, <3>1
  <2>3. CASE awaits = <<"configured", "run">>
    <3>1. Tail(awaits) = <<"run">>
      BY <2>3
    <3> QED
      BY <1>1, <3>1
  <2> QED
    BY <1>1, <2>1, <2>2, <2>3
<1>3. Tail(awaits) \in Seq(Awaited)
  BY <1>1
<1> QED
  BY <1>1, <1>2, <1>3 DEF CommandInv, CommandTypeInv, Rendered, ScriptInv, RenderInv

-----------------------------------------------------------------------------
(* The invariant. *)

\* The script of every command is a sequence of awaits.
LEMMA ScriptType ==
  ASSUME NEW c \in DOMAIN Script
  PROVE  Script[c] \in Seq(Awaited)
<1> USE DEF Script, Awaited
<1>1. /\ <<>> \in Seq(Awaited)
      /\ <<"package">> \in Seq(Awaited)
      /\ <<"data">> \in Seq(Awaited)
      /\ <<"config", "validation">> \in Seq(Awaited)
      /\ <<"data", "config", "binding", "plan">> \in Seq(Awaited)
  OBVIOUS
<1>2. /\ <<"data", "configured", "run">> \in Seq(Awaited)
      /\ <<"plan", "receipt", "finalization">> \in Seq(Awaited)
      /\ <<"config", "inspection">> \in Seq(Awaited)
      /\ <<"config", "inspection", "probe">> \in Seq(Awaited)
  OBVIOUS
<1>3. /\ Script["help"] = <<>>
      /\ Script["version"] = <<"package">>
      /\ Script["validate"] = <<"data">>
      /\ Script["configValidate"] = <<"config", "validation">>
      /\ Script["compile"] = <<"data", "config", "binding", "plan">>
      /\ Script["run"] = <<"data", "configured", "run">>
      /\ Script["finalize"] = <<"plan", "receipt", "finalization">>
      /\ Script["list"] = <<"config", "inspection">>
      /\ Script["describe"] = <<"config", "inspection">>
      /\ Script["probe"] = <<"config", "inspection", "probe">>
  OBVIOUS
<1>4. c \in {"help", "version", "validate", "configValidate", "compile", "run", "finalize", "list",
             "describe", "probe"}
  OBVIOUS
<1> HIDE DEF Script, Awaited
<1> QED
  BY <1>1, <1>2, <1>3, <1>4

\* SignalInv outlasts a step that captures no signal and starts no run.
LEMMA SignalKeptInv ==
  ASSUME SignalInv, receivedSignal' = receivedSignal, aborted \subseteq aborted',
         signal'[TheRun] = signal[TheRun], Active(TheRun)' => Active(TheRun)
  PROVE  SignalInv'
  BY DEF SignalInv, Interrupted

(***************************************************************************)
(* CommandInv holds: the controller is aborted by the first signal and is  *)
(* the run's signal, and what is rendered is what the run or the signal    *)
(* made of the command (runCli and captureSignal in cli.ts).               *)
(***************************************************************************)
THEOREM CommandInvariant == CliSpec => []CommandInv
<1>1. CliInit => CommandInv
  <2> SUFFICES ASSUME CliInit PROVE CommandInv
    OBVIOUS
  <2>1. awaits \in Seq(Awaited)
    BY ScriptType DEF CliInit
  <2>2. CommandTypeInv /\ RenderInv
    BY <2>1 DEF CliInit, CommandTypeInv, RenderInv, NoEnvelope
  <2>3. ScriptInv
    BY DEF CliInit, ScriptInv, Script
  <2>4. SignalInv
    BY OneRunAssumption DEF CliInit, Init, SignalInv, Interrupted, Active, ActivePhases
  <2> QED
    BY <2>2, <2>3, <2>4 DEF CommandInv
<1>2. TypeOK /\ TypeOK' /\ CommandInv /\ [CliNext]_allVars => CommandInv'
  <2> SUFFICES ASSUME TypeOK, TypeOK', CommandInv, [CliNext]_allVars PROVE CommandInv'
    OBVIOUS
  <2> USE OneRunAssumption DEF runVars
  <2>0. TheRun \in Calls /\ Controller \in Signals
    OBVIOUS
  <2>1. ASSUME UNCHANGED vars, receivedSignal' = receivedSignal PROVE SignalInv'
    BY <2>1, SignalKeptInv DEF vars, callVars, CommandInv, Active
  <2>2. ASSUME UNCHANGED <<cliVars, vars>> PROVE CommandInv'
    BY <2>2 DEF cliVars, vars, callVars, CommandInv, CommandTypeInv, ScriptInv, SignalInv, RenderInv,
                Active, Interrupted
  <2>3. CASE ParseFails
    BY <2>1, <2>3, FailsRendered DEF ParseFails, Fails, Render, Codes, Rendered, CommandInv
  <2>4. CASE Parse
    <3>1. CASE awaits = <<>>
      <4>1. command # "run"
        BY <2>4, <3>1 DEF Parse, CommandInv, ScriptInv
      <4>2. Returns("data", 0)
        BY <2>4, <3>1 DEF Parse
      <4>3. Rendered'
        BY <4>1, <4>2, ReturnsRendered DEF CliSignals
      <4> QED
        BY <2>1, <2>4, <4>2, <4>3 DEF Parse, Returns, Render, Rendered, CommandInv
    <3>2. CASE awaits # <<>>
      <4>1. /\ phase' = "awaiting" /\ phase = "parsing"
            /\ UNCHANGED <<command, awaits, receivedSignal, settlement, envelope, exitCode>>
        BY <2>4, <3>2 DEF Parse
      <4> QED
        BY <2>1, <2>4, <4>1 DEF Parse, CommandInv, CommandTypeInv, ScriptInv, RenderInv
    <3> QED
      BY <3>1, <3>2
  <2>5. ASSUME NEW await \in AwaitNames, NEW code \in FailuresOf(await), AwaitFails(await, code)
        PROVE  CommandInv'
    BY <2>1, <2>5, FailsRendered, FailureCodes DEF AwaitFails, Fails, Render, Rendered, CommandInv
  <2>6. ASSUME NEW await \in AwaitNames, CommandReturns(await)
        PROVE  CommandInv'
    <3>1. command # "run"
      BY <2>6 DEF CommandReturns, Plain, Awaiting, CommandInv, ScriptInv
    <3>2. Rendered'
      <4>1. CASE Returns("data", 0) \/ Returns("data", 4)
        BY <3>1, <4>1, ReturnsRendered DEF CliSignals
      <4>2. ASSUME NEW s \in TerminalStatuses, Returns(s, ResultExit(s)) PROVE Rendered'
        BY <3>1, <4>2, ReturnsRendered, ResultExitRange DEF CommandInv, TerminalStatuses, CliSignals
      <4> QED
        BY <2>6, <4>1, <4>2 DEF CommandReturns
    <3>3. receivedSignal' = receivedSignal /\ UNCHANGED vars
      BY <2>6 DEF CommandReturns, Returns, Render
    <3> QED
      BY <2>1, <3>2, <3>3 DEF Rendered, CommandInv
  <2>7. ASSUME NEW await \in AwaitNames, NextAwait(await) \/ CheckPasses(await)
        PROVE  CommandInv'
    <3>1. /\ await # "run" /\ Awaiting(await) /\ Proceed /\ Len(awaits) > 1
          /\ UNCHANGED vars
      BY <2>7 DEF NextAwait, CheckPasses, Plain
    <3> QED
      BY <2>1, <3>1, ProceedRendered DEF Proceed, Rendered, CommandInv
  <2>8. ASSUME NEW await \in AwaitNames, CheckInterrupts(await)
        PROVE  CommandInv'
    BY <2>1, <2>8, FailsRendered DEF CheckInterrupts, Fails, Render, Codes, Rendered, CommandInv
  <2>9. CASE StartRun
    <3>1. aborted' = aborted
      BY <2>9 DEF StartRun, StartsConfigured, Start, Refuse, StartThrows, StartDenied,
                  StartAborted, StartProbing, Claim
    <3>2. Active(TheRun)' => signal'[TheRun] = Controller
      <4>1. CASE Refuse(TheRun, NoRunId) \/ StartThrows(TheRun, TheRunId, Controller)
        BY <2>0, <4>1 DEF Refuse, StartThrows, TypeOK, Active, ActivePhases
      <4>2. ASSUME Capture(TheRun, TheRunId, Controller) PROVE signal'[TheRun] = Controller
        BY <2>0, <4>2 DEF Capture, TypeOK
      <4> QED
        BY <2>9, <4>1, <4>2 DEF StartRun, StartsConfigured, Start, StartDenied, StartAborted,
                                StartProbing, Claim
    <3>3. receivedSignal' = receivedSignal
      BY <2>9 DEF StartRun, RunSettled, Fails, Returns, Render, Proceed
    <3>4. SignalInv'
      BY <3>1, <3>2, <3>3 DEF CommandInv, SignalInv, Interrupted
    <3>5. Rendered'
      <4>1. CASE RunSettled
        BY <4>1, RunSettledRendered
      <4>2. CASE Proceed
        <5>1. CASE Len(awaits) > 1
          BY <2>9, <4>2, <5>1, ProceedRendered DEF StartRun
        <5>2. CASE ~(Len(awaits) > 1)
          <6>1. /\ awaits \in Seq(Awaited) /\ awaits # <<>> /\ Head(awaits) = "configured"
                /\ phase = "awaiting"
            BY <2>9 DEF StartRun, Awaiting, CommandInv, CommandTypeInv
          <6>2. command # "run"
            <7> SUFFICES ASSUME command = "run" PROVE FALSE
              OBVIOUS
            <7>1. awaits \in {<<"data", "configured", "run">>, <<"configured", "run">>, <<"run">>}
              BY <6>1 DEF CommandInv, ScriptInv
            <7> QED
              BY <5>2, <6>1, <7>1
          <6> QED
            BY <2>9, <4>2, <6>1, <6>2 DEF StartRun, Awaiting, Proceed, CommandInv, CommandTypeInv,
                                    Rendered, ScriptInv, RenderInv
        <5> QED
          BY <5>1, <5>2
      <4> QED
        BY <2>9, <4>1, <4>2 DEF StartRun
    <3> QED
      BY <3>4, <3>5 DEF Rendered, CommandInv
  <2>10. CASE RunContinues
    <3>1. aborted' = aborted /\ signal' = signal /\ (Active(TheRun)' => Active(TheRun))
      BY <2>0, <2>10 DEF RunContinues, Continue, TerminalPlanned, RuntimePlanEnds, RuntimePlanExecutes,
                    CancelAwaited, FinalizeSettles, TerminalEventThrows, Return, Throws, Release,
                    CancelCalled, callVars, TypeOK, Active, ActivePhases
    <3>2. receivedSignal' = receivedSignal
      BY <2>10 DEF RunContinues, RunSettled, Fails, Returns, Render, cliVars
    <3>3. SignalInv'
      BY <3>1, <3>2, SignalKeptInv DEF CommandInv
    <3>4. CASE RunSettled
      BY <3>3, <3>4, RunSettledRendered DEF Rendered, CommandInv
    <3>5. CASE UNCHANGED cliVars
      BY <2>10, <3>3, <3>5 DEF RunContinues, Awaiting, cliVars, CommandInv, CommandTypeInv, ScriptInv,
                               RenderInv
    <3> QED
      BY <2>10, <3>4, <3>5 DEF RunContinues
  <2>11. CASE AdapterAnswers \/ AdapterCancelSettles
    <3>1. /\ aborted' = aborted /\ signal' = signal /\ result' = result
          /\ Active(TheRun)' => Active(TheRun)
      BY <2>0, <2>11 DEF AdapterAnswers, AdapterCancelSettles, ProbeAnswers, ExecuteAnswers, ProbeSettles,
                    ExecuteSettles, CancelSettles, callVars, TypeOK, Active, ActivePhases
    <3>2. UNCHANGED cliVars
      BY <2>11 DEF AdapterAnswers, AdapterCancelSettles
    <3>3. SignalInv'
      BY <3>1, <3>2, SignalKeptInv DEF CommandInv, cliVars
    <3> QED
      BY <3>1, <3>2, <3>3 DEF cliVars, CommandInv, CommandTypeInv, ScriptInv, RenderInv, Interrupted
  <2>12. ASSUME NEW s \in CliSignals, CaptureSignal(s)
         PROVE  CommandInv'
    <3>1. /\ phase \in {"awaiting", "rendering"}
          /\ receivedSignal' = IF Interrupted THEN receivedSignal ELSE s
          /\ UNCHANGED <<command, phase, awaits, settlement, envelope, exitCode>>
      BY <2>12 DEF CaptureSignal, FirstSignal
    <3>2. /\ Controller \in aborted' /\ signal' = signal /\ pc' = pc /\ result' = result
      BY <2>12 DEF CaptureSignal, AbortsController, Abort, vars, callVars
    <3>3. receivedSignal' \in CliSignals
      BY <3>1 DEF CommandInv, CommandTypeInv, Interrupted
    <3>4. SignalInv'
      BY <3>2 DEF CommandInv, SignalInv, Active
    <3>5. RenderInv'
      <4>1. Interrupted => receivedSignal' = receivedSignal /\ Interrupted'
        BY <3>1 DEF Interrupted
      <4>2. envelope.says \in CliSignals /\ phase = "rendering" => Interrupted
        BY DEF CommandInv, RenderInv, Interrupted, CliSignals
      <4> QED
        BY <3>1, <3>2, <4>1, <4>2 DEF CommandInv, RenderInv
    <3> QED
      BY <3>1, <3>3, <3>4, <3>5 DEF CommandInv, CommandTypeInv, ScriptInv
  <2>13. CASE Written
    <3>1. /\ phase = "rendering" /\ phase' = "returned"
          /\ exitCode' = IF Interrupted THEN SignalExit(receivedSignal) ELSE settlement
          /\ UNCHANGED <<command, awaits, receivedSignal, settlement, envelope>> /\ UNCHANGED vars
      BY <2>13 DEF Written
    <3>2. result' = result
      BY <3>1 DEF vars
    <3> QED
      BY <2>1, <3>1, <3>2 DEF CommandInv, CommandTypeInv, ScriptInv, RenderInv, Interrupted
  <2>14. CASE WriteFails
    <3>1. /\ phase' = "rejected" /\ UNCHANGED vars
          /\ UNCHANGED <<command, awaits, receivedSignal, settlement, envelope>>
      BY <2>14 DEF WriteFails
    <3> QED
      BY <2>1, <3>1 DEF CommandInv, CommandTypeInv, ScriptInv, RenderInv
  <2>15. CASE Finished \/ UNCHANGED allVars
    BY <2>2, <2>15 DEF Finished, allVars
  <2> QED
    BY <2>3, <2>4, <2>5, <2>6, <2>7, <2>8, <2>9, <2>10, <2>11, <2>12, <2>13, <2>14, <2>15
    DEF CliNext, AwaitEnds
<1>3. CliSpec => []TypeOK
  BY CommandRunsARun, TypeCorrect, PTL
<1> QED
  BY <1>1, <1>2, <1>3, PTL DEF CliSpec

(***************************************************************************)
(* The exit code and the envelope tell what happened, whenever the signals *)
(* come: 130 and 143 the first one, 0 work that was done and, of a run, an *)
(* adapter that was admitted and executed.                                 *)
(***************************************************************************)
THEOREM ExitCodesAreHonest == CliSpec => []ExitCodeHonest
<1>1. CommandInv /\ GateInv => ExitCodeHonest
  <2> SUFFICES ASSUME CommandInv, GateInv, phase = "returned" PROVE ExitCodeHonest
    BY DEF ExitCodeHonest
  <2>1. /\ exitCode = IF Interrupted THEN SignalExit(receivedSignal) ELSE settlement
        /\ settlement \in 0 .. 4 \/ Interrupted
        /\ receivedSignal \in CliSignals \cup {"none"}
    BY DEF CommandInv, CommandTypeInv, RenderInv
  <2>2. \A s \in CliSignals : exitCode = SignalExit(s) <=> receivedSignal = s
    <3>1. CASE Interrupted
      BY <2>1, <3>1 DEF SignalExit, CliSignals, Interrupted
    <3>2. CASE ~Interrupted
      <4>1. exitCode \in 0 .. 4 /\ receivedSignal = "none"
        BY <2>1, <3>2 DEF Interrupted
      <4>2. \A s \in CliSignals : SignalExit(s) \in {130, 143} /\ s # "none"
        BY DEF SignalExit, CliSignals
      <4> QED
        BY <4>1, <4>2
    <3> QED
      BY <3>1, <3>2
  <2>3. envelope.says \in CliSignals => exitCode = SignalExit(envelope.says)
    BY <2>2 DEF CommandInv, RenderInv
  <2>4. exitCode = 0 => settlement = 0
    BY <2>1 DEF SignalExit
  <2>5. command = "run" /\ envelope.ok => envelope.says = result[TheRun]
    BY DEF CommandInv, RenderInv
  <2>6. exitCode = 0 =>
          /\ envelope.ok
          /\ command = "run" => result[TheRun] = "completed" /\ TheRun \in executed
    BY <2>4, OneRunAssumption DEF CommandInv, RenderInv, GateInv
  <2> QED
    BY <2>2, <2>3, <2>5, <2>6 DEF ExitCodeHonest
<1> QED
  BY <1>1, CommandInvariant, CommandRunsARun, GateInvariant, PTL

(***************************************************************************)
(* After the first signal no step executes the adapter or goes on to an    *)
(* await that begins work (assertCommandActive in cli.ts, and the signal   *)
(* that Rolekit.run looks at before it executes).                          *)
(***************************************************************************)
THEOREM NoWorkIsBegun == CliSpec => NoWorkAfterSignal
<1>1. ASSUME TypeOK, CommandInv, [CliNext]_allVars, Interrupted
      PROVE  /\ executed' = executed
             /\ awaits' # awaits /\ awaits' # <<>> => Head(awaits') \notin Checked
  <2> USE <1>1 DEF runVars
  <2>0. TheRun \in Calls
    BY OneRunAssumption
  <2>1. ASSUME UNCHANGED vars PROVE executed' = executed
    BY <2>1 DEF vars, gateVars, adapterVars
  <2>2. ASSUME awaits' = <<>> \/ awaits' = awaits
        PROVE  awaits' # awaits /\ awaits' # <<>> => Head(awaits') \notin Checked
    BY <2>2
  <2>3. CASE Parse \/ ParseFails
    BY <2>1, <2>2, <2>3 DEF Parse, ParseFails, Fails, Returns, Render
  <2>4. ASSUME NEW await \in AwaitNames, AwaitEnds(await), ~NextAwait(await)
        PROVE  UNCHANGED vars /\ awaits' = <<>>
    BY <2>4 DEF AwaitEnds, AwaitFails, CommandReturns, CheckInterrupts, CheckPasses, Fails, Returns,
                Render
  <2>5. ASSUME NEW await \in AwaitNames, NextAwait(await)
        PROVE  UNCHANGED vars /\ Head(awaits') \notin Checked
    <3>1. /\ awaits \in Seq(Awaited) /\ Len(awaits) > 1 /\ awaits' = Tail(awaits)
          /\ awaits[2] \notin Checked /\ UNCHANGED vars
      BY <2>5 DEF NextAwait, Proceed, CommandInv, CommandTypeInv
    <3>2. Head(Tail(awaits)) = awaits[2]
      BY <3>1
    <3> QED
      BY <3>1, <3>2
  <2>6. ASSUME StartRun PROVE FALSE
    BY <2>6 DEF StartRun
  <2>7. CASE RunContinues
    <3>1. ~RuntimePlanExecutes(TheRun)
      <4> SUFFICES ASSUME RuntimePlanExecutes(TheRun) PROVE FALSE
        OBVIOUS
      <4>1. Active(TheRun) /\ ~IsAborted(TheRun)
        BY DEF RuntimePlanExecutes, Active, ActivePhases
      <4> QED
        BY <4>1 DEF CommandInv, SignalInv, IsAborted
    <3>2. executed' = executed
      BY <2>7, <3>1 DEF RunContinues, Continue, TerminalPlanned, RuntimePlanEnds, CancelAwaited,
                        FinalizeSettles, TerminalEventThrows, Return, Throws, CancelCalled, gateVars,
                        adapterVars
    <3>3. awaits' = <<>> \/ awaits' = awaits
      BY <2>7 DEF RunContinues, RunSettled, Fails, Returns, Render, cliVars
    <3> QED
      BY <2>2, <3>2, <3>3
  <2>8. CASE AdapterAnswers \/ AdapterCancelSettles
    BY <2>2, <2>8 DEF AdapterAnswers, AdapterCancelSettles, ProbeAnswers, ExecuteAnswers, ProbeSettles,
                      ExecuteSettles, CancelSettles, gateVars, adapterVars, cliVars
  <2>9. ASSUME NEW s \in CliSignals, CaptureSignal(s)
        PROVE  executed' = executed /\ awaits' = awaits
    BY <2>9, <2>1 DEF CaptureSignal, AbortsController, Abort, gateVars, adapterVars
  <2>10. CASE Written \/ WriteFails
    BY <2>1, <2>2, <2>10 DEF Written, WriteFails
  <2>11. CASE Finished \/ UNCHANGED allVars
    BY <2>1, <2>2, <2>11 DEF Finished, allVars, cliVars
  <2> QED
    BY <2>1, <2>2, <2>3, <2>4, <2>5, <2>6, <2>7, <2>8, <2>9, <2>10, <2>11 DEF CliNext
<1>2. TypeOK /\ CommandInv /\ [CliNext]_allVars =>
        [Interrupted =>
           /\ executed' = executed
           /\ awaits' # awaits /\ awaits' # <<>> => Head(awaits') \notin Checked]_allVars
  BY <1>1
<1> QED
  BY <1>2, CommandInvariant, CommandRunsARun, TypeCorrect, PTL DEF CliSpec, NoWorkAfterSignal
===============================================================================
