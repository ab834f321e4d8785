----------------------------- MODULE RolekitRun -----------------------------
(***************************************************************************)
(* Rolekit.run (core/rolekit.ts) of one Rolekit instance: several calls    *)
(* in flight, their run ids, abort signals and event streams.              *)
(*                                                                         *)
(* JavaScript runs a call's code without interruption from one await to    *)
(* the next, so an action is one such section: the phase pc[c] names the   *)
(* await the call is suspended at.  Callbacks made inside a section        *)
(* (onEvent, now, the adapter's synchronous methods) may abort a signal    *)
(* or start another call; the section reads no shared state after the      *)
(* callback that it has not read before, except the signal after the       *)
(* started event, so each such effect is the same as its own action just   *)
(* before or after the section.                                            *)
(*                                                                         *)
(* The adapter is the environment: its probe, admission and execution may  *)
(* answer in any way, throw, and emit events for as long as it lives.      *)
(***************************************************************************)
EXTENDS RunEvents, FiniteSets

CONSTANTS
  Calls,            \* invocations of run()
  RunIds,           \* run ids a caller may ask for (or createRunId return)
  NoRunId,
  Signals,          \* AbortSignals, which calls may share
  NoSignal,         \* the call passes no signal
  AdapterCancels,   \* does the adapter implement the optional cancel()?
  ClockMayFail,     \* may the caller's now() return something unusable?
  MaxSequence       \* bound: adapter events are emitted below this number

ASSUME NoRunIdAssumption == NoRunId \notin RunIds
ASSUME NoSignalAssumption == NoSignal \notin Signals
ASSUME FlagsAssumption == AdapterCancels \in BOOLEAN /\ ClockMayFail \in BOOLEAN
ASSUME MaxSequenceAssumption == MaxSequence \in Nat

VARIABLES
  pc,             \* the await each call is suspended at
  runId,          \* capturedOptions.runId
  signal,         \* capturedOptions.signal
  aborted,        \* the signals that have been aborted
  activeRunIds,   \* #activeRunIds
  admission,      \* compilation.admission: the static ExecutionAdmission
  probe,          \* the executor probe
  runtimeAdmission, \* the ExecutionAdmission given the probe
  response,       \* what is to be finalized
  executed,       \* calls whose adapter holds context.emitEvent
  listener,       \* calls with requestAdapterCancellation on their signal
  cancelRequest,  \* cancelPromise: none, queued (microtask), called, settled
  emitter,        \* the RunEventEmitter
  result          \* what run()'s promise settled with

callVars == <<runId, signal>>
gateVars == <<admission, probe, runtimeAdmission>>
adapterVars == <<gateVars, response, executed>>
cancelVars == <<listener, cancelRequest>>
vars == <<pc, callVars, aborted, activeRunIds, adapterVars, cancelVars, emitter, result>>

\* Awaiting: the plan of a run that will not execute, the probe, the plan of
\* a probed run, adapter.execute, the cancellation, the finalized result, and
\* after the terminal event (not) emitted, run() resuming.
ActivePhases ==
  {"planTerminal", "probing", "planRuntime", "executing", "awaitCancel", "finalizing",
   "returning", "throwing"}
Results == TerminalStatuses \cup {"rejected"}

Active(c) == pc[c] \in ActivePhases
IsAborted(c) == signal[c] \in aborted
Timestamps == IF ClockMayFail THEN BOOLEAN ELSE {TRUE}

Init ==
  /\ pc = [c \in Calls |-> "idle"]
  /\ runId = [c \in Calls |-> NoRunId]
  /\ signal = [c \in Calls |-> NoSignal]
  /\ aborted = {}
  /\ activeRunIds = {}
  /\ admission = [c \in Calls |-> "none"]
  /\ probe = [c \in Calls |-> "none"]
  /\ runtimeAdmission = [c \in Calls |-> "none"]
  /\ response = [c \in Calls |-> "none"]
  /\ executed = {}
  /\ listener = {}
  /\ cancelRequest = [c \in Calls |-> "none"]
  /\ emitter = [c \in Calls |-> NewEmitter]
  /\ result = [c \in Calls |-> "pending"]

-----------------------------------------------------------------------------
(* From the call to its first await. *)

\* Invalid options, an unknown role or adapter, an invalid task, or a run id
\* that is in use: run() rejects before it has claimed anything.
Refuse(c, r) ==
  /\ pc[c] = "idle"
  /\ r \in activeRunIds \cup {NoRunId}
  /\ pc' = [pc EXCEPT ![c] = "settled"]
  /\ runId' = [runId EXCEPT ![c] = r]
  /\ result' = [result EXCEPT ![c] = "rejected"]
  /\ UNCHANGED <<signal, aborted, activeRunIds, adapterVars, cancelVars, emitter>>

\* Mutant (ImplementsContract): no duplicate check.
CaptureAnyId(c, r, s) ==
  /\ pc[c] = "idle"
  /\ runId' = [runId EXCEPT ![c] = r]
  /\ signal' = [signal EXCEPT ![c] = s]

\* What every call that passes the duplicate check does first.
Capture(c, r, s) ==
  /\ pc[c] = "idle"
  /\ r \notin activeRunIds
  /\ runId' = [runId EXCEPT ![c] = r]
  /\ signal' = [signal EXCEPT ![c] = s]

\* The id is claimed and given back within the section: preparing or
\* inspecting the adapter or reading the clock throws while there is no
\* emitter yet, the started event cannot be emitted, or the adapter's static
\* admission throws or is invalid.
StartThrows(c, r, s) ==
  /\ Capture(c, r, s)
  /\ \/ emitter' = emitter
     \/ \E startedOk \in Timestamps, failedOk \in Timestamps :
          emitter' = [emitter EXCEPT ![c] =
            EmitTerminal(EmitStarted(@, startedOk), "failed", failedOk)]
  /\ pc' = [pc EXCEPT ![c] = "settled"]
  /\ result' = [result EXCEPT ![c] = "rejected"]
  /\ UNCHANGED <<aborted, activeRunIds, adapterVars, cancelVars>>

\* The started event is out and the static admission is `verdict`.
Claim(c, r, s, verdict) ==
  /\ Capture(c, r, s)
  /\ activeRunIds' = activeRunIds \cup {r}
  /\ emitter' = [emitter EXCEPT ![c] = EmitStarted(@, TRUE)]
  /\ admission' = [admission EXCEPT ![c] = verdict]
  /\ UNCHANGED <<aborted, probe, runtimeAdmission, executed, cancelVars, result>>

StartDenied(c, r, s) ==
  /\ Claim(c, r, s, "denied")
  /\ response' = [response EXCEPT ![c] = "blocked"]
  /\ pc' = [pc EXCEPT ![c] = "planTerminal"]

StartAborted(c, r, s) ==
  /\ Claim(c, r, s, "allowed")
  /\ s \in aborted
  /\ response' = [response EXCEPT ![c] = "cancelled"]
  /\ pc' = [pc EXCEPT ![c] = "planTerminal"]

\* Mutant (GatedExecution): the static verdict is not looked at before the
\* probe is started.
StartProbingUngated(c, r, s) ==
  /\ \E verdict \in {"allowed", "denied"} : Claim(c, r, s, verdict)
  /\ s \notin aborted
  /\ pc' = [pc EXCEPT ![c] = "probing"]
  /\ UNCHANGED response

StartProbing(c, r, s) ==
  /\ Claim(c, r, s, "allowed")
  /\ s \notin aborted
  /\ pc' = [pc EXCEPT ![c] = "probing"]
  /\ UNCHANGED response

-----------------------------------------------------------------------------
(* From one await to the next. *)

\* The plan exists; #finalizeTerminal is started with the chosen response.
TerminalPlanned(c) ==
  /\ pc[c] = "planTerminal"
  /\ pc' = [pc EXCEPT ![c] = "finalizing"]
  /\ UNCHANGED <<callVars, aborted, activeRunIds, adapterVars, cancelVars, emitter, result>>

\* The probe answers or throws (which makes it unavailable), and the adapter
\* admits or denies at run time.  Admitting after an unavailable probe throws,
\* and so do invalid probe or admission data: see Throws.
ProbeSettles(c, availability, verdict) ==
  /\ pc[c] = "probing"
  /\ ~(availability = "unavailable" /\ verdict = "allowed")
  /\ probe' = [probe EXCEPT ![c] = availability]
  /\ runtimeAdmission' = [runtimeAdmission EXCEPT ![c] = verdict]
  /\ pc' = [pc EXCEPT ![c] = "planRuntime"]
  /\ UNCHANGED <<callVars, aborted, activeRunIds, admission, response, executed,
                 cancelVars, emitter, result>>

\* An abort is looked at before the verdict.
RuntimePlanEnds(c) ==
  /\ pc[c] = "planRuntime"
  /\ IsAborted(c) \/ runtimeAdmission[c] = "denied"
  /\ response' = [response EXCEPT ![c] = IF IsAborted(c) THEN "cancelled" ELSE "blocked"]
  /\ pc' = [pc EXCEPT ![c] = "finalizing"]
  /\ UNCHANGED <<callVars, aborted, activeRunIds, gateVars, executed,
                 cancelVars, emitter, result>>

\* Mutant (AbortReachesAdapter): the signal is not looked at before executing.
RuntimePlanExecutesAborted(c) ==
  /\ pc[c] = "planRuntime"
  /\ runtimeAdmission[c] = "allowed"
  /\ executed' = executed \cup {c}
  /\ listener' = IF signal[c] = NoSignal THEN listener ELSE listener \cup {c}
  /\ pc' = [pc EXCEPT ![c] = "executing"]
  /\ UNCHANGED <<callVars, aborted, activeRunIds, gateVars, response,
                 cancelRequest, emitter, result>>

RuntimePlanExecutes(c) ==
  /\ pc[c] = "planRuntime"
  /\ ~IsAborted(c) /\ runtimeAdmission[c] = "allowed"
  /\ executed' = executed \cup {c}
  /\ listener' = IF signal[c] = NoSignal THEN listener ELSE listener \cup {c}
  /\ pc' = [pc EXCEPT ![c] = "executing"]
  /\ UNCHANGED <<callVars, aborted, activeRunIds, gateVars, response,
                 cancelRequest, emitter, result>>

\* adapter.execute returns a response of some status or throws.  The listener
\* is removed and cancelPromise, if any, awaited.
ExecuteSettles(c, outcome) ==
  /\ pc[c] = "executing"
  /\ response' = [response EXCEPT ![c] = outcome]
  /\ listener' = listener \ {c}
  /\ pc' = [pc EXCEPT ![c] = "awaitCancel"]
  /\ UNCHANGED <<callVars, aborted, activeRunIds, gateVars, executed,
                 cancelRequest, emitter, result>>

\* cancelPromise is awaited if there is one.  The mutants: it is not awaited
\* (CancelStaysInRun); it is awaited though there is none (AbortedRunsSettle).
CancelNotAwaited(c) == TRUE
CancelAlwaysAwaited(c) == cancelRequest[c] = "settled"
CancelIsOver(c) == cancelRequest[c] \in {"none", "settled"}

\* An aborted signal overrides whatever the adapter answered or threw.  The
\* mutants: the error stays (TypeOK); the answer stays (CancelledNeverCompletes).
DecidedAsThrown(c) == IF IsAborted(c) THEN "cancelled" ELSE response[c]
DecidedByAdapter(c) == IF response[c] = "threw" THEN "failed" ELSE response[c]
Decided(c) ==
  IF IsAborted(c) THEN "cancelled" ELSE IF response[c] = "threw" THEN "failed" ELSE response[c]

CancelAwaited(c) ==
  /\ pc[c] = "awaitCancel"
  /\ CancelIsOver(c)
  /\ response' = [response EXCEPT ![c] = Decided(c)]
  /\ pc' = [pc EXCEPT ![c] = "finalizing"]
  /\ UNCHANGED <<callVars, aborted, activeRunIds, gateVars, executed,
                 cancelVars, emitter, result>>

\* Mutant (RunIdExclusive): the id is not given back.
ReleaseKeepsId(c, verdict) ==
  /\ pc' = [pc EXCEPT ![c] = "settled"]
  /\ result' = [result EXCEPT ![c] = verdict]
  /\ UNCHANGED activeRunIds

\* The finally block of run().
Release(c, verdict) ==
  /\ pc' = [pc EXCEPT ![c] = "settled"]
  /\ result' = [result EXCEPT ![c] = verdict]
  /\ activeRunIds' = activeRunIds \ {runId[c]}

\* finalizeExecution resolves: a completed response that fails its output
\* schema or misses an artifact, and an invalid response, become failed.
Normalized(outcome) ==
  CASE outcome = "completed" -> {"completed", "failed"}
    [] outcome = "invalid" -> {"failed"}
    [] OTHER -> {outcome}

\* Mutant (TerminalEventAgrees): the event tells the adapter's status, not the
\* finalized one.
FinalizeSettlesUnfinalized(c, status) ==
  /\ pc[c] = "finalizing"
  /\ status \in Normalized(response[c])
  /\ emitter' = [emitter EXCEPT ![c] = EmitTerminal(@, response[c], TRUE)]
  /\ response' = [response EXCEPT ![c] = status]
  /\ pc' = [pc EXCEPT ![c] = "returning"]
  /\ UNCHANGED <<callVars, aborted, activeRunIds, gateVars, executed,
                 cancelVars, result>>

\* `complete` emits the terminal event; run() itself resumes some microtasks
\* later, so the run id outlives the event.
FinalizeSettles(c, status) ==
  /\ pc[c] = "finalizing"
  /\ status \in Normalized(response[c])
  /\ emitter' = [emitter EXCEPT ![c] = EmitTerminal(@, status, TRUE)]
  /\ response' = [response EXCEPT ![c] = status]
  /\ pc' = [pc EXCEPT ![c] = "returning"]
  /\ UNCHANGED <<callVars, aborted, activeRunIds, gateVars, executed,
                 cancelVars, result>>

Return(c) ==
  /\ pc[c] = "returning"
  /\ Release(c, response[c])
  /\ UNCHANGED <<callVars, aborted, adapterVars, cancelVars, emitter>>

\* The event of a finalized result cannot be emitted: its number is spent and
\* the catch block will try to emit failed instead.
TerminalEventThrows(c, status) ==
  /\ pc[c] = "finalizing"
  /\ ClockMayFail
  /\ status \in Normalized(response[c])
  /\ emitter' = [emitter EXCEPT ![c] = EmitTerminal(@, status, FALSE)]
  /\ pc' = [pc EXCEPT ![c] = "throwing"]
  /\ UNCHANGED <<callVars, aborted, activeRunIds, adapterVars, cancelVars, result>>

\* Mutant (StartedStreamsClose): the catch block emits nothing.
ThrowsSilently(c) ==
  /\ pc[c] \in ActivePhases \ {"executing", "returning"}
  /\ pc[c] = "awaitCancel" => CancelIsOver(c)
  /\ Release(c, "rejected")
  /\ UNCHANGED <<callVars, aborted, adapterVars, cancelVars, emitter>>

\* The catch block: that, or a plan, probe, admission, receipt or response is
\* invalid, or a timestamp is.
Throws(c) ==
  /\ pc[c] \in ActivePhases \ {"executing", "returning"}
  /\ pc[c] = "awaitCancel" => CancelIsOver(c)
  /\ \E failedOk \in Timestamps :
       emitter' = [emitter EXCEPT ![c] = EmitTerminal(@, "failed", failedOk)]
  /\ Release(c, "rejected")
  /\ UNCHANGED <<callVars, aborted, adapterVars, cancelVars>>

-----------------------------------------------------------------------------
(* The callers' signals and the adapter. *)

\* requestAdapterCancellation runs once ({ once: true }, cancelPromise set).
Abort(s) ==
  LET heard == {c \in listener : signal[c] = s}
  IN  /\ s \notin aborted
      /\ aborted' = aborted \cup {s}
      /\ listener' = listener \ heard
      /\ cancelRequest' = [c \in Calls |->
           IF c \in heard /\ AdapterCancels THEN "queued" ELSE cancelRequest[c]]
      /\ UNCHANGED <<pc, callVars, activeRunIds, adapterVars, emitter, result>>

\* The microtask calls adapter.cancel(runId).
CancelCalled(c) ==
  /\ cancelRequest[c] = "queued"
  /\ cancelRequest' = [cancelRequest EXCEPT ![c] = "called"]
  /\ UNCHANGED <<pc, callVars, aborted, activeRunIds, adapterVars, listener, emitter, result>>

\* It resolves or rejects; a rejection is swallowed.
CancelSettles(c) ==
  /\ cancelRequest[c] = "called"
  /\ cancelRequest' = [cancelRequest EXCEPT ![c] = "settled"]
  /\ UNCHANGED <<pc, callVars, aborted, activeRunIds, adapterVars, listener, emitter, result>>

\* The adapter keeps context.emitEvent: nothing takes it away after execute.
AdapterEmits(c) ==
  /\ c \in executed
  /\ emitter[c].sequence < MaxSequence
  /\ \E ok \in Timestamps : emitter' = [emitter EXCEPT ![c] = EmitAdapter(@, ok)]
  /\ UNCHANGED <<pc, callVars, aborted, activeRunIds, adapterVars, cancelVars, result>>

-----------------------------------------------------------------------------
AdapterOutcomes == TerminalStatuses \cup {"invalid", "threw"}
SignalChoices == Signals \cup {NoSignal}

Start(c, r, s) ==
  \/ StartThrows(c, r, s)
  \/ StartDenied(c, r, s)
  \/ StartAborted(c, r, s)
  \/ StartProbing(c, r, s)

\* The core's own steps: continuations of promises that do resolve.
Continue(c) ==
  \/ TerminalPlanned(c)
  \/ RuntimePlanEnds(c)
  \/ RuntimePlanExecutes(c)
  \/ CancelAwaited(c)
  \/ \E status \in TerminalStatuses : FinalizeSettles(c, status)
  \/ \E status \in TerminalStatuses : TerminalEventThrows(c, status)
  \/ Return(c)
  \/ Throws(c)
  \/ CancelCalled(c)

ProbeAnswers(c) ==
  \E availability \in {"available", "unavailable"}, verdict \in {"allowed", "denied"} :
    ProbeSettles(c, availability, verdict)

ExecuteAnswers(c) == \E outcome \in AdapterOutcomes : ExecuteSettles(c, outcome)

\* Every call has settled; signals and adapters may still act.
Done == (\A c \in Calls : pc[c] = "settled") /\ UNCHANGED vars

Next ==
  \/ \E c \in Calls, r \in RunIds \cup {NoRunId} : Refuse(c, r)
  \/ \E c \in Calls, r \in RunIds, s \in SignalChoices : Start(c, r, s)
  \/ \E c \in Calls : Continue(c)
  \/ \E c \in Calls : ProbeAnswers(c)
  \/ \E c \in Calls : ExecuteAnswers(c)
  \/ \E c \in Calls : CancelSettles(c)
  \/ \E c \in Calls : AdapterEmits(c)
  \/ \E s \in Signals : Abort(s)
  \/ Done

Spec == Init /\ [][Next]_vars
\* An adapter answers once the signal it was given is aborted; without an
\* abort it may probe or execute for ever.
Fairness ==
  \A c \in Calls :
    /\ WF_vars(Continue(c))
    /\ WF_vars(CancelSettles(c))
    /\ WF_vars(IsAborted(c) /\ ProbeAnswers(c))
    /\ WF_vars(IsAborted(c) /\ ExecuteAnswers(c))

FairSpec == Spec /\ Fairness

-----------------------------------------------------------------------------
(* Properties. *)

\* Every variable has its type; what is about to be finalized is a status or
\* an invalid response, and what run() returns is a status.
TypeOK ==
  /\ pc \in [Calls -> ActivePhases \cup {"idle", "settled"}]
  /\ runId \in [Calls -> RunIds \cup {NoRunId}]
  /\ signal \in [Calls -> Signals \cup {NoSignal}]
  /\ aborted \subseteq Signals
  /\ activeRunIds \subseteq RunIds
  /\ admission \in [Calls -> {"none", "denied", "allowed"}]
  /\ probe \in [Calls -> {"none", "unavailable", "available"}]
  /\ runtimeAdmission \in [Calls -> {"none", "denied", "allowed"}]
  /\ response \in [Calls -> AdapterOutcomes \cup {"none"}]
  /\ executed \subseteq Calls
  /\ listener \subseteq Calls
  /\ cancelRequest \in [Calls -> {"none", "queued", "called", "settled"}]
  /\ emitter \in [Calls -> Emitters]
  /\ result \in [Calls -> Results \cup {"pending"}]
  /\ \A c \in Calls :
       /\ pc[c] \in {"planTerminal", "returning"} => response[c] \in TerminalStatuses
       /\ pc[c] = "awaitCancel" => response[c] \in AdapterOutcomes
       /\ pc[c] = "finalizing" => response[c] \in TerminalStatuses \cup {"invalid"}
       /\ pc[c] \in {"idle", "settled"} <=> ~Active(c)

\* #activeRunIds holds exactly the ids of the calls in flight, and no two of
\* them share one: a call that throws anywhere gives its id back, once.
RunIdExclusive ==
  /\ activeRunIds = {runId[c] : c \in {d \in Calls : Active(d)}}
  /\ \A c, d \in Calls : Active(c) /\ Active(d) /\ runId[c] = runId[d] => c = d

\* While adapter.cancel(runId) is queued or running, the call it was queued
\* for still holds the id: it never reaches a later run with the same id.
CancelStaysInRun ==
  \A c \in Calls : cancelRequest[c] \in {"queued", "called"} =>
    pc[c] \in {"executing", "awaitCancel"}

\* An abort is never missed: a call that is executing with an aborted signal
\* has passed the request on to an adapter that supports cancellation.
AbortReachesAdapter ==
  \A c \in Calls : pc[c] = "executing" /\ IsAborted(c) /\ AdapterCancels =>
    cancelRequest[c] # "none"

\* Once the adapter has been asked to cancel, its answer cannot make the run
\* completed, whatever it says and however late.
CancelledNeverCompletes ==
  \A c \in Calls : cancelRequest[c] # "none" =>
    /\ result[c] # "completed"
    /\ pc[c] \in {"finalizing", "returning"} => response[c] = "cancelled"

\* No probe is started after the static admission denied; an adapter has been
\* handed a task only if that admission, the probe and the admission at run
\* time all allowed it; and a call whose adapter was not tells neither of
\* completion nor of failure.
GatedExecution ==
  \A c \in Calls :
    /\ pc[c] = "probing" \/ probe[c] # "none" => admission[c] = "allowed"
    /\ c \in executed =>
         admission[c] = "allowed" /\ probe[c] = "available" /\ runtimeAdmission[c] = "allowed"
    /\ c \notin executed => result[c] \notin {"completed", "failed"}

\* The terminal event a subscriber saw is the one status run() settles with;
\* it comes before the promise settles, at most once, and a rejection shows
\* as failed or not at all.
TerminalEventAgrees ==
  \A c \in Calls :
    LET terminal == TerminalIndices(emitter[c])
        Only(status) == \E i \in terminal :
          terminal = {i} /\ emitter[c].delivered[i].phase = status
    IN  /\ pc[c] = "returning" => Only(response[c])
        /\ result[c] \in TerminalStatuses => Only(result[c])
        /\ result[c] = "rejected" => terminal = {} \/ Only("failed")
        /\ pc[c] \notin {"returning", "settled"} => terminal = {}

\* A subscriber sees started first (or nothing but a failed), and numbers
\* that only grow, across lifecycle and adapter events and failed emissions.
StreamOrdered ==
  \A c \in Calls :
    LET delivered == emitter[c].delivered
    IN  /\ \A i \in DOMAIN delivered :
             /\ delivered[i].sequence <= emitter[c].sequence
             /\ \A j \in 1 .. i - 1 : delivered[j].sequence < delivered[i].sequence
             /\ delivered[i].phase = "started" <=> delivered[i].sequence = 1
        /\ delivered # <<>> =>
             delivered[1].phase = "started"
               \/ (Len(delivered) = 1 /\ delivered[1].phase = "failed")

\* With a clock that works, every stream that was started is closed by the
\* time the call settles.
StartedStreamsClose ==
  ~ClockMayFail =>
    \A c \in Calls : pc[c] = "settled" /\ emitter[c].delivered # <<>> =>
      TerminalIndices(emitter[c]) # {}

\* run() is an implementation of the contract of RunContract.
Contract == INSTANCE RunContract WITH
  held <- [c \in Calls |-> IF Active(c) THEN runId[c] ELSE NoRunId],
  revoked <- [c \in Calls |-> cancelRequest[c] # "none"],
  settled <- result

ImplementsContract == Contract!Spec

\* A call in flight whose signal is aborted settles, wherever the abort found
\* it, if its adapter reacts to the abort.
AbortedRunsSettle ==
  \A c \in Calls : (Active(c) /\ IsAborted(c)) ~> (pc[c] = "settled")
=============================================================================
