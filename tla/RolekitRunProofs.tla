-------------------------- MODULE RolekitRunProofs --------------------------
(***************************************************************************)
(* Proofs about Rolekit.run for any number of calls, run ids and signals.  *)
(***************************************************************************)
EXTENDS RolekitRun, TLAPS

(***************************************************************************)
(* Emitting keeps an emitter well formed, whether or not it throws.        *)
(***************************************************************************)
LEMMA EmitType ==
  ASSUME NEW e \in Emitters, NEW phase \in Phases, NEW ok \in BOOLEAN
  PROVE  Emit(e, phase, ok) \in Emitters
<1> DEFINE next == e.sequence + 1
           event == [phase |-> phase, sequence |-> next]
<1>1. e.sequence \in Nat /\ e.terminalEmitted \in BOOLEAN /\ e.delivered \in Seq(Events)
  BY DEF Emitters
<1>2. event \in Events
  BY <1>1 DEF Events
<1>3. Append(e.delivered, event) \in Seq(Events)
  BY <1>1, <1>2
<1> QED
  BY <1>1, <1>3 DEF Emit, Emitters

\* So does emitting a terminal event (RunEventEmitter.emitTerminal).
LEMMA EmitTerminalType ==
  ASSUME NEW e \in Emitters, NEW status \in Phases, NEW ok \in BOOLEAN
  PROVE  EmitTerminal(e, status, ok) \in Emitters
<1>1. Emit(e, status, ok) \in Emitters
  BY EmitType
<1> QED
  BY <1>1 DEF EmitTerminal, Emitters

\* A timestamp can be used or cannot.
LEMMA TimestampsType == Timestamps \subseteq BOOLEAN
  BY DEF Timestamps

\* A new emitter is well formed.
LEMMA NewEmitterType == NewEmitter \in Emitters
<1>1. <<>> \in Seq(Events)
  OBVIOUS
<1> QED
  BY <1>1 DEF NewEmitter, Emitters

(***************************************************************************)
(* Type correctness of run(): every variable keeps its type, and what is   *)
(* about to be finalized is a status or an invalid response.               *)
(***************************************************************************)
THEOREM TypeCorrect == Spec => []TypeOK
<1> USE DEF callVars, gateVars, adapterVars, cancelVars
<1>1. Init => TypeOK
  BY NewEmitterType DEF Init, TypeOK, Active, ActivePhases, AdapterOutcomes, Results
<1>2. TypeOK /\ [Next]_vars => TypeOK'
  <2> SUFFICES ASSUME TypeOK, [Next]_vars PROVE TypeOK'
    OBVIOUS
  <2> USE DEF TypeOK, Active, ActivePhases, AdapterOutcomes, Results, TerminalStatuses, SignalChoices
  <2>1. ASSUME NEW c \in Calls, NEW r \in RunIds \cup {NoRunId}, Refuse(c, r)
        PROVE  TypeOK'
    BY <2>1 DEF Refuse
  <2>2. ASSUME NEW c \in Calls, NEW r \in RunIds, NEW s \in SignalChoices, StartThrows(c, r, s)
        PROVE  TypeOK'
    <3>1. emitter' \in [Calls -> Emitters]
      <4>1. ASSUME NEW startedOk \in BOOLEAN, NEW failedOk \in BOOLEAN
            PROVE  EmitTerminal(EmitStarted(emitter[c], startedOk), "failed", failedOk) \in Emitters
        BY EmitType, EmitTerminalType DEF EmitStarted, Phases, LifecyclePhases
      <4>2. CASE emitter' = emitter
        BY <4>2
      <4>3. ASSUME NEW startedOk \in Timestamps, NEW failedOk \in Timestamps,
                   emitter' = [emitter EXCEPT ![c] =
                     EmitTerminal(EmitStarted(@, startedOk), "failed", failedOk)]
            PROVE  emitter' \in [Calls -> Emitters]
        BY <4>1, <4>3, TimestampsType
      <4> QED
        BY <2>2, <4>2, <4>3 DEF StartThrows
    <3> QED
      BY <2>2, <3>1 DEF StartThrows, Capture
  <2>3. ASSUME NEW c \in Calls, NEW r \in RunIds, NEW s \in SignalChoices, StartDenied(c, r, s)
        PROVE  TypeOK'
    <3>1. emitter' \in [Calls -> Emitters]
      BY <2>3, EmitType DEF StartDenied, Claim, EmitStarted, Phases, LifecyclePhases
    <3> QED
      BY <2>3, <3>1 DEF StartDenied, Claim, Capture
  <2>4. ASSUME NEW c \in Calls, NEW r \in RunIds, NEW s \in SignalChoices, StartAborted(c, r, s)
        PROVE  TypeOK'
    <3>1. emitter' \in [Calls -> Emitters]
      BY <2>4, EmitType DEF StartAborted, Claim, EmitStarted, Phases, LifecyclePhases
    <3> QED
      BY <2>4, <3>1 DEF StartAborted, Claim, Capture
  <2>5. ASSUME NEW c \in Calls, NEW r \in RunIds, NEW s \in SignalChoices, StartProbing(c, r, s)
        PROVE  TypeOK'
    <3>1. emitter' \in [Calls -> Emitters]
      BY <2>5, EmitType DEF StartProbing, Claim, EmitStarted, Phases, LifecyclePhases
    <3> QED
      BY <2>5, <3>1 DEF StartProbing, Claim, Capture
  <2>6. ASSUME NEW c \in Calls, TerminalPlanned(c)
        PROVE  TypeOK'
    BY <2>6 DEF TerminalPlanned
  <2>7. ASSUME NEW c \in Calls, NEW availability \in {"available", "unavailable"},
              NEW verdict \in {"allowed", "denied"}, ProbeSettles(c, availability, verdict)
        PROVE  TypeOK'
    BY <2>7 DEF ProbeSettles
  <2>8. ASSUME NEW c \in Calls, RuntimePlanEnds(c)
        PROVE  TypeOK'
    BY <2>8 DEF RuntimePlanEnds
  <2>9. ASSUME NEW c \in Calls, RuntimePlanExecutes(c)
        PROVE  TypeOK'
    BY <2>9 DEF RuntimePlanExecutes
  <2>10. ASSUME NEW c \in Calls, NEW outcome \in AdapterOutcomes, ExecuteSettles(c, outcome)
        PROVE  TypeOK'
    BY <2>10 DEF ExecuteSettles
  <2>11. ASSUME NEW c \in Calls, CancelAwaited(c)
        PROVE  TypeOK'
    <3>1. Decided(c) \in TerminalStatuses \cup {"invalid"}
      BY <2>11 DEF CancelAwaited, Decided
    <3> QED
      BY <2>11, <3>1 DEF CancelAwaited
  <2>12. ASSUME NEW c \in Calls, NEW status \in TerminalStatuses, FinalizeSettles(c, status)
        PROVE  TypeOK'
    <3>1. emitter' \in [Calls -> Emitters]
      BY <2>12, EmitTerminalType DEF FinalizeSettles, Phases, LifecyclePhases
    <3> QED
      BY <2>12, <3>1 DEF FinalizeSettles
  <2>13. ASSUME NEW c \in Calls, NEW status \in TerminalStatuses, TerminalEventThrows(c, status)
        PROVE  TypeOK'
    <3>1. emitter' \in [Calls -> Emitters]
      BY <2>13, EmitTerminalType DEF TerminalEventThrows, Phases, LifecyclePhases
    <3> QED
      BY <2>13, <3>1 DEF TerminalEventThrows
  <2>14. ASSUME NEW c \in Calls, Return(c)
        PROVE  TypeOK'
    BY <2>14 DEF Return, Release
  <2>15. ASSUME NEW c \in Calls, Throws(c)
        PROVE  TypeOK'
    <3>1. emitter' \in [Calls -> Emitters]
      <4>1. PICK failedOk \in Timestamps :
              emitter' = [emitter EXCEPT ![c] = EmitTerminal(@, "failed", failedOk)]
        BY <2>15 DEF Throws
      <4>2. EmitTerminal(emitter[c], "failed", failedOk) \in Emitters
        BY EmitTerminalType, TimestampsType DEF Phases, LifecyclePhases
      <4> QED
        BY <4>1, <4>2
    <3> QED
      BY <2>15, <3>1 DEF Throws, Release
  <2>16. ASSUME NEW s \in Signals, Abort(s)
        PROVE  TypeOK'
    BY <2>16 DEF Abort
  <2>17. ASSUME NEW c \in Calls, CancelCalled(c)
        PROVE  TypeOK'
    BY <2>17 DEF CancelCalled
  <2>18. ASSUME NEW c \in Calls, CancelSettles(c)
        PROVE  TypeOK'
    BY <2>18 DEF CancelSettles
  <2>19. ASSUME NEW c \in Calls, AdapterEmits(c)
        PROVE  TypeOK'
    <3>1. emitter' \in [Calls -> Emitters]
      <4>1. PICK ok \in Timestamps : emitter' = [emitter EXCEPT ![c] = EmitAdapter(@, ok)]
        BY <2>19 DEF AdapterEmits
      <4>2. EmitAdapter(emitter[c], ok) \in Emitters
        BY EmitType, TimestampsType DEF EmitAdapter, Phases
      <4> QED
        BY <4>1, <4>2
    <3> QED
      BY <2>19, <3>1 DEF AdapterEmits
  <2>20. CASE UNCHANGED vars
    BY <2>20 DEF vars
  <2> QED
    BY <2>1, <2>2, <2>3, <2>4, <2>5, <2>6, <2>7, <2>8, <2>9, <2>10, <2>11, <2>12, <2>13, <2>14, <2>15, <2>16, <2>17, <2>18, <2>19, <2>20
    DEF Next, Start, Continue, ProbeAnswers, ExecuteAnswers, Done
<1> QED
  BY <1>1, <1>2, PTL DEF Spec

(***************************************************************************)
(* The ids in use are those of the calls in flight, each held by one call. *)
(***************************************************************************)
THEOREM RunIdsExclusive == Spec => []RunIdExclusive
<1> USE DEF callVars, gateVars, adapterVars, cancelVars
<1>1. Init => RunIdExclusive
  BY DEF Init, RunIdExclusive, Active, ActivePhases, SignalChoices
<1>2. TypeOK /\ TypeOK' /\ RunIdExclusive /\ [Next]_vars => RunIdExclusive'
  <2> SUFFICES ASSUME TypeOK, TypeOK', RunIdExclusive, [Next]_vars PROVE RunIdExclusive'
    OBVIOUS
  <2> USE NoSignalAssumption, NoRunIdAssumption DEF TypeOK, RunIdExclusive, Active, ActivePhases, SignalChoices
  <2>1. ASSUME NEW c \in Calls, NEW r \in RunIds \cup {NoRunId}, Refuse(c, r)
        PROVE  RunIdExclusive'
    BY <2>1 DEF Refuse
  <2>2. ASSUME NEW c \in Calls, NEW r \in RunIds, NEW s \in SignalChoices, StartThrows(c, r, s)
        PROVE  RunIdExclusive'
    BY <2>2 DEF StartThrows, Capture
  <2>3. ASSUME NEW c \in Calls, NEW r \in RunIds, NEW s \in SignalChoices, StartDenied(c, r, s)
        PROVE  RunIdExclusive'
    BY <2>3 DEF StartDenied, Claim, Capture
  <2>4. ASSUME NEW c \in Calls, NEW r \in RunIds, NEW s \in SignalChoices, StartAborted(c, r, s)
        PROVE  RunIdExclusive'
    BY <2>4 DEF StartAborted, Claim, Capture
  <2>5. ASSUME NEW c \in Calls, NEW r \in RunIds, NEW s \in SignalChoices, StartProbing(c, r, s)
        PROVE  RunIdExclusive'
    BY <2>5 DEF StartProbing, Claim, Capture
  <2>6. ASSUME NEW c \in Calls, TerminalPlanned(c)
        PROVE  RunIdExclusive'
    BY <2>6 DEF TerminalPlanned
  <2>7. ASSUME NEW c \in Calls, NEW availability \in {"available", "unavailable"},
              NEW verdict \in {"allowed", "denied"}, ProbeSettles(c, availability, verdict)
        PROVE  RunIdExclusive'
    BY <2>7 DEF ProbeSettles
  <2>8. ASSUME NEW c \in Calls, RuntimePlanEnds(c)
        PROVE  RunIdExclusive'
    BY <2>8 DEF RuntimePlanEnds, IsAborted
  <2>9. ASSUME NEW c \in Calls, RuntimePlanExecutes(c)
        PROVE  RunIdExclusive'
    BY <2>9 DEF RuntimePlanExecutes, IsAborted
  <2>10. ASSUME NEW c \in Calls, NEW outcome \in AdapterOutcomes, ExecuteSettles(c, outcome)
        PROVE  RunIdExclusive'
    BY <2>10 DEF ExecuteSettles
  <2>11. ASSUME NEW c \in Calls, CancelAwaited(c)
        PROVE  RunIdExclusive'
    BY <2>11 DEF CancelAwaited, Decided, CancelIsOver
  <2>12. ASSUME NEW c \in Calls, NEW status \in TerminalStatuses, FinalizeSettles(c, status)
        PROVE  RunIdExclusive'
    BY <2>12 DEF FinalizeSettles, Normalized
  <2>13. ASSUME NEW c \in Calls, NEW status \in TerminalStatuses, TerminalEventThrows(c, status)
        PROVE  RunIdExclusive'
    BY <2>13 DEF TerminalEventThrows, Normalized
  <2>14. ASSUME NEW c \in Calls, Return(c)
        PROVE  RunIdExclusive'
    BY <2>14 DEF Return, Release
  <2>15. ASSUME NEW c \in Calls, Throws(c)
        PROVE  RunIdExclusive'
    BY <2>15 DEF Throws, Release, CancelIsOver
  <2>16. ASSUME NEW s \in Signals, Abort(s)
        PROVE  RunIdExclusive'
    BY <2>16 DEF Abort, IsAborted
  <2>17. ASSUME NEW c \in Calls, CancelCalled(c)
        PROVE  RunIdExclusive'
    BY <2>17 DEF CancelCalled
  <2>18. ASSUME NEW c \in Calls, CancelSettles(c)
        PROVE  RunIdExclusive'
    BY <2>18 DEF CancelSettles
  <2>19. ASSUME NEW c \in Calls, AdapterEmits(c)
        PROVE  RunIdExclusive'
    BY <2>19 DEF AdapterEmits
  <2>20. CASE UNCHANGED vars
    BY <2>20 DEF vars
  <2> QED
    BY <2>1, <2>2, <2>3, <2>4, <2>5, <2>6, <2>7, <2>8, <2>9, <2>10, <2>11, <2>12, <2>13, <2>14, <2>15, <2>16, <2>17, <2>18, <2>19, <2>20
    DEF Next, Start, Continue, ProbeAnswers, ExecuteAnswers, Done
<1> QED
  BY <1>1, <1>2, TypeCorrect, PTL DEF Spec

\* A cancellation request belongs to an aborted call that is executing or has
\* executed; the abort listener to one that is executing and not yet aborted.
CancelInv ==
  \A c \in Calls :
    /\ c \in listener => pc[c] = "executing"
    /\ cancelRequest[c] \in {"queued", "called"} => pc[c] \in {"executing", "awaitCancel"}
    /\ cancelRequest[c] # "none" =>
         /\ IsAborted(c)
         /\ pc[c] \in {"executing", "awaitCancel", "finalizing", "returning", "throwing", "settled"}
         /\ pc[c] \in {"finalizing", "returning"} => response[c] = "cancelled"
         /\ result[c] # "completed"
    /\ pc[c] = "executing" =>
         /\ signal[c] # NoSignal /\ ~IsAborted(c) => c \in listener
         /\ IsAborted(c) /\ AdapterCancels => cancelRequest[c] # "none"
    /\ pc[c] # "settled" => result[c] = "pending"

(***************************************************************************)
(* CancelInv holds: no abort is missed, none reaches another run, and none *)
(* is overruled by the adapter (requestAdapterCancellation in rolekit.ts). *)
(***************************************************************************)
THEOREM CancelInvariant == Spec => []CancelInv
<1> USE DEF callVars, gateVars, adapterVars, cancelVars
<1>1. Init => CancelInv
  BY DEF Init, CancelInv, IsAborted, SignalChoices, ActivePhases, AdapterOutcomes, TerminalStatuses
<1>2. TypeOK /\ TypeOK' /\ CancelInv /\ [Next]_vars => CancelInv'
  <2> SUFFICES ASSUME TypeOK, TypeOK', CancelInv, [Next]_vars PROVE CancelInv'
    OBVIOUS
  <2> USE NoSignalAssumption, NoRunIdAssumption DEF TypeOK, CancelInv, IsAborted, SignalChoices, ActivePhases, AdapterOutcomes, TerminalStatuses
  <2>1. ASSUME NEW c \in Calls, NEW r \in RunIds \cup {NoRunId}, Refuse(c, r)
        PROVE  CancelInv'
    BY <2>1 DEF Refuse
  <2>2. ASSUME NEW c \in Calls, NEW r \in RunIds, NEW s \in SignalChoices, StartThrows(c, r, s)
        PROVE  CancelInv'
    BY <2>2 DEF StartThrows, Capture
  <2>3. ASSUME NEW c \in Calls, NEW r \in RunIds, NEW s \in SignalChoices, StartDenied(c, r, s)
        PROVE  CancelInv'
    BY <2>3 DEF StartDenied, Claim, Capture
  <2>4. ASSUME NEW c \in Calls, NEW r \in RunIds, NEW s \in SignalChoices, StartAborted(c, r, s)
        PROVE  CancelInv'
    BY <2>4 DEF StartAborted, Claim, Capture
  <2>5. ASSUME NEW c \in Calls, NEW r \in RunIds, NEW s \in SignalChoices, StartProbing(c, r, s)
        PROVE  CancelInv'
    BY <2>5 DEF StartProbing, Claim, Capture
  <2>6. ASSUME NEW c \in Calls, TerminalPlanned(c)
        PROVE  CancelInv'
    BY <2>6 DEF TerminalPlanned
  <2>7. ASSUME NEW c \in Calls, NEW availability \in {"available", "unavailable"},
              NEW verdict \in {"allowed", "denied"}, ProbeSettles(c, availability, verdict)
        PROVE  CancelInv'
    BY <2>7 DEF ProbeSettles
  <2>8. ASSUME NEW c \in Calls, RuntimePlanEnds(c)
        PROVE  CancelInv'
    BY <2>8 DEF RuntimePlanEnds, IsAborted
  <2>9. ASSUME NEW c \in Calls, RuntimePlanExecutes(c)
        PROVE  CancelInv'
    BY <2>9 DEF RuntimePlanExecutes, IsAborted
  <2>10. ASSUME NEW c \in Calls, NEW outcome \in AdapterOutcomes, ExecuteSettles(c, outcome)
        PROVE  CancelInv'
    BY <2>10 DEF ExecuteSettles
  <2>11. ASSUME NEW c \in Calls, CancelAwaited(c)
        PROVE  CancelInv'
    BY <2>11 DEF CancelAwaited, Decided, CancelIsOver
  <2>12. ASSUME NEW c \in Calls, NEW status \in TerminalStatuses, FinalizeSettles(c, status)
        PROVE  CancelInv'
    BY <2>12 DEF FinalizeSettles, Normalized
  <2>13. ASSUME NEW c \in Calls, NEW status \in TerminalStatuses, TerminalEventThrows(c, status)
        PROVE  CancelInv'
    BY <2>13 DEF TerminalEventThrows, Normalized
  <2>14. ASSUME NEW c \in Calls, Return(c)
        PROVE  CancelInv'
    BY <2>14 DEF Return, Release
  <2>15. ASSUME NEW c \in Calls, Throws(c)
        PROVE  CancelInv'
    BY <2>15 DEF Throws, Release, CancelIsOver
  <2>16. ASSUME NEW s \in Signals, Abort(s)
        PROVE  CancelInv'
    BY <2>16 DEF Abort, IsAborted
  <2>17. ASSUME NEW c \in Calls, CancelCalled(c)
        PROVE  CancelInv'
    BY <2>17 DEF CancelCalled
  <2>18. ASSUME NEW c \in Calls, CancelSettles(c)
        PROVE  CancelInv'
    BY <2>18 DEF CancelSettles
  <2>19. ASSUME NEW c \in Calls, AdapterEmits(c)
        PROVE  CancelInv'
    BY <2>19 DEF AdapterEmits
  <2>20. CASE UNCHANGED vars
    BY <2>20 DEF vars
  <2> QED
    BY <2>1, <2>2, <2>3, <2>4, <2>5, <2>6, <2>7, <2>8, <2>9, <2>10, <2>11, <2>12, <2>13, <2>14, <2>15, <2>16, <2>17, <2>18, <2>19, <2>20
    DEF Next, Start, Continue, ProbeAnswers, ExecuteAnswers, Done
<1> QED
  BY <1>1, <1>2, TypeCorrect, PTL DEF Spec

\* What a call may have done before its adapter is executed, and what follows
\* for a call whose adapter never was.
GateInv ==
  \A c \in Calls :
    /\ pc[c] \in {"executing", "awaitCancel"} => c \in executed
    /\ pc[c] \in {"idle", "planTerminal", "probing", "planRuntime"} => c \notin executed
    /\ pc[c] = "idle" => probe[c] = "none"
    /\ pc[c] \in {"probing", "planRuntime"} \/ probe[c] # "none" => admission[c] = "allowed"
    /\ pc[c] = "planRuntime" /\ runtimeAdmission[c] = "allowed" => probe[c] = "available"
    /\ c \in executed =>
         admission[c] = "allowed" /\ probe[c] = "available" /\ runtimeAdmission[c] = "allowed"
    /\ c \notin executed =>
         /\ pc[c] \in {"planTerminal", "finalizing", "returning"} =>
              response[c] \in {"blocked", "cancelled"}
         /\ result[c] \notin {"completed", "failed"}

(***************************************************************************)
(* GateInv holds: run() reaches the probe only through the static          *)
(* admission, and execute only through both admissions and an available    *)
(* probe.                                                                  *)
(***************************************************************************)
THEOREM GateInvariant == Spec => []GateInv
<1> USE DEF callVars, gateVars, adapterVars, cancelVars
<1>1. Init => GateInv
  BY DEF Init, GateInv, SignalChoices, ActivePhases, AdapterOutcomes, TerminalStatuses
<1>2. TypeOK /\ TypeOK' /\ GateInv /\ [Next]_vars => GateInv'
  <2> SUFFICES ASSUME TypeOK, TypeOK', GateInv, [Next]_vars PROVE GateInv'
    OBVIOUS
  <2> USE NoSignalAssumption, NoRunIdAssumption DEF TypeOK, GateInv, SignalChoices, ActivePhases, AdapterOutcomes, TerminalStatuses
  <2>1. ASSUME NEW c \in Calls, NEW r \in RunIds \cup {NoRunId}, Refuse(c, r)
        PROVE  GateInv'
    BY <2>1 DEF Refuse
  <2>2. ASSUME NEW c \in Calls, NEW r \in RunIds, NEW s \in SignalChoices, StartThrows(c, r, s)
        PROVE  GateInv'
    BY <2>2 DEF StartThrows, Capture
  <2>3. ASSUME NEW c \in Calls, NEW r \in RunIds, NEW s \in SignalChoices, StartDenied(c, r, s)
        PROVE  GateInv'
    BY <2>3 DEF StartDenied, Claim, Capture
  <2>4. ASSUME NEW c \in Calls, NEW r \in RunIds, NEW s \in SignalChoices, StartAborted(c, r, s)
        PROVE  GateInv'
    BY <2>4 DEF StartAborted, Claim, Capture
  <2>5. ASSUME NEW c \in Calls, NEW r \in RunIds, NEW s \in SignalChoices, StartProbing(c, r, s)
        PROVE  GateInv'
    BY <2>5 DEF StartProbing, Claim, Capture
  <2>6. ASSUME NEW c \in Calls, TerminalPlanned(c)
        PROVE  GateInv'
    BY <2>6 DEF TerminalPlanned
  <2>7. ASSUME NEW c \in Calls, NEW availability \in {"available", "unavailable"},
              NEW verdict \in {"allowed", "denied"}, ProbeSettles(c, availability, verdict)
        PROVE  GateInv'
    BY <2>7 DEF ProbeSettles
  <2>8. ASSUME NEW c \in Calls, RuntimePlanEnds(c)
        PROVE  GateInv'
    BY <2>8 DEF RuntimePlanEnds, IsAborted
  <2>9. ASSUME NEW c \in Calls, RuntimePlanExecutes(c)
        PROVE  GateInv'
    BY <2>9 DEF RuntimePlanExecutes, IsAborted
  <2>10. ASSUME NEW c \in Calls, NEW outcome \in AdapterOutcomes, ExecuteSettles(c, outcome)
        PROVE  GateInv'
    BY <2>10 DEF ExecuteSettles
  <2>11. ASSUME NEW c \in Calls, CancelAwaited(c)
        PROVE  GateInv'
    BY <2>11 DEF CancelAwaited, Decided, CancelIsOver
  <2>12. ASSUME NEW c \in Calls, NEW status \in TerminalStatuses, FinalizeSettles(c, status)
        PROVE  GateInv'
    BY <2>12 DEF FinalizeSettles, Normalized
  <2>13. ASSUME NEW c \in Calls, NEW status \in TerminalStatuses, TerminalEventThrows(c, status)
        PROVE  GateInv'
    BY <2>13 DEF TerminalEventThrows, Normalized
  <2>14. ASSUME NEW c \in Calls, Return(c)
        PROVE  GateInv'
    BY <2>14 DEF Return, Release
  <2>15. ASSUME NEW c \in Calls, Throws(c)
        PROVE  GateInv'
    BY <2>15 DEF Throws, Release, CancelIsOver
  <2>16. ASSUME NEW s \in Signals, Abort(s)
        PROVE  GateInv'
    BY <2>16 DEF Abort, IsAborted
  <2>17. ASSUME NEW c \in Calls, CancelCalled(c)
        PROVE  GateInv'
    BY <2>17 DEF CancelCalled
  <2>18. ASSUME NEW c \in Calls, CancelSettles(c)
        PROVE  GateInv'
    BY <2>18 DEF CancelSettles
  <2>19. ASSUME NEW c \in Calls, AdapterEmits(c)
        PROVE  GateInv'
    BY <2>19 DEF AdapterEmits
  <2>20. CASE UNCHANGED vars
    BY <2>20 DEF vars
  <2> QED
    BY <2>1, <2>2, <2>3, <2>4, <2>5, <2>6, <2>7, <2>8, <2>9, <2>10, <2>11, <2>12, <2>13, <2>14, <2>15, <2>16, <2>17, <2>18, <2>19, <2>20
    DEF Next, Start, Continue, ProbeAnswers, ExecuteAnswers, Done
<1> QED
  BY <1>1, <1>2, TypeCorrect, PTL DEF Spec

(***************************************************************************)
(* The properties the runs check that follow from these invariants.        *)
(***************************************************************************)
\* adapter.cancel(runId) never reaches a later run with the same id.
THEOREM CancelStays == Spec => []CancelStaysInRun
<1>1. CancelInv => CancelStaysInRun
  BY DEF CancelInv, CancelStaysInRun
<1> QED
  BY <1>1, CancelInvariant, PTL

\* An executing call with an aborted signal has passed the abort on.
THEOREM AbortReaches == Spec => []AbortReachesAdapter
<1>1. CancelInv => AbortReachesAdapter
  BY DEF CancelInv, AbortReachesAdapter
<1> QED
  BY <1>1, CancelInvariant, PTL

\* A call whose adapter was asked to cancel is never completed.
THEOREM CancelledNotCompleted == Spec => []CancelledNeverCompletes
<1>1. CancelInv => CancelledNeverCompletes
  BY DEF CancelInv, CancelledNeverCompletes
<1> QED
  BY <1>1, CancelInvariant, PTL

\* An adapter is probed only if the static admission allowed it and executes
\* only if the probe and the admission at run time did too.
THEOREM ExecutionGated == Spec => []GatedExecution
<1>1. GateInv => GatedExecution
  BY DEF GateInv, GatedExecution
<1> QED
  BY <1>1, GateInvariant, PTL

(***************************************************************************)
(* Refinement: each step of run() is a step of the contract, or stutters.  *)
(***************************************************************************)
\* The refinement mapping, one call at a time.
Held(c) == IF Active(c) THEN runId[c] ELSE NoRunId
Revoked(c) == cancelRequest[c] # "none"
RunInv == TypeOK /\ RunIdExclusive /\ CancelInv

\* An active call holds a run id, and its promise is pending.
LEMMA ActiveHolds ==
  ASSUME RunInv, NEW c \in Calls
  PROVE  /\ Active(c) => runId[c] \in activeRunIds /\ runId[c] \in RunIds /\ Held(c) # NoRunId
         /\ ~Active(c) => Held(c) = NoRunId
         /\ pc[c] # "settled" => result[c] = "pending"
BY NoRunIdAssumption DEF RunInv, TypeOK, RunIdExclusive, CancelInv, Held

\* A step that moves a call from one active phase to another, or none, and
\* settles no promise, is a stutter of the contract.
LEMMA StutterStep ==
  ASSUME RunInv,
         \A c \in Calls : Active(c)' <=> Active(c),
         \A c \in Calls : Revoked(c)' <=> Revoked(c),
         UNCHANGED <<runId, result>>
  PROVE  UNCHANGED Contract!contractVars
<1>1. \A c \in Calls : Held(c)' = Held(c)
  BY DEF Held
<1> QED
  BY <1>1 DEF Contract!contractVars, Held, Revoked

\* A call that settles without having held its id.
LEMMA RefuseStep ==
  ASSUME RunInv, NEW c \in Calls, pc[c] = "idle", pc' = [pc EXCEPT ![c] = "settled"],
         result' = [result EXCEPT ![c] = "rejected"],
         \A d \in Calls \ {c} : runId'[d] = runId[d], UNCHANGED cancelRequest
  PROVE  Contract!Refuse(c)
<1>1. result[c] = "pending" /\ Held(c) = NoRunId
  BY ActiveHolds DEF Active, ActivePhases
<1>2. \A d \in Calls : Held(d)' = Held(d)
  BY DEF RunInv, TypeOK, Held, Active, ActivePhases
<1> QED
  BY <1>1, <1>2 DEF Contract!Refuse, Held

\* A call that claims an id no other call holds.
LEMMA AcceptStep ==
  ASSUME RunInv, NEW c \in Calls, NEW r \in RunIds, NEW s \in SignalChoices,
         NEW next \in ActivePhases, Capture(c, r, s),
         pc' = [pc EXCEPT ![c] = next], UNCHANGED <<cancelRequest, result>>
  PROVE  Contract!Accept(c, r)
<1>1. result[c] = "pending" /\ Held(c) = NoRunId
  BY ActiveHolds DEF Capture, Active, ActivePhases
<1>2. \A d \in Calls : Held(d) # r
  BY ActiveHolds, NoRunIdAssumption DEF Capture, Held
<1>3. \A d \in Calls : Held(d)' = IF d = c THEN r ELSE Held(d)
  BY DEF RunInv, TypeOK, Capture, Held, Active
<1>4. [d \in Calls |-> Held(d)]' = [[d \in Calls |-> Held(d)] EXCEPT ![c] = r]
  BY <1>3
<1> QED
  BY <1>1, <1>2, <1>4 DEF Contract!Accept, Held

\* A call that gives its id back and settles.
LEMMA SettleStep ==
  ASSUME RunInv, NEW c \in Calls, NEW verdict \in Results, Active(c), Release(c, verdict),
         Revoked(c) => verdict # "completed", UNCHANGED <<runId, cancelRequest>>
  PROVE  Contract!Settle(c, verdict)
<1>1. Held(c) # NoRunId
  BY ActiveHolds
<1>2. \A d \in Calls : Held(d)' = IF d = c THEN NoRunId ELSE Held(d)
  BY DEF RunInv, TypeOK, Release, Held, Active, ActivePhases
<1>3. [d \in Calls |-> Held(d)]' = [[d \in Calls |-> Held(d)] EXCEPT ![c] = NoRunId]
  BY <1>2
<1> QED
  BY <1>1, <1>3 DEF Contract!Settle, Release, Held, Revoked

\* An abort revokes the calls that hear it, if the adapter can cancel.
LEMMA RevokeStep ==
  ASSUME RunInv, NEW s \in Signals, Abort(s)
  PROVE  Contract!Revoke({c \in listener : signal[c] = s /\ AdapterCancels})
<1> DEFINE C == {c \in listener : signal[c] = s /\ AdapterCancels}
<1>1. \A c \in C : Held(c) # NoRunId
  BY ActiveHolds DEF RunInv, TypeOK, CancelInv, Active, ActivePhases
<1>2. C \subseteq Calls
  BY DEF RunInv, TypeOK
<1>3. \A c \in Calls : Revoked(c)' <=> Revoked(c) \/ c \in C
  BY DEF Abort, Revoked
<1>4. [c \in Calls |-> Revoked(c)]' = [c \in Calls |-> Revoked(c) \/ c \in C]
  BY <1>3 DEF Revoked
<1>5. \A c \in Calls : Held(c)' = Held(c)
  BY DEF Abort, callVars, Held, Active
<1>6. [c \in Calls |-> Held(c)]' = [c \in Calls |-> Held(c)]
  BY <1>5
<1> QED
  BY <1>1, <1>2, <1>4, <1>6 DEF Contract!Revoke, Held, Revoked, Abort

(***************************************************************************)
(* run() implements its contract, for any number of calls and ids.         *)
(***************************************************************************)
THEOREM RunImplementsContract == Spec => ImplementsContract
<1> USE DEF callVars, gateVars, adapterVars, cancelVars
<1>1. Init => Contract!Init
  <2> SUFFICES ASSUME Init PROVE Contract!Init
    OBVIOUS
  <2>1. \A c \in Calls : ~Active(c) /\ cancelRequest[c] = "none"
    BY DEF Init, Active, ActivePhases
  <2>2. result = [c \in Calls |-> "pending"]
    BY DEF Init
  <2> QED
    BY <2>1, <2>2 DEF Contract!Init
<1>2. RunInv /\ [Next]_vars => [Contract!Next]_(Contract!contractVars)
  <2> SUFFICES ASSUME RunInv, [Next]_vars
               PROVE  Contract!Next \/ UNCHANGED Contract!contractVars
    OBVIOUS
  <2> USE DEF Active, ActivePhases
  <2>1. ASSUME NEW c \in Calls, NEW r \in RunIds \cup {NoRunId}, Refuse(c, r)
        PROVE  Contract!Next \/ UNCHANGED Contract!contractVars
    <3>1. Contract!Refuse(c)
      BY <2>1, RefuseStep DEF RunInv, TypeOK, Refuse
    <3> QED
      BY <3>1 DEF Contract!Next
  <2>2. ASSUME NEW c \in Calls, NEW r \in RunIds, NEW s \in SignalChoices, StartThrows(c, r, s)
        PROVE  Contract!Next \/ UNCHANGED Contract!contractVars
    <3>1. Contract!Refuse(c)
      BY <2>2, RefuseStep DEF RunInv, TypeOK, StartThrows, Capture
    <3> QED
      BY <3>1 DEF Contract!Next
  <2>3. ASSUME NEW c \in Calls, NEW r \in RunIds, NEW s \in SignalChoices, StartDenied(c, r, s)
        PROVE  Contract!Next \/ UNCHANGED Contract!contractVars
    <3>1. Contract!Accept(c, r)
      BY <2>3, AcceptStep, "planTerminal" \in ActivePhases DEF StartDenied, Claim
    <3> QED
      BY <3>1 DEF Contract!Next
  <2>4. ASSUME NEW c \in Calls, NEW r \in RunIds, NEW s \in SignalChoices, StartAborted(c, r, s)
        PROVE  Contract!Next \/ UNCHANGED Contract!contractVars
    <3>1. Contract!Accept(c, r)
      BY <2>4, AcceptStep, "planTerminal" \in ActivePhases DEF StartAborted, Claim
    <3> QED
      BY <3>1 DEF Contract!Next
  <2>5. ASSUME NEW c \in Calls, NEW r \in RunIds, NEW s \in SignalChoices, StartProbing(c, r, s)
        PROVE  Contract!Next \/ UNCHANGED Contract!contractVars
    <3>1. Contract!Accept(c, r)
      BY <2>5, AcceptStep, "probing" \in ActivePhases DEF StartProbing, Claim
    <3> QED
      BY <3>1 DEF Contract!Next
  <2>6. ASSUME NEW c \in Calls, TerminalPlanned(c)
        PROVE  Contract!Next \/ UNCHANGED Contract!contractVars
    <3>1. \A d \in Calls : (Active(d)' <=> Active(d)) /\ (Revoked(d)' <=> Revoked(d))
      BY <2>6 DEF RunInv, TypeOK, Revoked, TerminalPlanned
    <3> QED
      BY <2>6, <3>1, StutterStep DEF TerminalPlanned
  <2>7. ASSUME NEW c \in Calls, NEW availability \in {"available", "unavailable"},
              NEW verdict \in {"allowed", "denied"}, ProbeSettles(c, availability, verdict)
        PROVE  Contract!Next \/ UNCHANGED Contract!contractVars
    <3>1. \A d \in Calls : (Active(d)' <=> Active(d)) /\ (Revoked(d)' <=> Revoked(d))
      BY <2>7 DEF RunInv, TypeOK, Revoked, ProbeSettles
    <3> QED
      BY <2>7, <3>1, StutterStep DEF ProbeSettles
  <2>8. ASSUME NEW c \in Calls, RuntimePlanEnds(c)
        PROVE  Contract!Next \/ UNCHANGED Contract!contractVars
    <3>1. \A d \in Calls : (Active(d)' <=> Active(d)) /\ (Revoked(d)' <=> Revoked(d))
      BY <2>8 DEF RunInv, TypeOK, Revoked, RuntimePlanEnds
    <3> QED
      BY <2>8, <3>1, StutterStep DEF RuntimePlanEnds
  <2>9. ASSUME NEW c \in Calls, RuntimePlanExecutes(c)
        PROVE  Contract!Next \/ UNCHANGED Contract!contractVars
    <3>1. \A d \in Calls : (Active(d)' <=> Active(d)) /\ (Revoked(d)' <=> Revoked(d))
      BY <2>9 DEF RunInv, TypeOK, Revoked, RuntimePlanExecutes
    <3> QED
      BY <2>9, <3>1, StutterStep DEF RuntimePlanExecutes
  <2>10. ASSUME NEW c \in Calls, NEW outcome \in AdapterOutcomes, ExecuteSettles(c, outcome)
        PROVE  Contract!Next \/ UNCHANGED Contract!contractVars
    <3>1. \A d \in Calls : (Active(d)' <=> Active(d)) /\ (Revoked(d)' <=> Revoked(d))
      BY <2>10 DEF RunInv, TypeOK, Revoked, ExecuteSettles
    <3> QED
      BY <2>10, <3>1, StutterStep DEF ExecuteSettles
  <2>11. ASSUME NEW c \in Calls, CancelAwaited(c)
        PROVE  Contract!Next \/ UNCHANGED Contract!contractVars
    <3>1. \A d \in Calls : (Active(d)' <=> Active(d)) /\ (Revoked(d)' <=> Revoked(d))
      BY <2>11 DEF RunInv, TypeOK, Revoked, CancelAwaited
    <3> QED
      BY <2>11, <3>1, StutterStep DEF CancelAwaited
  <2>12. ASSUME NEW c \in Calls, NEW status \in TerminalStatuses, FinalizeSettles(c, status)
        PROVE  Contract!Next \/ UNCHANGED Contract!contractVars
    <3>1. \A d \in Calls : (Active(d)' <=> Active(d)) /\ (Revoked(d)' <=> Revoked(d))
      BY <2>12 DEF RunInv, TypeOK, Revoked, FinalizeSettles
    <3> QED
      BY <2>12, <3>1, StutterStep DEF FinalizeSettles
  <2>13. ASSUME NEW c \in Calls, NEW status \in TerminalStatuses, TerminalEventThrows(c, status)
        PROVE  Contract!Next \/ UNCHANGED Contract!contractVars
    <3>1. \A d \in Calls : (Active(d)' <=> Active(d)) /\ (Revoked(d)' <=> Revoked(d))
      BY <2>13 DEF RunInv, TypeOK, Revoked, TerminalEventThrows
    <3> QED
      BY <2>13, <3>1, StutterStep DEF TerminalEventThrows
  <2>14. ASSUME NEW c \in Calls, Return(c)
        PROVE  Contract!Next \/ UNCHANGED Contract!contractVars
    <3>1. response[c] \in Results /\ (Revoked(c) => response[c] # "completed")
      BY <2>14 DEF RunInv, TypeOK, CancelInv, Return, Revoked, Results
    <3>2. ASSUME NEW verdict \in Results, verdict = response[c] PROVE Contract!Settle(c, verdict)
      <4>1. Release(c, verdict) /\ Active(c) /\ UNCHANGED <<runId, cancelRequest>>
        BY <2>14, <3>2 DEF Return
      <4>2. Revoked(c) => verdict # "completed"
        BY <3>1, <3>2
      <4> QED
        BY <4>1, <4>2, SettleStep
    <3>3. Results = Contract!Verdicts
      BY DEF Contract!Verdicts, Contract!Statuses, Results, TerminalStatuses
    <3> QED
      BY <3>1, <3>2, <3>3 DEF Contract!Next
  <2>15. ASSUME NEW c \in Calls, Throws(c)
        PROVE  Contract!Next \/ UNCHANGED Contract!contractVars
    <3>1. Contract!Settle(c, "rejected")
      BY <2>15, SettleStep, "rejected" \in Results DEF Throws, Results
    <3> QED
      BY <3>1 DEF Contract!Next, Contract!Verdicts
  <2>16. ASSUME NEW s \in Signals, Abort(s)
        PROVE  Contract!Next \/ UNCHANGED Contract!contractVars
    <3> DEFINE C == {c \in listener : signal[c] = s /\ AdapterCancels}
    <3>1. C \in SUBSET Calls
      BY DEF RunInv, TypeOK
    <3>2. Contract!Revoke(C)
      BY <2>16, RevokeStep
    <3> HIDE DEF C
    <3>3. \E D \in SUBSET Calls : Contract!Revoke(D)
      BY <3>1, <3>2 DEF Contract!Revoke
    <3> QED
      BY <3>3 DEF Contract!Next
  <2>17. ASSUME NEW c \in Calls, CancelCalled(c)
        PROVE  Contract!Next \/ UNCHANGED Contract!contractVars
    <3>1. \A d \in Calls : (Active(d)' <=> Active(d)) /\ (Revoked(d)' <=> Revoked(d))
      BY <2>17 DEF RunInv, TypeOK, Revoked, CancelCalled
    <3> QED
      BY <2>17, <3>1, StutterStep DEF CancelCalled
  <2>18. ASSUME NEW c \in Calls, CancelSettles(c)
        PROVE  Contract!Next \/ UNCHANGED Contract!contractVars
    <3>1. \A d \in Calls : (Active(d)' <=> Active(d)) /\ (Revoked(d)' <=> Revoked(d))
      BY <2>18 DEF RunInv, TypeOK, Revoked, CancelSettles
    <3> QED
      BY <2>18, <3>1, StutterStep DEF CancelSettles
  <2>19. ASSUME NEW c \in Calls, AdapterEmits(c)
        PROVE  Contract!Next \/ UNCHANGED Contract!contractVars
    <3>1. \A d \in Calls : (Active(d)' <=> Active(d)) /\ (Revoked(d)' <=> Revoked(d))
      BY <2>19 DEF RunInv, TypeOK, Revoked, AdapterEmits
    <3> QED
      BY <2>19, <3>1, StutterStep DEF AdapterEmits
  <2>20. CASE UNCHANGED vars
    BY <2>20 DEF vars, Contract!contractVars
  <2> QED
    BY <2>1, <2>2, <2>3, <2>4, <2>5, <2>6, <2>7, <2>8, <2>9, <2>10, <2>11, <2>12, <2>13, <2>14, <2>15, <2>16, <2>17, <2>18, <2>19, <2>20
    DEF Next, Start, Continue, ProbeAnswers, ExecuteAnswers, Done
<1>3. TypeOK /\ RunIdExclusive /\ CancelInv => RunInv
  BY DEF RunInv
<1> QED
  BY <1>1, <1>2, <1>3, TypeCorrect, RunIdsExclusive, CancelInvariant, PTL
  DEF Spec, ImplementsContract, Contract!Spec

(***************************************************************************)
(* The event stream of a run (core/events.ts).                             *)
(***************************************************************************)
\* The numbers of the delivered events grow, none is above the last one taken,
\* and started is the event number 1.
Numbered(e) ==
  \A i \in DOMAIN e.delivered :
    /\ e.delivered[i].sequence <= e.sequence
    /\ \A j \in 1 .. i - 1 : e.delivered[j].sequence < e.delivered[i].sequence
    /\ e.delivered[i].phase = "started" <=> e.delivered[i].sequence = 1

\* The observer has seen started first.
Opened(e) == e.delivered # <<>> /\ e.delivered[1].phase = "started"

\* It has seen one terminal event, and that is `status`.
Closed(e, status) ==
  \E i \in TerminalIndices(e) : TerminalIndices(e) = {i} /\ e.delivered[i].phase = status

\* What is true of an emitter whoever emits next.
EmitterOK(e) ==
  /\ Numbered(e)
  /\ e.delivered = <<>> \/ Opened(e) \/ (Len(e.delivered) = 1 /\ e.delivered[1].phase = "failed")
  /\ e.terminalEmitted <=> TerminalIndices(e) # {}

\* How far a call has come, and what its observer has seen by then.  An adapter
\* may emit as long as it has been handed the context, so the stream of an
\* executed call stays opened even after the call has settled.
EventInv ==
  \A c \in Calls :
    /\ EmitterOK(emitter[c])
    /\ pc[c] = "idle" => emitter[c] = NewEmitter
    /\ Active(c) \/ c \in executed => Opened(emitter[c])
    /\ pc[c] \notin {"returning", "settled"} => TerminalIndices(emitter[c]) = {}
    /\ pc[c] = "returning" => Closed(emitter[c], response[c])
    /\ pc[c] # "settled" => result[c] = "pending"
    /\ result[c] \in TerminalStatuses => Closed(emitter[c], result[c])
    /\ result[c] = "rejected" =>
         TerminalIndices(emitter[c]) = {} \/ Closed(emitter[c], "failed")
    /\ ~ClockMayFail /\ pc[c] = "settled" /\ emitter[c].delivered # <<>> =>
         TerminalIndices(emitter[c]) # {}

(***************************************************************************)
(* Emitting takes the next number; it appends the event to what the        *)
(* observer has seen, unless it throws.                                    *)
(***************************************************************************)
LEMMA EmitEffect ==
  ASSUME NEW e \in Emitters, NEW phase \in Phases, NEW ok \in BOOLEAN
  PROVE  LET d == Emit(e, phase, ok).delivered
             n == Len(e.delivered)
         IN  /\ n \in Nat /\ DOMAIN e.delivered = 1 .. n
             /\ \A i \in 1 .. n : d[i] = e.delivered[i]
             /\ ~ok => d = e.delivered
             /\ ok => /\ Len(d) = n + 1 /\ DOMAIN d = 1 .. n + 1
                      /\ d[n + 1].phase = phase /\ d[n + 1].sequence = e.sequence + 1
<1> DEFINE event == [phase |-> phase, sequence |-> e.sequence + 1]
<1>1. e.sequence \in Nat /\ e.delivered \in Seq(Events)
  BY DEF Emitters
<1>2. event \in Events
  BY <1>1 DEF Events
<1>3. Emit(e, phase, ok).delivered = IF ok THEN Append(e.delivered, event) ELSE e.delivered
  BY DEF Emit
<1>4. event.phase = phase /\ event.sequence = e.sequence + 1
  OBVIOUS
<1> HIDE DEF event
<1> QED
  BY <1>1, <1>2, <1>3, <1>4

\* Numbers keep growing, and only the first emission of a stream may be started.
LEMMA NumberedKept ==
  ASSUME NEW e \in Emitters, Numbered(e), NEW phase \in Phases, NEW ok \in BOOLEAN,
         NEW f, f.sequence = e.sequence + 1, f.delivered = Emit(e, phase, ok).delivered,
         phase \in {"started"} <=> e.sequence = 0
  PROVE  Numbered(f)
<1> DEFINE d == Emit(e, phase, ok).delivered
           n == Len(e.delivered)
<1>1. e.sequence \in Nat /\ e.delivered \in Seq(Events)
  BY DEF Emitters
<1>2. \A i \in 1 .. n : e.delivered[i].sequence \in Nat \ {0}
  <2>1. \A i \in 1 .. n : e.delivered[i] \in Events
    BY <1>1
  <2> QED
    BY <2>1 DEF Events
<1>3. /\ n \in Nat /\ DOMAIN e.delivered = 1 .. n
      /\ \A i \in 1 .. n : d[i] = e.delivered[i]
      /\ ~ok => d = e.delivered
      /\ ok => /\ Len(d) = n + 1 /\ DOMAIN d = 1 .. n + 1
               /\ d[n + 1].phase = phase /\ d[n + 1].sequence = e.sequence + 1
  BY EmitEffect
<1> HIDE DEF d, n
<1>4. f.delivered = d
  BY DEF d
<1>5. \A i \in 1 .. n :
        /\ d[i].sequence \in Nat \ {0} /\ d[i].sequence <= e.sequence
        /\ \A j \in 1 .. i - 1 : d[j].sequence < d[i].sequence
        /\ d[i].phase = "started" <=> d[i].sequence = 1
  <2> SUFFICES ASSUME NEW i \in 1 .. n
               PROVE  /\ e.delivered[i].sequence \in Nat \ {0}
                      /\ e.delivered[i].sequence <= e.sequence
                      /\ \A j \in 1 .. i - 1 : d[j].sequence < e.delivered[i].sequence
                      /\ e.delivered[i].phase = "started" <=> e.delivered[i].sequence = 1
    BY <1>3
  <2>1. \A j \in 1 .. i - 1 : d[j] = e.delivered[j]
    BY <1>3
  <2> QED
    BY <1>2, <1>3, <2>1 DEF Numbered
<1>6. CASE ~ok
  BY <1>1, <1>3, <1>4, <1>5, <1>6 DEF Numbered
<1>7. CASE ok
  <2>1. d[n + 1].phase = "started" <=> d[n + 1].sequence = 1
    BY <1>1, <1>3, <1>7
  <2>2. \A j \in 1 .. n : d[j].sequence < d[n + 1].sequence
    BY <1>1, <1>3, <1>5, <1>7
  <2> QED
    BY <1>1, <1>3, <1>4, <1>5, <1>7, <2>1, <2>2 DEF Numbered
<1> QED
  BY <1>6, <1>7

\* What has been seen stays seen: an opened stream stays opened, and the
\* terminal events are the same ones and, it may be, the new one.
LEMMA SeenKept ==
  ASSUME NEW e \in Emitters, NEW phase \in Phases, NEW ok \in BOOLEAN,
         NEW f, f.delivered = Emit(e, phase, ok).delivered
  PROVE  /\ Opened(e) => Opened(f)
         /\ TerminalIndices(f) =
              TerminalIndices(e) \cup
                (IF ok /\ phase \in TerminalStatuses THEN {Len(e.delivered) + 1} ELSE {})
         /\ \A i \in TerminalIndices(e) : f.delivered[i] = e.delivered[i]
<1> DEFINE d == Emit(e, phase, ok).delivered
           n == Len(e.delivered)
<1>1. /\ n \in Nat /\ DOMAIN e.delivered = 1 .. n
      /\ \A i \in 1 .. n : d[i] = e.delivered[i]
      /\ ~ok => d = e.delivered
      /\ ok => /\ Len(d) = n + 1 /\ DOMAIN d = 1 .. n + 1
               /\ d[n + 1].phase = phase /\ d[n + 1].sequence = e.sequence + 1
  BY EmitEffect
<1> HIDE DEF d
<1>2. f.delivered = d /\ e.delivered \in Seq(Events)
  BY DEF d, Emitters
<1>3. Opened(e) => Opened(f)
  BY <1>1, <1>2 DEF Opened
<1>4. TerminalIndices(e) = {i \in 1 .. n : e.delivered[i].phase \in TerminalStatuses}
  BY <1>1 DEF TerminalIndices
<1>5. \A i \in TerminalIndices(e) : f.delivered[i] = e.delivered[i]
  BY <1>1, <1>2, <1>4
<1>6. CASE ~ok
  BY <1>1, <1>2, <1>3, <1>5, <1>6 DEF TerminalIndices
<1>7. CASE ok
  <2>1. TerminalIndices(f) = {i \in 1 .. n + 1 : d[i].phase \in TerminalStatuses}
    BY <1>1, <1>2, <1>7 DEF TerminalIndices
  <2> HIDE DEF n
  <2>2. TerminalIndices(f) =
          TerminalIndices(e) \cup (IF phase \in TerminalStatuses THEN {n + 1} ELSE {})
    BY <1>1, <1>4, <1>7, <2>1
  <2> QED
    BY <1>3, <1>5, <1>7, <2>2 DEF n
<1> QED
  BY <1>6, <1>7

\* Nothing has been seen of a new emitter.
LEMMA NewEmitterOK == EmitterOK(NewEmitter) /\ TerminalIndices(NewEmitter) = {}
  BY DEF NewEmitter, EmitterOK, Numbered, TerminalIndices

\* The first emission opens the stream, or spends the number 1 on nothing.
LEMMA StartedEffect ==
  ASSUME NEW ok \in BOOLEAN
  PROVE  LET f == EmitStarted(NewEmitter, ok)
         IN  /\ f \in Emitters /\ EmitterOK(f)
             /\ f.sequence = 1 /\ ~f.terminalEmitted /\ TerminalIndices(f) = {}
             /\ IF ok THEN Opened(f) ELSE f.delivered = <<>>
<1> DEFINE f == EmitStarted(NewEmitter, ok)
<1>1. /\ NewEmitter.sequence = 0 /\ ~NewEmitter.terminalEmitted /\ NewEmitter.delivered = <<>>
      /\ Numbered(NewEmitter) /\ TerminalIndices(NewEmitter) = {}
  BY NewEmitterOK DEF NewEmitter, EmitterOK
<1>2. "started" \in Phases \ TerminalStatuses
  BY DEF Phases, LifecyclePhases, TerminalStatuses
<1>3. f \in Emitters /\ f = Emit(NewEmitter, "started", ok)
  BY <1>2, NewEmitterType, EmitType DEF EmitStarted
<1>4. f.sequence = 1 /\ ~f.terminalEmitted
  BY <1>1, <1>3 DEF Emit
<1>5. Numbered(f)
  BY <1>1, <1>2, <1>3, <1>4, NewEmitterType, NumberedKept
<1>6. TerminalIndices(f) = {}
  BY <1>1, <1>2, <1>3, <1>4, NewEmitterType, SeenKept
<1>7. IF ok THEN Opened(f) ELSE f.delivered = <<>>
  BY <1>1, <1>2, <1>3, <1>4, NewEmitterType DEF Opened, Emit
<1> QED
  BY <1>3, <1>4, <1>5, <1>6, <1>7 DEF EmitterOK

\* An event that has been seen has spent a number.
LEMMA OpenedSpent ==
  ASSUME NEW e \in Emitters, Opened(e), Numbered(e)
  PROVE  e.sequence # 0
<1>1. e.sequence \in Nat /\ e.delivered \in Seq(Events) /\ 1 \in DOMAIN e.delivered
  BY DEF Emitters, Opened
<1>2. e.delivered[1] \in Events
  BY <1>1
<1>3. e.delivered[1].sequence \in Nat \ {0} /\ e.delivered[1].sequence <= e.sequence
  BY <1>1, <1>2 DEF Events, Numbered
<1> QED
  BY <1>1, <1>3

\* The terminal event, of an opened stream or of one whose started was lost:
\* if its emission throws, the flag stays down and it may be tried again.
LEMMA TerminalEffect ==
  ASSUME NEW e \in Emitters, EmitterOK(e), e.sequence # 0, TerminalIndices(e) = {},
         NEW status \in TerminalStatuses, NEW ok \in BOOLEAN,
         Opened(e) \/ (e.delivered = <<>> /\ status = "failed")
  PROVE  LET f == EmitTerminal(e, status, ok)
         IN  /\ f \in Emitters /\ EmitterOK(f)
             /\ Opened(e) => Opened(f)
             /\ ok => Closed(f, status)
             /\ ~ok => TerminalIndices(f) = {} /\ f.delivered = e.delivered
<1> DEFINE f == EmitTerminal(e, status, ok)
<1>1. e.sequence \in Nat /\ e.delivered \in Seq(Events) /\ ~e.terminalEmitted
  BY DEF Emitters, EmitterOK
<1>2. status \in Phases /\ status # "started"
  BY DEF Phases, LifecyclePhases, TerminalStatuses
<1>3. f \in Emitters
  BY <1>2, EmitTerminalType
<1>4. /\ f.sequence = e.sequence + 1 /\ f.terminalEmitted = ok
      /\ f.delivered = Emit(e, status, ok).delivered
  BY <1>1 DEF EmitTerminal, Emit
<1>5. Numbered(f)
  BY <1>2, <1>4, NumberedKept DEF EmitterOK
<1>6. /\ Opened(e) => Opened(f)
      /\ TerminalIndices(f) = IF ok THEN {Len(e.delivered) + 1} ELSE {}
  BY <1>2, <1>4, SeenKept
<1>7. /\ ok => Len(f.delivered) = Len(e.delivered) + 1
      /\ ok => f.delivered[Len(e.delivered) + 1].phase = status
      /\ ~ok => f.delivered = e.delivered
  <2>1. LET d == Emit(e, status, ok).delivered
            n == Len(e.delivered)
        IN  /\ ~ok => d = e.delivered
            /\ ok => Len(d) = n + 1 /\ d[n + 1].phase = status
    BY <1>2, EmitEffect
  <2> QED
    BY <1>4, <2>1
<1>8. f.delivered = <<>> \/ Opened(f) \/ (Len(f.delivered) = 1 /\ f.delivered[1].phase = "failed")
  <2>1. e.delivered = <<>> => Len(e.delivered) = 0
    OBVIOUS
  <2>2. CASE Opened(e)
    BY <1>6, <2>2
  <2>3. CASE e.delivered = <<>> /\ status = "failed"
    BY <1>7, <2>1, <2>3
  <2> QED
    BY <2>2, <2>3
<1>9. EmitterOK(f)
  BY <1>4, <1>5, <1>6, <1>8 DEF EmitterOK
<1>10. ok => Closed(f, status)
  BY <1>6, <1>7 DEF Closed
<1> QED
  BY <1>3, <1>6, <1>7, <1>9, <1>10

\* An adapter's event, early or late, is not a terminal one.
LEMMA AdapterEffect ==
  ASSUME NEW e \in Emitters, EmitterOK(e), Opened(e), NEW ok \in BOOLEAN
  PROVE  LET f == EmitAdapter(e, ok)
         IN  /\ f \in Emitters /\ EmitterOK(f) /\ Opened(f)
             /\ TerminalIndices(f) = TerminalIndices(e)
             /\ \A status : Closed(e, status) => Closed(f, status)
<1> DEFINE f == EmitAdapter(e, ok)
<1>1. "adapter" \in Phases \ TerminalStatuses /\ "adapter" # "started"
  BY DEF Phases, LifecyclePhases, TerminalStatuses
<1>2. /\ f \in Emitters /\ f.sequence = e.sequence + 1 /\ f.terminalEmitted = e.terminalEmitted
      /\ f.delivered = Emit(e, "adapter", ok).delivered
  BY <1>1, EmitType DEF EmitAdapter, Emit
<1>3. Numbered(f)
  BY <1>1, <1>2, OpenedSpent, NumberedKept DEF EmitterOK
<1>4. Opened(f) /\ TerminalIndices(f) = TerminalIndices(e)
      /\ \A i \in TerminalIndices(e) : f.delivered[i] = e.delivered[i]
  <2> HIDE DEF f
  <2>1. /\ Opened(f)
        /\ TerminalIndices(f) =
             TerminalIndices(e) \cup
               (IF ok /\ "adapter" \in TerminalStatuses THEN {Len(e.delivered) + 1} ELSE {})
        /\ \A i \in TerminalIndices(e) : f.delivered[i] = e.delivered[i]
    BY <1>1, <1>2, SeenKept
  <2> QED
    BY <1>1, <2>1
<1>5. EmitterOK(f)
  BY <1>2, <1>3, <1>4 DEF EmitterOK
<1>6. \A status : Closed(e, status) => Closed(f, status)
  BY <1>4 DEF Closed
<1> QED
  BY <1>2, <1>4, <1>5, <1>6

\* A call that claims its id has told its observer started, and nothing else.
LEMMA ClaimStep ==
  ASSUME TypeOK, EventInv, NEW c \in Calls, NEW r \in RunIds, NEW s \in SignalChoices,
         NEW verdict, Claim(c, r, s, verdict),
         NEW next \in ActivePhases \ {"returning"}, pc' = [pc EXCEPT ![c] = next],
         \A d \in Calls \ {c} : response'[d] = response[d]
  PROVE  EventInv'
<1> USE DEF TypeOK, EventInv, Active, ActivePhases, TerminalStatuses
<1> DEFINE f == EmitStarted(NewEmitter, TRUE)
<1>1. EmitterOK(f) /\ Opened(f) /\ TerminalIndices(f) = {}
  BY StartedEffect
<1>2. emitter[c] = NewEmitter /\ result[c] = "pending" /\ UNCHANGED <<executed, result>>
  BY DEF Claim, Capture
<1>3. emitter'[c] = f /\ \A d \in Calls \ {c} : emitter'[d] = emitter[d]
  BY <1>2 DEF Claim
<1> HIDE DEF f
<1> QED
  BY <1>1, <1>2, <1>3

(***************************************************************************)
(* EventInv holds: the stream of every run is opened before anything else  *)
(* is emitted, and closed once, before the promise settles.                *)
(***************************************************************************)
THEOREM EventInvariant == Spec => []EventInv
<1> USE DEF callVars, gateVars, adapterVars, cancelVars
<1>1. Init => EventInv
  BY NewEmitterOK DEF Init, EventInv, Active, ActivePhases, NewEmitter, TerminalStatuses
<1>2. TypeOK /\ TypeOK' /\ EventInv /\ [Next]_vars => EventInv'
  <2> SUFFICES ASSUME TypeOK, TypeOK', EventInv, [Next]_vars PROVE EventInv'
    OBVIOUS
  <2> USE DEF TypeOK, EventInv, Active, ActivePhases, TerminalStatuses
  <2>1. ASSUME NEW c \in Calls, NEW r \in RunIds \cup {NoRunId}, Refuse(c, r)
        PROVE  EventInv'
    BY <2>1, NewEmitterOK DEF Refuse, NewEmitter
  <2>2. ASSUME NEW c \in Calls, NEW r \in RunIds, NEW s \in SignalChoices, StartThrows(c, r, s)
        PROVE  EventInv'
    <3>1. emitter[c] = NewEmitter
      BY <2>2 DEF StartThrows, Capture
    <3>2. PICK f : /\ emitter' = [emitter EXCEPT ![c] = f]
                   /\ EmitterOK(f)
                   /\ TerminalIndices(f) = {} \/ Closed(f, "failed")
                   /\ ~ClockMayFail /\ f.delivered # <<>> => TerminalIndices(f) # {}
      <4>1. CASE emitter' = emitter
        <5>1. NewEmitter.delivered = <<>>
          BY DEF NewEmitter
        <5>2. emitter' = [emitter EXCEPT ![c] = NewEmitter]
          BY <3>1, <4>1
        <5> WITNESS NewEmitter
        <5> QED
          BY <5>1, <5>2, NewEmitterOK
      <4>2. ASSUME NEW startedOk \in Timestamps, NEW failedOk \in Timestamps,
                   emitter' = [emitter EXCEPT ![c] =
                     EmitTerminal(EmitStarted(@, startedOk), "failed", failedOk)]
            PROVE  \E f : /\ emitter' = [emitter EXCEPT ![c] = f]
                          /\ EmitterOK(f)
                          /\ TerminalIndices(f) = {} \/ Closed(f, "failed")
                          /\ ~ClockMayFail /\ f.delivered # <<>> => TerminalIndices(f) # {}
        <5> DEFINE e == EmitStarted(NewEmitter, startedOk)
                   f == EmitTerminal(e, "failed", failedOk)
        <5>1. /\ e \in Emitters /\ EmitterOK(e) /\ e.sequence = 1 /\ TerminalIndices(e) = {}
              /\ Opened(e) \/ e.delivered = <<>>
          <6>1. startedOk \in BOOLEAN
            BY TimestampsType
          <6> HIDE DEF TypeOK, EventInv
          <6> QED
            BY <6>1, StartedEffect
        <5> HIDE DEF e
        <5>2. /\ EmitterOK(f)
              /\ failedOk => Closed(f, "failed")
              /\ ~failedOk => TerminalIndices(f) = {}
          <6>1. failedOk \in BOOLEAN /\ "failed" \in TerminalStatuses /\ e.sequence # 0
            BY <5>1, TimestampsType
          <6> HIDE DEF TypeOK, EventInv, TerminalStatuses
          <6> QED
            BY <5>1, <6>1, TerminalEffect
        <5>3. ~ClockMayFail => failedOk
          BY DEF Timestamps
        <5>4. emitter' = [emitter EXCEPT ![c] = f]
          BY <3>1, <4>2 DEF e
        <5> HIDE DEF f
        <5>5. Closed(f, "failed") => TerminalIndices(f) # {}
          BY DEF Closed
        <5>6. TerminalIndices(f) = {} \/ Closed(f, "failed")
          BY <5>2, TimestampsType
        <5>7. ~ClockMayFail => TerminalIndices(f) # {}
          BY <5>2, <5>3, <5>5
        <5> HIDE DEF TypeOK, EventInv, Active, ActivePhases, TerminalStatuses
        <5> WITNESS f
        <5> QED
          BY <5>2, <5>4, <5>6, <5>7
      <4> QED
        BY <2>2, <4>1, <4>2 DEF StartThrows
    <3>3. c \notin executed
      BY <2>2, <3>1 DEF StartThrows, Capture, Opened, NewEmitter
    <3>4. /\ pc' = [pc EXCEPT ![c] = "settled"] /\ result' = [result EXCEPT ![c] = "rejected"]
          /\ UNCHANGED <<response, executed>>
      BY <2>2 DEF StartThrows
    <3>5. emitter'[c] = f /\ \A d \in Calls \ {c} : emitter'[d] = emitter[d]
      BY <3>2
    <3>6. pc'[c] = "settled" /\ result'[c] = "rejected"
      BY <3>4
    <3>7. \A d \in Calls \ {c} : pc'[d] = pc[d] /\ result'[d] = result[d]
      BY <3>4
    <3> HIDE DEF TypeOK
    <3> QED
      BY <3>2, <3>3, <3>4, <3>5, <3>6, <3>7
  <2>3. ASSUME NEW c \in Calls, NEW r \in RunIds, NEW s \in SignalChoices, StartDenied(c, r, s)
        PROVE  EventInv'
    <3>1. \A d \in Calls \ {c} : response'[d] = response[d]
      BY <2>3 DEF StartDenied
    <3> HIDE DEF TypeOK, EventInv
    <3> QED
      BY <2>3, <3>1, ClaimStep DEF StartDenied, ActivePhases
  <2>4. ASSUME NEW c \in Calls, NEW r \in RunIds, NEW s \in SignalChoices, StartAborted(c, r, s)
        PROVE  EventInv'
    <3>1. \A d \in Calls \ {c} : response'[d] = response[d]
      BY <2>4 DEF StartAborted
    <3> HIDE DEF TypeOK, EventInv
    <3> QED
      BY <2>4, <3>1, ClaimStep DEF StartAborted, ActivePhases
  <2>5. ASSUME NEW c \in Calls, NEW r \in RunIds, NEW s \in SignalChoices, StartProbing(c, r, s)
        PROVE  EventInv'
    <3>1. \A d \in Calls \ {c} : response'[d] = response[d]
      BY <2>5 DEF StartProbing
    <3> HIDE DEF TypeOK, EventInv
    <3> QED
      BY <2>5, <3>1, ClaimStep DEF StartProbing, ActivePhases
  <2>6. ASSUME NEW c \in Calls, TerminalPlanned(c)
        PROVE  EventInv'
    BY <2>6 DEF TerminalPlanned
  <2>7. ASSUME NEW c \in Calls, NEW availability \in {"available", "unavailable"},
              NEW verdict \in {"allowed", "denied"}, ProbeSettles(c, availability, verdict)
        PROVE  EventInv'
    BY <2>7 DEF ProbeSettles
  <2>8. ASSUME NEW c \in Calls, RuntimePlanEnds(c)
        PROVE  EventInv'
    BY <2>8 DEF RuntimePlanEnds
  <2>9. ASSUME NEW c \in Calls, RuntimePlanExecutes(c)
        PROVE  EventInv'
    BY <2>9 DEF RuntimePlanExecutes
  <2>10. ASSUME NEW c \in Calls, NEW outcome \in AdapterOutcomes, ExecuteSettles(c, outcome)
        PROVE  EventInv'
    BY <2>10 DEF ExecuteSettles
  <2>11. ASSUME NEW c \in Calls, CancelAwaited(c)
        PROVE  EventInv'
    BY <2>11 DEF CancelAwaited
  <2>12. ASSUME NEW c \in Calls, NEW status \in TerminalStatuses, FinalizeSettles(c, status)
        PROVE  EventInv'
    <3>1. emitter[c] \in Emitters /\ EmitterOK(emitter[c]) /\ Opened(emitter[c])
          /\ TerminalIndices(emitter[c]) = {} /\ emitter[c].sequence # 0
      BY <2>12, OpenedSpent DEF FinalizeSettles, EmitterOK
    <3> DEFINE f == EmitTerminal(emitter[c], status, TRUE)
    <3>2. EmitterOK(f) /\ Opened(f) /\ Closed(f, status)
      <4>1. TRUE \in BOOLEAN /\ FALSE \in BOOLEAN
        OBVIOUS
      <4> HIDE DEF TypeOK, EventInv, TerminalStatuses
      <4> QED
        BY <3>1, <4>1, TerminalEffect
    <3>3. emitter'[c] = f /\ \A d \in Calls \ {c} : emitter'[d] = emitter[d]
      BY <2>12 DEF FinalizeSettles
    <3>4. /\ pc[c] = "finalizing" /\ pc' = [pc EXCEPT ![c] = "returning"]
          /\ response' = [response EXCEPT ![c] = status] /\ UNCHANGED <<executed, result>>
      BY <2>12 DEF FinalizeSettles
    <3> HIDE DEF f
    <3> QED
      BY <3>2, <3>3, <3>4
  <2>13. ASSUME NEW c \in Calls, NEW status \in TerminalStatuses, TerminalEventThrows(c, status)
        PROVE  EventInv'
    <3>1. emitter[c] \in Emitters /\ EmitterOK(emitter[c]) /\ Opened(emitter[c])
          /\ TerminalIndices(emitter[c]) = {} /\ emitter[c].sequence # 0
      BY <2>13, OpenedSpent DEF TerminalEventThrows, EmitterOK
    <3> DEFINE f == EmitTerminal(emitter[c], status, FALSE)
    <3>2. EmitterOK(f) /\ Opened(f) /\ TerminalIndices(f) = {}
      <4>1. TRUE \in BOOLEAN /\ FALSE \in BOOLEAN
        OBVIOUS
      <4> HIDE DEF TypeOK, EventInv, TerminalStatuses
      <4> QED
        BY <3>1, <4>1, TerminalEffect
    <3>3. emitter'[c] = f /\ \A d \in Calls \ {c} : emitter'[d] = emitter[d]
      BY <2>13 DEF TerminalEventThrows
    <3>4. /\ pc[c] = "finalizing" /\ pc' = [pc EXCEPT ![c] = "throwing"]
          /\ UNCHANGED response /\ UNCHANGED <<executed, result>>
      BY <2>13 DEF TerminalEventThrows
    <3> HIDE DEF f
    <3> QED
      BY <3>2, <3>3, <3>4
  <2>14. ASSUME NEW c \in Calls, Return(c)
        PROVE  EventInv'
    <3>1. TerminalIndices(emitter[c]) # {}
      BY <2>14 DEF Return, Closed
    <3> QED
      BY <2>14, <3>1 DEF Return, Release
  <2>15. ASSUME NEW c \in Calls, Throws(c)
        PROVE  EventInv'
    <3>1. PICK failedOk \in Timestamps :
            emitter' = [emitter EXCEPT ![c] = EmitTerminal(@, "failed", failedOk)]
      BY <2>15 DEF Throws
    <3>2. /\ pc[c] \in ActivePhases \ {"executing", "returning"}
          /\ pc' = [pc EXCEPT ![c] = "settled"] /\ result' = [result EXCEPT ![c] = "rejected"]
          /\ UNCHANGED <<response, executed>>
      BY <2>15 DEF Throws, Release
    <3>3. emitter[c] \in Emitters /\ EmitterOK(emitter[c]) /\ Opened(emitter[c])
          /\ TerminalIndices(emitter[c]) = {} /\ emitter[c].sequence # 0
      BY <3>2, OpenedSpent DEF EmitterOK
    <3> DEFINE f == EmitTerminal(emitter[c], "failed", failedOk)
    <3>4. /\ EmitterOK(f) /\ Opened(f)
          /\ failedOk => Closed(f, "failed")
          /\ ~failedOk => TerminalIndices(f) = {}
      BY <3>3, TimestampsType, TerminalEffect
    <3>5. ~ClockMayFail => failedOk
      BY DEF Timestamps
    <3>6. emitter'[c] = f /\ \A d \in Calls \ {c} : emitter'[d] = emitter[d]
      BY <3>1
    <3> HIDE DEF f
    <3>7. Closed(f, "failed") => TerminalIndices(f) # {}
      BY DEF Closed
    <3> QED
      BY <3>4, <3>5, <3>6, <3>7, <3>2, TimestampsType
  <2>16. ASSUME NEW s \in Signals, Abort(s)
        PROVE  EventInv'
    BY <2>16 DEF Abort
  <2>17. ASSUME NEW c \in Calls, CancelCalled(c)
        PROVE  EventInv'
    BY <2>17 DEF CancelCalled
  <2>18. ASSUME NEW c \in Calls, CancelSettles(c)
        PROVE  EventInv'
    BY <2>18 DEF CancelSettles
  <2>19. ASSUME NEW c \in Calls, AdapterEmits(c)
        PROVE  EventInv'
    <3>1. PICK ok \in Timestamps : emitter' = [emitter EXCEPT ![c] = EmitAdapter(@, ok)]
      BY <2>19 DEF AdapterEmits
    <3>2. emitter[c] \in Emitters /\ EmitterOK(emitter[c]) /\ Opened(emitter[c])
      BY <2>19 DEF AdapterEmits
    <3> DEFINE f == EmitAdapter(emitter[c], ok)
    <3>3. /\ EmitterOK(f) /\ Opened(f) /\ TerminalIndices(f) = TerminalIndices(emitter[c])
          /\ \A status : Closed(emitter[c], status) => Closed(f, status)
      BY <3>2, TimestampsType, AdapterEffect
    <3>4. emitter'[c] = f /\ \A d \in Calls \ {c} : emitter'[d] = emitter[d]
      BY <3>1
    <3>5. pc[c] # "idle" /\ emitter[c].delivered # <<>>
      BY <2>19, <3>2 DEF Opened, NewEmitter
    <3> HIDE DEF f
    <3> QED
      BY <2>19, <3>3, <3>4, <3>5 DEF AdapterEmits
  <2>20. CASE UNCHANGED vars
    BY <2>20 DEF vars
  <2> QED
    BY <2>1, <2>2, <2>3, <2>4, <2>5, <2>6, <2>7, <2>8, <2>9, <2>10, <2>11, <2>12, <2>13, <2>14, <2>15, <2>16, <2>17, <2>18, <2>19, <2>20
    DEF Next, Start, Continue, ProbeAnswers, ExecuteAnswers, Done
<1> QED
  BY <1>1, <1>2, TypeCorrect, PTL DEF Spec

\* Started comes first, and the numbers an observer sees only grow.
THEOREM StreamsOrdered == Spec => []StreamOrdered
<1>1. EventInv => StreamOrdered
  BY DEF EventInv, EmitterOK, Numbered, Opened, StreamOrdered
<1> QED
  BY <1>1, EventInvariant, PTL

\* The terminal event and the settled promise tell the same status.
THEOREM TerminalEventsAgree == Spec => []TerminalEventAgrees
<1>1. EventInv => TerminalEventAgrees
  BY DEF EventInv, Closed, TerminalEventAgrees
<1> QED
  BY <1>1, EventInvariant, PTL

\* With a clock that works, no stream is left open.
THEOREM StreamsClose == Spec => []StartedStreamsClose
<1>1. EventInv => StartedStreamsClose
  BY DEF EventInv, StartedStreamsClose
<1> QED
  BY <1>1, EventInvariant, PTL
=============================================================================
