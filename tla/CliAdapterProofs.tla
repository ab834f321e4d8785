-------------------------- MODULE CliAdapterProofs --------------------------
(***************************************************************************)
(* Proofs about the CLI adapters for any number of uses and run ids.       *)
(***************************************************************************)
EXTENDS CliAdapter, TLAPS

Phases == {"idle", "answered"} \cup Inflight \cup Probing
Failures == {"cancelled", "failed"}
Answers == Failures \cup {"response", "threw", "available", "unavailable"}

TypeInv ==
  /\ kind \in {"codex", "plain"}
  /\ phase \in [Uses -> Phases]
  /\ runId \in [Uses -> RunIds]
  /\ inflight \in [RunIds -> Uses \cup {Nobody}]
  /\ stopped \subseteq Uses
  /\ aborted \subseteq Uses
  /\ directories \in [Uses -> Nat]
  /\ removalFailed \subseteq Uses
  /\ checks \in [Uses -> Nat]
  /\ healthy \subseteq Uses
  /\ failure \in [Uses -> Failures \cup {"none"}]
  /\ answer \in [Uses -> Answers \cup {"none"}]

\* An entry names an execution of its run id that has not answered.
EntryInv ==
  \A r \in RunIds : inflight[r] # Nobody =>
    phase[inflight[r]] \in Inflight /\ runId[inflight[r]] = r

\* Nothing is made before the first file operation and nothing fails before
\* the first process; what is left in the end is what could not be removed.
CleanupInv ==
  \A u \in Uses :
    /\ phase[u] \in {"idle", "making", "probeMaking"} => directories[u] = 0
    /\ failure[u] # "none" => phase[u] \in {"removing", "answered"}
    /\ answer[u] # "none" => phase[u] = "answered"
    /\ phase[u] = "answered" =>
         /\ directories[u] > 0 =>
              u \in removalFailed /\ answer[u] \notin {"response", "available"}
         /\ kind = "codex" /\ failure[u] # "none" => answer[u] = failure[u]

AdapterInv == TypeInv /\ EntryInv /\ CleanupInv

\* A cancelled execution, wherever it has come to, is on its way to fail.
Cancelling(u) ==
  /\ u \in stopped \cup aborted
  /\ \/ phase[u] \in {"making", "writing", "running"}
     \/ phase[u] = "removing" /\ failure[u] # "none"
     \/ phase[u] = "answered" /\ answer[u] # "response"

\* A probe that was aborted with processes to run is on its way to be unavailable.
Unproven(u) ==
  /\ u \in aborted
  /\ \/ phase[u] = "checking"
     \/ phase[u] = "probeRemoving" /\ u \notin healthy
     \/ phase[u] = "probeThrowing"
     \/ phase[u] = "answered" /\ answer[u] # "available"

(***************************************************************************)
(* Every step of an adapter keeps AdapterInv.                              *)
(***************************************************************************)
LEMMA AdapterStep ==
  ASSUME AdapterInv, [Next]_vars
  PROVE  AdapterInv'
<1> USE NobodyAssumption, KindsAssumption
        DEF AdapterInv, TypeInv, EntryInv, CleanupInv, Phases, Failures, Answers, Inflight,
            Probing, useVars, Move, Answer
<1>1. ASSUME NEW u \in Uses, Execute(u) PROVE AdapterInv'
  BY <1>1 DEF Execute
<1>2. ASSUME NEW u \in Uses, ExecuteThrows(u) PROVE AdapterInv'
  BY <1>2 DEF ExecuteThrows
<1>3. ASSUME NEW u \in Uses, Probe(u) PROVE AdapterInv'
  BY <1>3 DEF Probe
<1>4. ASSUME NEW u \in Uses, Abort(u) PROVE AdapterInv'
  BY <1>4 DEF Abort
<1>5. ASSUME NEW u \in Uses, Make(u) PROVE AdapterInv'
  BY <1>5 DEF Make
<1>6. ASSUME NEW u \in Uses, MakeFails(u) PROVE AdapterInv'
  BY <1>6 DEF MakeFails, ReleaseEntry
<1>7. ASSUME NEW u \in Uses, Write(u) PROVE AdapterInv'
  BY <1>7 DEF Write
<1>8. ASSUME NEW u \in Uses, RunSucceeds(u) PROVE AdapterInv'
  BY <1>8 DEF RunSucceeds, IsAborted
<1>9. ASSUME NEW u \in Uses, ReadSucceeds(u) PROVE AdapterInv'
  BY <1>9 DEF ReadSucceeds
<1>10. ASSUME NEW u \in Uses, NEW error \in {"cancelled", "failed"}, StepFails(u, error) PROVE AdapterInv'
  BY <1>10 DEF StepFails, IsAborted
<1>11. ASSUME NEW u \in Uses, Remove(u) PROVE AdapterInv'
  BY <1>11 DEF Remove, ReleaseEntry, Outcome
<1>12. ASSUME NEW u \in Uses, RemovalFails(u) PROVE AdapterInv'
  BY <1>12 DEF RemovalFails, ReleaseEntry
<1>13. ASSUME NEW u \in Uses, ProbeMake(u) PROVE AdapterInv'
  BY <1>13 DEF ProbeMake, Prepared
<1>14. ASSUME NEW u \in Uses, ProbeMake2(u) PROVE AdapterInv'
  BY <1>14 DEF ProbeMake2, Prepared
<1>15. ASSUME NEW u \in Uses, ProbeMakeFails(u) PROVE AdapterInv'
  BY <1>15 DEF ProbeMakeFails
<1>16. ASSUME NEW u \in Uses, ProbeUnmade(u) PROVE AdapterInv'
  BY <1>16 DEF ProbeUnmade
<1>17. ASSUME NEW u \in Uses, NEW ok \in BOOLEAN, Check(u, ok) PROVE AdapterInv'
  BY <1>17 DEF Check, Expected
<1>18. ASSUME NEW u \in Uses, NEW verdict \in {"available", "unavailable"}, ProbeRemoved(u, verdict) PROVE AdapterInv'
  BY <1>18 DEF ProbeRemoved
<1>19. ASSUME NEW u \in Uses, ProbeRemovalFails(u) PROVE AdapterInv'
  BY <1>19 DEF ProbeRemovalFails
<1>20. ASSUME NEW r \in RunIds, Cancel(r) PROVE AdapterInv'
  BY <1>20 DEF Cancel
<1>21. ASSUME NEW u \in Uses, ProbeThrows(u) PROVE AdapterInv'
  BY <1>21 DEF ProbeThrows
<1>22. CASE UNCHANGED vars
  BY <1>22 DEF vars
<1> QED
  BY <1>1, <1>2, <1>3, <1>4, <1>5, <1>6, <1>7, <1>8, <1>9, <1>10, <1>11, <1>12,
     <1>13, <1>14, <1>15, <1>16, <1>17, <1>18, <1>19, <1>20, <1>21, <1>22
  DEF Next, Continue, Done

(***************************************************************************)
(* The invariant of an adapter's uses.                                     *)
(***************************************************************************)
THEOREM AdapterInvariant == Spec => []AdapterInv
<1>1. Init => AdapterInv
  BY KindsAssumption
  DEF Init, AdapterInv, TypeInv, EntryInv, CleanupInv, Phases
<1>2. AdapterInv /\ [Next]_vars => AdapterInv'
  BY AdapterStep
<1> QED
  BY <1>1, <1>2, PTL DEF Spec

\* Only a removal that failed leaves a directory, and it is not kept quiet.
THEOREM CleanupIsHonest == Spec => []CleanupHonest
<1>1. AdapterInv => CleanupHonest
  BY DEF AdapterInv, CleanupInv, CleanupHonest
<1> QED
  BY <1>1, AdapterInvariant, PTL

\* What a step leaves of the entry of an execution that goes on.
HeirStep ==
  \A u \in Uses :
    phase[u] \in Inflight /\ inflight[runId[u]] = u /\ phase'[u] \in Inflight =>
      LET heir == inflight'[runId[u]]
      IN  heir = u \/ (heir # Nobody /\ phase[heir] = "idle")

(***************************************************************************)
(* EntryKept: cancel(runId) finds the execution as long as it can be       *)
(* cancelled, and nothing else (#inflight of adapters/cli/base.ts).        *)
(***************************************************************************)
THEOREM EntryIsKept == Spec => EntryKept
<1>1. AdapterInv /\ [Next]_vars => [HeirStep]_vars
  <2> SUFFICES ASSUME AdapterInv, Next PROVE HeirStep
    BY DEF HeirStep
  <2> USE NobodyAssumption
          DEF AdapterInv, TypeInv, EntryInv, Inflight, HeirStep, useVars, Move, ReleaseEntry
  <2>1. ASSUME NEW v \in Uses, Execute(v) PROVE HeirStep
    BY <2>1 DEF Execute
  <2>2. ASSUME NEW v \in Uses, MakeFails(v) \/ Remove(v) \/ RemovalFails(v) PROVE HeirStep
    BY <2>2 DEF MakeFails, Remove, RemovalFails
  <2>3. CASE UNCHANGED <<inflight, runId>>
    BY <2>3
  <2>4. \/ \E v \in Uses : Execute(v) \/ MakeFails(v) \/ Remove(v) \/ RemovalFails(v)
        \/ UNCHANGED <<inflight, runId>>
    BY DEF Next, ExecuteThrows, Probe, Abort, Continue, Make, Write, RunSucceeds, ReadSucceeds,
           StepFails, ProbeMake, ProbeMake2, ProbeMakeFails, ProbeUnmade, Check, ProbeRemoved,
           ProbeThrows, ProbeRemovalFails, Cancel, Done, vars
  <2> QED
    BY <2>1, <2>2, <2>3, <2>4
<1>2. AdapterInv => \A r \in RunIds : inflight[r] # Nobody =>
                      phase[inflight[r]] \in Inflight /\ runId[inflight[r]] = r
  BY DEF AdapterInv, EntryInv
<1>3. Spec => [][HeirStep]_vars
  BY <1>1, AdapterInvariant, PTL DEF Spec
<1>4. Spec => [](\A r \in RunIds : inflight[r] # Nobody =>
                   phase[inflight[r]] \in Inflight /\ runId[inflight[r]] = r)
  BY <1>2, AdapterInvariant, PTL
<1> QED
  BY <1>3, <1>4 DEF EntryKept, HeirStep

\* Nothing leads a cancelled execution back to a response.
LEMMA CancellingStays ==
  ASSUME AdapterInv, [Next]_vars, NEW w \in Uses, Cancelling(w)
  PROVE  Cancelling(w)'
<1> USE DEF AdapterInv, TypeInv, CleanupInv, Phases, Failures, Answers, Inflight, Probing, useVars,
            Move, Answer, Cancelling
<1>1. ASSUME NEW u \in Uses, Execute(u) PROVE Cancelling(w)'
  BY <1>1 DEF Execute
<1>2. ASSUME NEW u \in Uses, ExecuteThrows(u) PROVE Cancelling(w)'
  BY <1>2 DEF ExecuteThrows
<1>3. ASSUME NEW u \in Uses, Probe(u) PROVE Cancelling(w)'
  BY <1>3 DEF Probe
<1>4. ASSUME NEW u \in Uses, Abort(u) PROVE Cancelling(w)'
  BY <1>4 DEF Abort
<1>5. ASSUME NEW u \in Uses, Make(u) PROVE Cancelling(w)'
  BY <1>5 DEF Make
<1>6. ASSUME NEW u \in Uses, MakeFails(u) PROVE Cancelling(w)'
  BY <1>6 DEF MakeFails, ReleaseEntry
<1>7. ASSUME NEW u \in Uses, Write(u) PROVE Cancelling(w)'
  BY <1>7 DEF Write
<1>8. ASSUME NEW u \in Uses, RunSucceeds(u) PROVE Cancelling(w)'
  BY <1>8 DEF RunSucceeds, IsAborted
<1>9. ASSUME NEW u \in Uses, ReadSucceeds(u) PROVE Cancelling(w)'
  BY <1>9 DEF ReadSucceeds
<1>10. ASSUME NEW u \in Uses, NEW error \in {"cancelled", "failed"}, StepFails(u, error) PROVE Cancelling(w)'
  BY <1>10 DEF StepFails, IsAborted
<1>11. ASSUME NEW u \in Uses, Remove(u) PROVE Cancelling(w)'
  BY <1>11 DEF Remove, ReleaseEntry, Outcome
<1>12. ASSUME NEW u \in Uses, RemovalFails(u) PROVE Cancelling(w)'
  BY <1>12 DEF RemovalFails, ReleaseEntry
<1>13. ASSUME NEW u \in Uses, ProbeMake(u) PROVE Cancelling(w)'
  BY <1>13 DEF ProbeMake, Prepared
<1>14. ASSUME NEW u \in Uses, ProbeMake2(u) PROVE Cancelling(w)'
  BY <1>14 DEF ProbeMake2, Prepared
<1>15. ASSUME NEW u \in Uses, ProbeMakeFails(u) PROVE Cancelling(w)'
  BY <1>15 DEF ProbeMakeFails
<1>16. ASSUME NEW u \in Uses, ProbeUnmade(u) PROVE Cancelling(w)'
  BY <1>16 DEF ProbeUnmade
<1>17. ASSUME NEW u \in Uses, NEW ok \in BOOLEAN, Check(u, ok) PROVE Cancelling(w)'
  BY <1>17 DEF Check, Expected
<1>18. ASSUME NEW u \in Uses, NEW verdict \in {"available", "unavailable"}, ProbeRemoved(u, verdict) PROVE Cancelling(w)'
  BY <1>18 DEF ProbeRemoved
<1>19. ASSUME NEW u \in Uses, ProbeRemovalFails(u) PROVE Cancelling(w)'
  BY <1>19 DEF ProbeRemovalFails
<1>20. ASSUME NEW r \in RunIds, Cancel(r) PROVE Cancelling(w)'
  BY <1>20 DEF Cancel
<1>21. ASSUME NEW u \in Uses, ProbeThrows(u) PROVE Cancelling(w)'
  BY <1>21 DEF ProbeThrows
<1>22. CASE UNCHANGED vars
  BY <1>22 DEF vars
<1> QED
  BY <1>1, <1>2, <1>3, <1>4, <1>5, <1>6, <1>7, <1>8, <1>9, <1>10, <1>11, <1>12,
     <1>13, <1>14, <1>15, <1>16, <1>17, <1>18, <1>19, <1>20, <1>21, <1>22
  DEF Next, Continue, Done

\* Nothing proves an aborted probe's features after all.
LEMMA UnprovenStays ==
  ASSUME AdapterInv, [Next]_vars, NEW w \in Uses, Unproven(w)
  PROVE  Unproven(w)'
<1> USE DEF AdapterInv, TypeInv, CleanupInv, Phases, Failures, Answers, Inflight, Probing, useVars,
            Move, Answer, Unproven
<1>1. ASSUME NEW u \in Uses, Execute(u) PROVE Unproven(w)'
  BY <1>1 DEF Execute
<1>2. ASSUME NEW u \in Uses, ExecuteThrows(u) PROVE Unproven(w)'
  BY <1>2 DEF ExecuteThrows
<1>3. ASSUME NEW u \in Uses, Probe(u) PROVE Unproven(w)'
  BY <1>3 DEF Probe
<1>4. ASSUME NEW u \in Uses, Abort(u) PROVE Unproven(w)'
  BY <1>4 DEF Abort
<1>5. ASSUME NEW u \in Uses, Make(u) PROVE Unproven(w)'
  BY <1>5 DEF Make
<1>6. ASSUME NEW u \in Uses, MakeFails(u) PROVE Unproven(w)'
  BY <1>6 DEF MakeFails, ReleaseEntry
<1>7. ASSUME NEW u \in Uses, Write(u) PROVE Unproven(w)'
  BY <1>7 DEF Write
<1>8. ASSUME NEW u \in Uses, RunSucceeds(u) PROVE Unproven(w)'
  BY <1>8 DEF RunSucceeds, IsAborted
<1>9. ASSUME NEW u \in Uses, ReadSucceeds(u) PROVE Unproven(w)'
  BY <1>9 DEF ReadSucceeds
<1>10. ASSUME NEW u \in Uses, NEW error \in {"cancelled", "failed"}, StepFails(u, error) PROVE Unproven(w)'
  BY <1>10 DEF StepFails, IsAborted
<1>11. ASSUME NEW u \in Uses, Remove(u) PROVE Unproven(w)'
  BY <1>11 DEF Remove, ReleaseEntry, Outcome
<1>12. ASSUME NEW u \in Uses, RemovalFails(u) PROVE Unproven(w)'
  BY <1>12 DEF RemovalFails, ReleaseEntry
<1>13. ASSUME NEW u \in Uses, ProbeMake(u) PROVE Unproven(w)'
  BY <1>13 DEF ProbeMake, Prepared
<1>14. ASSUME NEW u \in Uses, ProbeMake2(u) PROVE Unproven(w)'
  BY <1>14 DEF ProbeMake2, Prepared
<1>15. ASSUME NEW u \in Uses, ProbeMakeFails(u) PROVE Unproven(w)'
  BY <1>15 DEF ProbeMakeFails
<1>16. ASSUME NEW u \in Uses, ProbeUnmade(u) PROVE Unproven(w)'
  BY <1>16 DEF ProbeUnmade
<1>17. ASSUME NEW u \in Uses, NEW ok \in BOOLEAN, Check(u, ok) PROVE Unproven(w)'
  BY <1>17 DEF Check, Expected
<1>18. ASSUME NEW u \in Uses, NEW verdict \in {"available", "unavailable"}, ProbeRemoved(u, verdict) PROVE Unproven(w)'
  BY <1>18 DEF ProbeRemoved
<1>19. ASSUME NEW u \in Uses, ProbeRemovalFails(u) PROVE Unproven(w)'
  BY <1>19 DEF ProbeRemovalFails
<1>20. ASSUME NEW r \in RunIds, Cancel(r) PROVE Unproven(w)'
  BY <1>20 DEF Cancel
<1>21. ASSUME NEW u \in Uses, ProbeThrows(u) PROVE Unproven(w)'
  BY <1>21 DEF ProbeThrows
<1>22. CASE UNCHANGED vars
  BY <1>22 DEF vars
<1> QED
  BY <1>1, <1>2, <1>3, <1>4, <1>5, <1>6, <1>7, <1>8, <1>9, <1>10, <1>11, <1>12,
     <1>13, <1>14, <1>15, <1>16, <1>17, <1>18, <1>19, <1>20, <1>21, <1>22
  DEF Next, Continue, Done

(***************************************************************************)
(* AbortIsHonoured: no cancelled execution answers with the response, and  *)
(* no aborted probe is available.                                          *)
(***************************************************************************)
THEOREM AbortsAreHonoured == Spec => AbortIsHonoured
<1>1. ASSUME NEW u \in Uses
      PROVE  Spec => [](phase[u] \in {"making", "writing", "running"} /\ u \in stopped \cup aborted
                          => [](answer[u] # "response"))
  <2>1. phase[u] \in {"making", "writing", "running"} /\ u \in stopped \cup aborted => Cancelling(u)
    BY DEF Cancelling
  <2>2. AdapterInv /\ Cancelling(u) /\ [Next]_vars => Cancelling(u)'
    BY CancellingStays
  <2>3. AdapterInv /\ Cancelling(u) => answer[u] # "response"
    BY DEF AdapterInv, CleanupInv, Cancelling
  <2> QED
    BY <2>1, <2>2, <2>3, AdapterInvariant, PTL DEF Spec
<1>2. ASSUME NEW u \in Uses
      PROVE  Spec => [](phase[u] = "checking" /\ u \in aborted => [](answer[u] # "available"))
  <2>1. phase[u] = "checking" /\ u \in aborted => Unproven(u)
    BY DEF Unproven
  <2>2. AdapterInv /\ Unproven(u) /\ [Next]_vars => Unproven(u)'
    BY UnprovenStays
  <2>3. AdapterInv /\ Unproven(u) => answer[u] # "available"
    BY DEF AdapterInv, CleanupInv, Unproven
  <2> QED
    BY <2>1, <2>2, <2>3, AdapterInvariant, PTL DEF Spec
<1> QED
  BY <1>1, <1>2 DEF AbortIsHonoured
=============================================================================
