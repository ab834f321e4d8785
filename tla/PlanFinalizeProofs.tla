-------------------------- MODULE PlanFinalizeProofs --------------------------
(***************************************************************************)
(* A plan that finalizeExecution accepts is one that createExecutionPlan   *)
(* makes: for every role, task and policy and any number of edits.  The    *)
(* argument: nothing but the frozen planSnapshot is checked, each digest   *)
(* that arrives adds one equation about it, and together the equations     *)
(* leave no field of the plan free.                                        *)
(***************************************************************************)
EXTENDS PlanFinalize, TLAPS

PlanFields == {"content", "runId", "createdAt", "contentDigest"}

\* What the schema of plans guarantees, as far as it matters.
WellFormedContent(c) ==
  /\ c = [f \in ContentFields |-> c[f]]
  /\ c.role \in Roles
  /\ c.task \in Tasks
  /\ c.admission \in Admissions
WellFormed(p) ==
  /\ p = [f \in PlanFields |-> p[f]]
  /\ WellFormedContent(p.content)

\* The equations that the checks establish, in their order.
RoleSealed(c) == Canonical(c) /\ Digest(c.role) = c.roleDigest
TaskSealed(c) == RoleSealed(c) /\ Digest(c.task) = c.taskDigest /\ Semantic(c)
ContractSealed(c) == TaskSealed(c) /\ Digest(c.contract) = c.contractDigest
OptionsSealed(c) == ContractSealed(c) /\ Digest(c.options) = c.optionsDigest
PlanSealed(p) == OptionsSealed(p.content) /\ Digest(p.content) = p.contentDigest

\* Every field of a sealed plan follows from the ones it was created with.
LEMMA SealedPlansAreCreated ==
  ASSUME NEW p, WellFormed(p), PlanSealed(p)
  PROVE  IsCreated(p)
<1> DEFINE c == p.content
<1>1. c.role \in Roles /\ c.task \in Tasks /\ c.task.roleId = c.role.id
  BY DEF WellFormed, WellFormedContent, PlanSealed, OptionsSealed, ContractSealed,
     TaskSealed, RoleSealed, Canonical
<1>2. Normalized(c.role) = c.role /\ Normalized(c.task) = c.task
  <2>1. c.role.normal = TRUE /\ c.task.normal = TRUE
    BY <1>1 DEF PlanSealed, OptionsSealed, ContractSealed, TaskSealed, RoleSealed, Canonical,
       Roles, Tasks
  <2> QED BY <1>1, <2>1 DEF Normalized, Roles, Tasks
<1> DEFINE created == CreatedPlan(c.role, c.task, c.executor, c.options, c.admission,
                                  p.runId, p.createdAt)
<1>3. c = created.content
  <2>1. c = [f \in ContentFields |-> c[f]]
    BY DEF WellFormed, WellFormedContent
  <2>2. \A f \in ContentFields : c[f] = created.content[f]
    BY <1>2 DEF CreatedPlan, ContentFields, PlanSealed, OptionsSealed, ContractSealed,
       TaskSealed, RoleSealed, Semantic
  <2>3. created.content = [f \in ContentFields |-> created.content[f]]
    BY DEF CreatedPlan, ContentFields
  <2> QED BY <2>1, <2>2, <2>3
<1>4. p = created
  <2>1. p = [f \in PlanFields |-> p[f]]
    BY DEF WellFormed
  <2>2. p.content = created.content
    BY <1>3
  <2>3. p.contentDigest = Digest(created.content)
    BY <1>3 DEF PlanSealed
  <2>4. created = [content |-> created.content, runId |-> p.runId,
                   createdAt |-> p.createdAt, contentDigest |-> Digest(created.content)]
    BY DEF CreatedPlan
  <2> HIDE DEF created
  <2> QED BY <2>1, <2>2, <2>3, <2>4 DEF PlanFields
<1> QED BY <1>1, <1>4 DEF IsCreated

-----------------------------------------------------------------------------
(* The invariant. *)

\* Every document that can be edited together is well formed.
DocumentOK ==
  /\ document = [plan |-> document.plan, planDigest |-> document.planDigest]
  /\ WellFormed(document.plan)

\* What has been checked of the snapshot when each digest is awaited.
StageOK ==
  /\ pc \in Finalizing => WellFormed(plan) /\ Canonical(plan.content)
  /\ pc \in Finalizing \ {"role"} => RoleSealed(plan.content)
  /\ pc \in Finalizing \ {"role", "task"} => TaskSealed(plan.content)
  /\ pc \in {"options", "content", "plan"} => ContractSealed(plan.content)
  /\ pc \in {"content", "plan"} => OptionsSealed(plan.content)
  /\ pc = "plan" => PlanSealed(plan)
  /\ Accepted => WellFormed(plan) /\ PlanSealed(plan)

\* The snapshots are those of the call.
CalledOK == pc # "created" => plan = called.document.plan /\ envelope = called.receipt

\* What an accepted result rests on.
JudgedOK ==
  Accepted =>
    /\ planDigest = Digest(plan)
    /\ Agrees(envelope) /\ Admissible(response) /\ response \in Responses
    /\ result.status = Outcome(response).status
    /\ result.receipt = envelope
    /\ result.policy = plan.content.paths

IInv == DocumentOK /\ StageOK
JInv == CalledOK /\ JudgedOK

LEMMA Stages == Finalizing = {"role", "task", "contract", "options", "content", "plan"}
BY DEF Finalizing, Awaits

LEMMA CreatedPlansAreWellFormed ==
  ASSUME NEW role \in Roles, NEW task \in Tasks, NEW executor, NEW options,
         NEW admission \in Admissions, NEW runId, NEW createdAt
  PROVE  WellFormed(CreatedPlan(role, task, executor, options, admission, runId, createdAt))
<1>1. Normalized(role) \in Roles /\ Normalized(task) \in Tasks
  BY DEF Normalized, Roles, Tasks
<1> DEFINE p == CreatedPlan(role, task, executor, options, admission, runId, createdAt)
<1>2. p.content = [f \in ContentFields |-> p.content[f]]
  BY DEF CreatedPlan, ContentFields
<1>3. /\ p.content.role = Normalized(role) /\ p.content.task = Normalized(task)
      /\ p.content.admission = admission
  BY DEF CreatedPlan
<1>4. p = [f \in PlanFields |-> p[f]]
  BY DEF CreatedPlan, PlanFields
<1> HIDE DEF p
<1>5. WellFormed(p)
  BY <1>1, <1>2, <1>3, <1>4 DEF WellFormed, WellFormedContent
<1> QED BY <1>5 DEF p

LEMMA InitIInv == Init => IInv
<1> SUFFICES ASSUME Init PROVE IInv
  OBVIOUS
<1>1. DocumentOK
  <2>1. PICK role \in Roles, task \in Tasks, executor \in Executors, options \in Options,
             admission \in Admissions, runId \in RunIds, createdAt \in Times :
          LET p == CreatedPlan(role, task, executor, options, admission, runId, createdAt)
          IN  document = [plan |-> p, planDigest |-> Digest(p)]
    BY DEF Init
  <2> DEFINE p == CreatedPlan(role, task, executor, options, admission, runId, createdAt)
  <2>2. WellFormed(p)
    BY CreatedPlansAreWellFormed
  <2>3. document = [plan |-> p, planDigest |-> Digest(p)]
    BY <2>1
  <2> HIDE DEF p
  <2> QED BY <2>2, <2>3 DEF DocumentOK
<1>2. StageOK
  BY Stages DEF Init, StageOK, Accepted
<1> QED BY <1>1, <1>2 DEF IInv

\* An edit of one field leaves a document well formed.
LEMMA EditContentKeeps ==
  ASSUME DocumentOK, NEW field \in ContentFields,
         NEW value \in EditsOf(document.plan.content)[field],
         document' = [document EXCEPT !.plan.content[field] = value]
  PROVE  DocumentOK'
<1> DEFINE c == document.plan.content
           d == [c EXCEPT ![field] = value]
           q == [document.plan EXCEPT !.content = d]
<1>1. WellFormedContent(d)
  <2>1. /\ c = [f \in ContentFields |-> c[f]]
        /\ c.role \in Roles /\ c.task \in Tasks /\ c.admission \in Admissions
    BY DEF DocumentOK, WellFormed, WellFormedContent
  <2>2. field = "role" => value \in Roles
    BY DEF EditsOf
  <2>3. /\ field = "task" => value \in Tasks
        /\ field = "admission" => value \in Admissions
    BY DEF EditsOf
  <2> HIDE DEF c
  <2>4. d = [f \in ContentFields |-> d[f]]
    BY <2>1
  <2>5. d.role \in Roles /\ d.task \in Tasks /\ d.admission \in Admissions
    BY <2>1, <2>2, <2>3 DEF ContentFields
  <2> QED BY <2>4, <2>5 DEF WellFormedContent
<1>2. WellFormed(q)
  <2>1. document.plan = [f \in PlanFields |-> document.plan[f]]
    BY DEF DocumentOK, WellFormed
  <2> HIDE DEF d
  <2>2. q.content = d
    BY <2>1 DEF PlanFields
  <2>3. q = [f \in PlanFields |-> q[f]]
    BY <2>1 DEF PlanFields
  <2> QED BY <1>1, <2>2, <2>3 DEF WellFormed
<1>3. document' = [plan |-> q, planDigest |-> document.planDigest]
  <2>1. document = [plan |-> document.plan, planDigest |-> document.planDigest]
    BY DEF DocumentOK
  <2>2. document' = [document EXCEPT !.plan = q]
    PROOF OBVIOUS
  <2> HIDE DEF q
  <2> QED BY <2>1, <2>2
<1> HIDE DEF q
<1> QED BY <1>2, <1>3 DEF DocumentOK

LEMMA EditRunKeeps ==
  ASSUME DocumentOK, NEW r, NEW t,
         document' = [document EXCEPT !.plan = [@ EXCEPT !.runId = r, !.createdAt = t]]
  PROVE  DocumentOK'
<1> DEFINE q == [document.plan EXCEPT !.runId = r, !.createdAt = t]
<1>1. WellFormed(q)
  BY DEF DocumentOK, WellFormed, PlanFields
<1>2. document' = [plan |-> q, planDigest |-> document.planDigest]
  BY DEF DocumentOK
<1> HIDE DEF q
<1> QED BY <1>1, <1>2 DEF DocumentOK

LEMMA ResealKeeps ==
  ASSUME DocumentOK, Reseal
  PROVE  DocumentOK'
<1> DEFINE c == document.plan.content
           d == Sealed(c)
           q == [document.plan EXCEPT !.content = d, !.contentDigest = Digest(d)]
<1>1. WellFormedContent(d)
  <2>1. /\ c = [f \in ContentFields |-> c[f]]
        /\ c.role \in Roles /\ c.task \in Tasks /\ c.admission \in Admissions
    BY DEF DocumentOK, WellFormed, WellFormedContent
  <2> HIDE DEF c
  <2>2. d = [f \in ContentFields |-> d[f]]
    BY <2>1 DEF Sealed
  <2>3. d.role = c.role /\ d.task = c.task /\ d.admission = c.admission
    BY <2>1 DEF Sealed, ContentFields
  <2> QED BY <2>1, <2>2, <2>3 DEF WellFormedContent
<1>2. WellFormed(q)
  <2>1. document.plan = [f \in PlanFields |-> document.plan[f]]
    BY DEF DocumentOK, WellFormed
  <2> HIDE DEF d
  <2>2. q.content = d
    BY <2>1 DEF PlanFields
  <2>3. q = [f \in PlanFields |-> q[f]]
    BY <2>1 DEF PlanFields
  <2> QED BY <1>1, <2>2, <2>3 DEF WellFormed
<1>3. document' = [plan |-> q, planDigest |-> Digest(q)]
  BY DEF Reseal
<1> HIDE DEF q
<1> QED BY <1>2, <1>3 DEF DocumentOK

\* A step that leaves the snapshot and the stage alone keeps StageOK.
LEMMA StageKept ==
  ASSUME StageOK, UNCHANGED <<pc, plan, result>>
  PROVE  StageOK'
BY DEF StageOK, Accepted

LEMMA NextIInv == IInv /\ [Next]_vars => IInv'
<1> SUFFICES ASSUME IInv, [Next]_vars PROVE IInv'
  OBVIOUS
<1>a. DocumentOK /\ StageOK
  BY DEF IInv
<1>1. ASSUME NEW field \in ContentFields,
             NEW value \in EditsOf(document.plan.content)[field], EditContent(field, value)
      PROVE IInv'
  <2>1. DocumentOK'
    BY <1>a, <1>1, EditContentKeeps DEF EditContent, Edited
  <2>2. StageOK'
    BY <1>a, <1>1, StageKept DEF EditContent, Edited, snapshots
  <2> QED BY <2>1, <2>2 DEF IInv
<1>2. ASSUME NEW r \in RunIds \cup {Forged}, NEW t \in Times, EditRun(r, t) PROVE IInv'
  <2>1. DocumentOK'
    BY <1>a, <1>2, EditRunKeeps DEF EditRun, Edited
  <2>2. StageOK'
    BY <1>a, <1>2, StageKept DEF EditRun, Edited, snapshots
  <2> QED BY <2>1, <2>2 DEF IInv
<1>3. CASE Reseal
  <2>1. DocumentOK'
    BY <1>a, <1>3, ResealKeeps
  <2>2. StageOK'
    BY <1>a, <1>3, StageKept DEF Reseal, snapshots
  <2> QED BY <2>1, <2>2 DEF IInv
<1>4. CASE EditReceipt
  <2>1. document' = document /\ UNCHANGED <<pc, plan, result>>
    BY <1>4 DEF EditReceipt, Edited, snapshots
  <2> QED BY <1>a, <2>1, StageKept DEF IInv, DocumentOK
<1>5. CASE Call
  <2>1. document' = document /\ plan' = document.plan
    BY <1>5 DEF Call, Reject
  <2>2. CASE Canonical(document.plan.content)
    <3>1. pc' = "role"
      BY <1>5, <2>2 DEF Call
    <3> QED BY <1>a, <2>1, <2>2, <3>1, Stages DEF IInv, DocumentOK, StageOK, Accepted
  <2>3. CASE ~Canonical(document.plan.content)
    <3>1. pc' = "settled" /\ result'.status = "rejected"
      BY <1>5, <2>3 DEF Call, Reject
    <3> QED BY <1>a, <2>1, <3>1, Stages DEF IInv, DocumentOK, StageOK, Accepted
  <2> QED BY <2>2, <2>3
<1>6. ASSUME NEW i \in 1 .. Len(Awaits) - 1, DigestArrives(i) PROVE IInv'
  <2>1. /\ \/ pc = "role" /\ pc' = "task"
           \/ pc = "task" /\ pc' = "contract"
           \/ pc = "contract" /\ pc' = "options"
           \/ pc = "options" /\ pc' = "content"
           \/ pc = "content" /\ pc' = "plan"
        /\ Holds(pc) /\ plan' = plan /\ document' = document
    <3>1. i \in {1, 2, 3, 4, 5}
      BY DEF Awaits
    <3> QED BY <1>6, <3>1 DEF DigestArrives, Awaits, snapshots
  <2>2. StageOK'
    BY <1>a, <2>1, Stages DEF StageOK, Accepted, Holds, RoleSealed, TaskSealed, ContractSealed,
       OptionsSealed, PlanSealed
  <2> QED BY <1>a, <2>1, <2>2 DEF IInv, DocumentOK
<1>7. CASE IntegrityFails \/ JudgementFails
  <2>1. pc' = "settled" /\ result'.status = "rejected" /\ document' = document
    BY <1>7 DEF IntegrityFails, JudgementFails, Reject
  <2> QED BY <1>a, <2>1, Stages DEF IInv, DocumentOK, StageOK, Accepted
<1>8. CASE Judge
  <2>1. pc = "plan" /\ pc' = "settled" /\ plan' = plan /\ document' = document
    BY <1>8 DEF Judge, snapshots
  <2>2. StageOK'
    BY <1>a, <2>1, Stages DEF StageOK, Accepted
  <2> QED BY <1>a, <2>1, <2>2 DEF IInv, DocumentOK
<1>9. CASE UNCHANGED vars
  <2>1. document' = document /\ UNCHANGED <<pc, plan, result>>
    BY <1>9 DEF vars, snapshots
  <2> QED BY <1>a, <2>1, StageKept DEF IInv, DocumentOK
<1> QED
  BY <1>1, <1>2, <1>3, <1>4, <1>5, <1>6, <1>7, <1>8, <1>9 DEF Next, Done

-----------------------------------------------------------------------------
LEMMA InitJInv == Init => JInv
BY DEF Init, JInv, CalledOK, JudgedOK, Accepted

LEMMA NextJInv == JInv /\ [Next]_vars => JInv'
<1> SUFFICES ASSUME JInv, [Next]_vars PROVE JInv'
  OBVIOUS
<1> USE DEF JInv, snapshots
<1>1. ASSUME UNCHANGED <<pc, snapshots, response, result>> PROVE JInv'
  BY <1>1 DEF CalledOK, JudgedOK, Accepted, Agrees, Admissible
<1>2. CASE Call
  <2>1. pc' # "created" /\ plan' = document.plan /\ envelope' = receipt
        /\ called' = [document |-> document, receipt |-> receipt]
    BY <1>2 DEF Call, Reject
  <2>2. ~Accepted'
    BY <1>2 DEF Call, Reject, Accepted
  <2> QED BY <2>1, <2>2 DEF CalledOK, JudgedOK
<1>3. ASSUME NEW i \in 1 .. Len(Awaits) - 1, DigestArrives(i) PROVE JInv'
  <2>1. pc # "created" /\ pc' # "settled" /\ UNCHANGED <<plan, envelope, called>>
    <3>1. i \in {1, 2, 3, 4, 5}
      BY DEF Awaits
    <3> QED BY <1>3, <3>1 DEF DigestArrives, Awaits
  <2> QED BY <2>1 DEF CalledOK, JudgedOK, Accepted
<1>4. CASE IntegrityFails \/ JudgementFails
  <2>1. pc # "created" /\ ~Accepted' /\ UNCHANGED <<plan, envelope, called>>
    BY <1>4, Stages DEF IntegrityFails, JudgementFails, Reject, Accepted
  <2> QED BY <2>1 DEF CalledOK, JudgedOK
<1>5. CASE Judge
  <2>1. pc = "plan" /\ UNCHANGED <<plan, planDigest, envelope, called>>
    BY <1>5 DEF Judge
  <2>2. planDigest = Digest(plan)
    BY <1>5 DEF Judge, Holds
  <2>3. PICK r \in Responses :
          /\ Agrees(envelope) /\ Admissible(r)
          /\ response' = r
          /\ result' = [status |-> Outcome(r).status, code |-> Outcome(r).code,
                        receipt |-> envelope, policy |-> plan.content.paths]
    BY <1>5 DEF Judge, Envelope
  <2>4. JudgedOK'
    BY <2>1, <2>2, <2>3 DEF JudgedOK, Agrees, Admissible
  <2> QED BY <2>1, <2>4 DEF CalledOK
<1> QED
  <2>1. CASE \/ \E field \in ContentFields : \E value \in EditsOf(document.plan.content)[field] :
                  EditContent(field, value)
             \/ \E r \in RunIds \cup {Forged}, t \in Times : EditRun(r, t)
             \/ Reseal \/ EditReceipt \/ UNCHANGED vars
    BY <1>1, <2>1 DEF EditContent, EditRun, Reseal, EditReceipt, Edited, vars
  <2> QED BY <1>2, <1>3, <1>4, <1>5, <2>1 DEF Next, Done

-----------------------------------------------------------------------------
\* What is finalized is a plan that createExecutionPlan makes, whatever was
\* edited and resealed before the call and while it awaited.
THEOREM AcceptedPlansCreated == Spec => []AcceptedPlansAreCreated
<1>1. IInv => AcceptedPlansAreCreated
  BY SealedPlansAreCreated DEF IInv, StageOK, AcceptedPlansAreCreated
<1> QED BY InitIInv, NextIInv, <1>1, PTL DEF Spec

\* The result is about the plan and the receipt of the call.
THEOREM ResultsAreAsCalled == Spec => []ResultAsCalled
<1>1. JInv => ResultAsCalled
  BY DEF JInv, CalledOK, JudgedOK, Accepted, Agrees, ResultAsCalled
<1> QED BY InitJInv, NextJInv, <1>1, PTL DEF Spec

\* A valid completed outcome comes of a response without any defect.
LEMMA CompletedOutcome ==
  ASSUME NEW r \in Responses, Outcome(r).status = "completed"
  PROVE  /\ r.status = "completed" /\ Trusted(r)
         /\ r.defects \subseteq {"identity"}
<1>1. Valid(r) /\ r.status = "completed" /\ "missingArtifact" \notin r.defects
  BY DEF Outcome
<1>2. r.defects \subseteq Defects
  BY DEF Responses
<1>3. r.defects \cap (Untrusted \cup Invalid) = {}
  BY <1>1 DEF Valid
<1> QED BY <1>1, <1>2, <1>3 DEF Trusted, Defects

\* Completed is told only of an admitted execution by the planned executor
\* with a response that has no defect.
THEOREM CompletedEarned == Spec => []CompletedIsEarned
<1>1. IInv /\ JInv => CompletedIsEarned
  <2> SUFFICES ASSUME IInv, JInv, Accepted, result.status = "completed"
               PROVE  /\ plan.content.admission = "allowed"
                      /\ response.status = "completed" /\ response.defects = {}
                      /\ envelope.executor = plan.content.executor
    BY DEF CompletedIsEarned
  <2>1. response \in Responses /\ Outcome(response).status = "completed"
        /\ Admissible(response) /\ Agrees(envelope)
    BY DEF JInv, JudgedOK
  <2>2. response.status = "completed" /\ Trusted(response)
        /\ response.defects \subseteq {"identity"}
    BY <2>1, CompletedOutcome
  <2>3. plan.content.admission \in Admissions
    BY DEF IInv, StageOK, WellFormed, WellFormedContent
  <2> QED BY <2>1, <2>2, <2>3 DEF Admissible, Agrees, Admissions
<1> QED BY InitIInv, NextIInv, InitJInv, NextJInv, <1>1, PTL DEF Spec
=============================================================================
