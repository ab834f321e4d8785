---------------------------- MODULE PlanFinalize ----------------------------
(***************************************************************************)
(* Execution plans and their finalization (core/execution-plan.ts, with    *)
(* execution-contract.ts, response-validation.ts and digest.ts).  A plan   *)
(* is a plain document: its creator, the host that executes it and whoever *)
(* else can reach the file or the object may edit it and its receipt at    *)
(* any time, recompute every digest in it, and go on editing while         *)
(* finalizeExecution awaits a digest.                                      *)
(*                                                                         *)
(* Documents are reduced to the fields that are compared.  SHA-256 is      *)
(* injective here.  A response is its status and what is wrong with it.    *)
(***************************************************************************)
EXTENDS Integers, FiniteSets, RunEvents

CONSTANTS
  RoleIds, Bodies,       \* a role is an id and what its contract depends on
  TaskIds, Paths,        \* a task is an id, a role id and its allowed paths
  Options,               \* public options
  Executors,             \* executor id and transport
  RunIds,
  Times,                 \* timestamps
  Forged,                \* a value that is equal to nothing else
  MaxEdits,              \* bound: edits before finalizeExecution is called
  MaxLateEdits           \* bound: edits while it awaits

ASSUME ForgedAssumption == Forged \notin Bodies \cup Paths
ASSUME TimesAssumption == Times \subseteq Int
ASSUME BoundsAssumption == MaxEdits \in Nat /\ MaxLateEdits \in Nat

VARIABLES
  pc,         \* the digest finalizeExecution awaits
  document,   \* the resolved plan: plan and planDigest
  receipt,    \* the receipt without its response
  edits,      \* edits so far, and since the call
  called,     \* document and receipt at the time of the call
  plan,       \* planSnapshot
  planDigest, \* resolvedPlanDigest
  envelope,   \* receiptSnapshot.envelope
  response,   \* the response as it was read
  result      \* what finalizeExecution settled with

snapshots == <<called, plan, planDigest, envelope>>
vars == <<pc, document, receipt, edits, snapshots, response, result>>

-----------------------------------------------------------------------------
(* Documents. *)

\* `normal`: sorted, without duplicates, schemas normalized.
Roles == [id : RoleIds, body : Bodies, normal : BOOLEAN]
Tasks == [id : TaskIds, roleId : RoleIds, paths : Paths, normal : BOOLEAN]

\* digestJson
Digest(value) == [sha256 |-> value]

Normalized(snapshot) == [snapshot EXCEPT !.normal = TRUE]

\* createExecutionContract, and the capabilities it requires.
Contract(role, task) == [role |-> role, task |-> task]
Capabilities(contract) == contract.role.body

ContentFields ==
  {"role", "roleDigest", "task", "taskDigest", "contract", "contractDigest", "executor",
   "options", "optionsDigest", "secrets", "admission", "capabilities", "paths"}

\* createExecutionPlan: everything is normalized and copied before the first
\* digest is awaited, so it depends on nothing that happens later.
CreatedPlan(role, task, executor, options, admission, runId, createdAt) ==
  LET r == Normalized(role)
      t == Normalized(task)
      content == [
        role         |-> r,
        roleDigest   |-> Digest(r),
        task         |-> t,
        taskDigest   |-> Digest(t),
        contract     |-> Contract(r, t),
        contractDigest |-> Digest(Contract(r, t)),
        executor     |-> executor,
        options      |-> options,
        optionsDigest |-> Digest(options),
        secrets      |-> "normal",
        admission    |-> admission,
        capabilities |-> Capabilities(Contract(r, t)),
        paths        |-> t.paths]
  IN  [content |-> content, runId |-> runId, createdAt |-> createdAt,
       contentDigest |-> Digest(content)]

Admissions == {"allowed", "denied"}

IsCreated(p) ==
  \E role \in Roles, task \in Tasks :
    /\ task.roleId = role.id
    /\ p = CreatedPlan(role, task, p.content.executor, p.content.options,
                       p.content.admission, p.runId, p.createdAt)

\* What an honest executor reports.
HonestReceipt(d) == [
  planDigest |-> d.planDigest,
  runId      |-> d.plan.runId,
  taskId     |-> d.plan.content.task.id,
  roleId     |-> d.plan.content.role.id,
  executor   |-> d.plan.content.executor,
  startedAt  |-> d.plan.createdAt,
  completedAt |-> d.plan.createdAt]

-----------------------------------------------------------------------------
(* Responses: what validateExecutorResponse can find wrong. *)

\* Not portable JSON, output or error missing or misplaced, against the
\* response schema: the response is not trusted in anything.
Untrusted == {"opaque", "shape", "structure"}
\* Trusted but invalid.
Invalid == {"outputSchema", "duplicateArtifact", "emptyArtifact", "usage"}
\* Valid, but disagrees with the receipt's executor, or misses an artifact.
Defects == Untrusted \cup Invalid \cup {"identity", "missingArtifact"}

\* Only a completed response has an output to validate.
Responses ==
  {r \in [status : TerminalStatuses, defects : {D \in SUBSET Defects : Cardinality(D) <= 2}] :
     "outputSchema" \in r.defects => r.status = "completed"}

Trusted(r) == r.defects \cap Untrusted = {}
Valid(r) == r.defects \cap (Untrusted \cup Invalid) = {}

\* Mutant (CompletedIsEarned): expected artifacts are not looked for.
OutcomeOfStatus(r) ==
  CASE ~Valid(r) -> [status |-> "failed", code |-> "invalid_executor_response"]
    [] OTHER -> [status |-> r.status, code |-> "none"]

\* normalizedOutcome
Outcome(r) ==
  CASE ~Valid(r) ->
         [status |-> "failed",
          code |-> IF Trusted(r) /\ r.status = "completed"
                        /\ r.defects \cap Invalid = {"outputSchema"}
                   THEN "output_validation_failed" ELSE "invalid_executor_response"]
    [] Valid(r) /\ r.status = "completed" /\ "missingArtifact" \in r.defects ->
         [status |-> "failed", code |-> "missing_artifact"]
    [] OTHER -> [status |-> r.status, code |-> "none"]

-----------------------------------------------------------------------------
NoEdits == [before |-> 0, late |-> 0]
None == [none |-> TRUE]
Awaits == <<"role", "task", "contract", "options", "content", "plan">>
Finalizing == {Awaits[i] : i \in DOMAIN Awaits}

Init ==
  /\ pc = "created"
  /\ \E role \in Roles, task \in Tasks, executor \in Executors, options \in Options,
        admission \in Admissions, runId \in RunIds, createdAt \in Times :
       /\ task.roleId = role.id
       /\ LET p == CreatedPlan(role, task, executor, options, admission, runId, createdAt)
          IN  document = [plan |-> p, planDigest |-> Digest(p)]
  /\ receipt = HonestReceipt(document)
  /\ edits = NoEdits
  /\ called = None
  /\ plan = None
  /\ planDigest = None
  /\ envelope = None
  /\ response = None
  /\ result = None

-----------------------------------------------------------------------------
(* Edits, before the call and while it awaits. *)

\* After the call the edits that matter are those of what the result repeats.
MayEdit(repeated) ==
  \/ pc = "created" /\ edits.before < MaxEdits
  \/ pc \in Finalizing /\ edits.late < MaxLateEdits /\ repeated

CountEdit ==
  edits' = IF pc = "created" THEN [edits EXCEPT !.before = @ + 1]
           ELSE [edits EXCEPT !.late = @ + 1]

Edited(newDocument, newReceipt) ==
  /\ MayEdit(newDocument.plan.content.paths # document.plan.content.paths \/ newReceipt # receipt)
  /\ CountEdit
  /\ document' = newDocument
  /\ receipt' = newReceipt
  /\ UNCHANGED <<pc, snapshots, response, result>>

EditsOf(content) == [
  role         |-> Roles,
  roleDigest   |-> {Digest(content.role), Forged},
  task         |-> Tasks,
  taskDigest   |-> {Digest(content.task), Forged},
  contract     |-> {Contract(content.role, content.task)},
  contractDigest |-> {Digest(content.contract), Forged},
  executor     |-> Executors \cup {Forged},
  options      |-> Options \cup {Forged},
  optionsDigest |-> {Digest(content.options), Forged},
  secrets      |-> {"normal", "raw"},
  admission    |-> Admissions,
  capabilities |-> Bodies \cup {Forged},
  paths        |-> Paths \cup {Forged}]

EditContent(field, value) ==
  /\ document.plan.content[field] # value
  /\ Edited([document EXCEPT !.plan.content[field] = value], receipt)

EditRun(runId, createdAt) ==
  /\ <<runId, createdAt>> # <<document.plan.runId, document.plan.createdAt>>
  /\ Edited([document EXCEPT !.plan = [@ EXCEPT !.runId = runId, !.createdAt = createdAt]],
            receipt)

\* All digests are computed anew, in the plan and in the receipt.
Sealed(content) ==
  [content EXCEPT !.roleDigest = Digest(content.role),
                  !.taskDigest = Digest(content.task),
                  !.contractDigest = Digest(content.contract),
                  !.optionsDigest = Digest(content.options)]

Reseal ==
  LET content == Sealed(document.plan.content)
      p == [document.plan EXCEPT !.content = content, !.contentDigest = Digest(content)]
  IN  /\ pc = "created"
      /\ document' = [plan |-> p, planDigest |-> Digest(p)]
      /\ receipt' = [receipt EXCEPT !.planDigest = Digest(p)]
      /\ document' # document
      /\ UNCHANGED <<pc, edits, snapshots, response, result>>

EditReceipt ==
  \/ \E d \in {Forged, document.planDigest} : Edited(document, [receipt EXCEPT !.planDigest = d])
  \/ \E field \in {"runId", "taskId", "roleId", "executor"} :
       Edited(document, [receipt EXCEPT ![field] = Forged])
  \/ \E t \in Times : Edited(document, [receipt EXCEPT !.startedAt = t])
  \/ \E t \in Times : Edited(document, [receipt EXCEPT !.completedAt = t])

-----------------------------------------------------------------------------
(* finalizeExecution. *)

\* canonicalPlanSnapshots
Canonical(content) ==
  /\ content.role.normal /\ content.task.normal
  /\ content.task.roleId = content.role.id

\* Mutant (AcceptedPlansAreCreated): the policy's paths are not compared.
SemanticWithoutPaths(content) ==
  /\ content.contract = Contract(content.role, content.task)
  /\ content.capabilities = Capabilities(Contract(content.role, content.task))
  /\ content.secrets = "normal"

\* assertSemanticPlanContent
Semantic(content) ==
  /\ content.contract = Contract(content.role, content.task)
  /\ content.capabilities = Capabilities(Contract(content.role, content.task))
  /\ content.paths = content.task.paths
  /\ content.secrets = "normal"

\* assertExecutionPlanIntegrity: what must hold when a digest has arrived.
Holds(await) ==
  LET content == plan.content
  IN  CASE await = "role" -> Digest(content.role) = content.roleDigest
        [] await = "task" -> Digest(content.task) = content.taskDigest /\ Semantic(content)
        [] await = "contract" -> Digest(content.contract) = content.contractDigest
        [] await = "options" -> Digest(content.options) = content.optionsDigest
        [] await = "content" -> Digest(content) = plan.contentDigest
        [] await = "plan" -> Digest(plan) = planDigest

Reject ==
  /\ pc' = "settled"
  /\ result' = [status |-> "rejected"]
  /\ UNCHANGED <<document, receipt, edits, response>>

\* The snapshots, and what is checked before the first await.
Call ==
  /\ pc = "created"
  /\ called' = [document |-> document, receipt |-> receipt]
  /\ envelope' = receipt
  /\ plan' = document.plan
  /\ planDigest' = document.planDigest
  /\ IF Canonical(document.plan.content)
     THEN pc' = "role" /\ UNCHANGED <<document, receipt, edits, response, result>>
     ELSE Reject

DigestArrives(i) ==
  /\ pc = Awaits[i]
  /\ Holds(pc)
  /\ pc' = Awaits[i + 1]
  /\ UNCHANGED <<document, receipt, edits, snapshots, response, result>>

IntegrityFails ==
  /\ pc \in Finalizing
  /\ ~Holds(pc)
  /\ Reject
  /\ UNCHANGED snapshots

\* Mutant (ResultAsCalled): the receipt is read after the awaits.
LateEnvelope == receipt
Envelope == envelope

Agrees(e) ==
  /\ e.planDigest = planDigest
  /\ e.runId = plan.runId
  /\ e.taskId = plan.content.task.id
  /\ e.roleId = plan.content.role.id
  /\ e.executor = plan.content.executor
  /\ plan.createdAt <= e.startedAt /\ e.startedAt <= e.completedAt

\* A trusted response must come from the receipt's executor, and a denied plan
\* ends blocked or cancelled.
Admissible(r) ==
  /\ Trusted(r) => "identity" \notin r.defects
  /\ plan.content.admission = "denied" =>
       Trusted(r) /\ r.status \in {"blocked", "cancelled"}

\* The last digest has arrived: the rest happens without a further await.
\* The response, which is read only now, may have changed since the call.
Judge ==
  /\ pc = "plan" /\ Holds(pc)
  /\ \E r \in Responses :
       /\ Agrees(Envelope) /\ Admissible(r)
       /\ response' = r
       /\ result' = [status |-> Outcome(r).status, code |-> Outcome(r).code,
                     receipt |-> Envelope, policy |-> plan.content.paths]
  /\ pc' = "settled"
  /\ UNCHANGED <<document, receipt, edits, snapshots>>

JudgementFails ==
  /\ pc = "plan" /\ Holds(pc)
  /\ \E r \in Responses : ~(Agrees(Envelope) /\ Admissible(r))
  /\ Reject
  /\ UNCHANGED snapshots

Done == pc = "settled" /\ UNCHANGED vars

Next ==
  \/ \E field \in ContentFields : \E value \in EditsOf(document.plan.content)[field] :
       EditContent(field, value)
  \/ \E runId \in RunIds \cup {Forged}, createdAt \in Times : EditRun(runId, createdAt)
  \/ Reseal
  \/ EditReceipt
  \/ Call
  \/ \E i \in 1 .. Len(Awaits) - 1 : DigestArrives(i)
  \/ IntegrityFails
  \/ Judge
  \/ JudgementFails
  \/ Done

Spec == Init /\ [][Next]_vars

-----------------------------------------------------------------------------
(* Properties. *)

Accepted == pc = "settled" /\ result.status # "rejected"

\* A plan that is finalized is one createExecutionPlan makes of some role,
\* task and target, however it was edited and though all its digests were
\* computed anew: the contract, the policy and the digests in it are those of
\* the role and the task in it.
AcceptedPlansAreCreated == Accepted => IsCreated(plan)

\* Completed is earned: the plan's admission allowed the execution, the
\* executor is the planned one and answers for itself, and the response is
\* valid, has the role's output and every expected artifact.
CompletedIsEarned ==
  Accepted /\ result.status = "completed" =>
    /\ plan.content.admission = "allowed"
    /\ response.status = "completed" /\ response.defects = {}
    /\ envelope.executor = plan.content.executor

\* The result is about the plan and the receipt as they were at the call, in
\* spite of all that is edited while the digests are awaited.
ResultAsCalled ==
  Accepted =>
    /\ called.receipt.planDigest = Digest(called.document.plan)
    /\ result.receipt = called.receipt
    /\ result.policy = called.document.plan.content.paths
=============================================================================
