----------------------------- MODULE CliAdapter -----------------------------
(***************************************************************************)
(* CliAdapterBase (adapters/cli/base.ts) with the executeCli of the Pi,    *)
(* Cursor and Codex adapters: one adapter object used by several callers.  *)
(* A use is a probe or an execution.  Executions are cancellable by run    *)
(* id through #inflight; both work in temporary directories, which have to *)
(* be removed on every path.                                               *)
(*                                                                         *)
(* A use is suspended at file operations and at runCliProcess, of which    *)
(* only the contract checked in CliProcess is kept: an abort before it has *)
(* settled makes it reject, with the abort or with an earlier cause.       *)
(***************************************************************************)
EXTENDS Naturals

CONSTANTS
  Uses,           \* calls of probe() or execute()
  RunIds,
  Nobody,         \* no execution
  Kinds,          \* "codex", or "plain": Pi and Cursor
  BehaviorChecks  \* how many features are probed by an accepted and a rejected value

ASSUME NobodyAssumption == Nobody \notin Uses
ASSUME KindsAssumption == Kinds \subseteq {"codex", "plain"}
ASSUME ChecksAssumption == BehaviorChecks \in Nat

VARIABLES
  kind,           \* the adapter's class
  phase,          \* what each use awaits
  runId,          \* context.runId of an execution
  inflight,       \* #inflight: whose controller a run id names
  stopped,        \* executions whose controller is aborted
  aborted,        \* uses whose context.signal is aborted
  directories,    \* temporary directories the use has made and not removed
  removalFailed,
  checks,         \* probe processes that have settled
  healthy,        \* all of them as they should
  failure,        \* what executeCli is going to throw
  answer          \* response, cancelled, failed or threw; of a probe, (un)available

useVars == <<phase, directories, removalFailed, checks, healthy, failure, answer>>
vars == <<kind, useVars, runId, inflight, stopped, aborted>>

Inflight == {"making", "writing", "running", "reading", "removing"}
Probing == {"probeMaking", "probeMaking2", "probeUnmaking", "checking", "probeRemoving",
            "probeThrowing"}

\* version, help, and two processes for each behavior.
AllChecks == 2 + 2 * BehaviorChecks

Init ==
  /\ kind \in Kinds
  /\ phase = [u \in Uses |-> "idle"]
  /\ runId \in [Uses -> RunIds]
  /\ inflight = [r \in RunIds |-> Nobody]
  /\ stopped = {}
  /\ aborted \in SUBSET Uses
  /\ directories = [u \in Uses |-> 0]
  /\ removalFailed = {}
  /\ checks = [u \in Uses |-> 0]
  /\ healthy = Uses
  /\ failure = [u \in Uses |-> "none"]
  /\ answer = [u \in Uses |-> "none"]

Move(u, from, to) == phase[u] = from /\ phase' = [phase EXCEPT ![u] = to]
Answer(u, verdict) == answer' = [answer EXCEPT ![u] = verdict]

\* AbortSignal.any of the controller's signal and the caller's.  Mutant
\* (AbortIsHonoured): the caller's only.
IsAbortedByCaller(u) == u \in aborted
IsAborted(u) == u \in stopped \/ u \in aborted

-----------------------------------------------------------------------------
(* execute(). *)

\* Preparing the environment, or the caller's emitEvent, throws: there is no
\* entry yet.
ExecuteThrows(u) ==
  /\ Move(u, "idle", "answered")
  /\ Answer(u, "threw")
  /\ UNCHANGED <<kind, directories, removalFailed, checks, healthy, failure,
                 runId, inflight, stopped, aborted>>

\* The entry names the newest execution of a run id.
Execute(u) ==
  /\ Move(u, "idle", "making")
  /\ inflight' = [inflight EXCEPT ![runId[u]] = u]
  /\ UNCHANGED <<kind, directories, removalFailed, checks, healthy, failure, answer,
                 runId, stopped, aborted>>

\* Mutant (EntryKept): the inner finally block removes the entry whoever's it is.
ReleaseEntryAnyway(u, verdict) ==
  /\ phase' = [phase EXCEPT ![u] = "answered"]
  /\ Answer(u, verdict)
  /\ inflight' = [inflight EXCEPT ![runId[u]] = Nobody]

\* A failure has become a response, and the entry is removed if it is still
\* this execution's.
ReleaseEntry(u, verdict) ==
  /\ phase' = [phase EXCEPT ![u] = "answered"]
  /\ Answer(u, verdict)
  /\ inflight' = [inflight EXCEPT ![runId[u]] = IF @ = u THEN Nobody ELSE @]

\* cancel(runId): of a run id nobody executes it does nothing.
Cancel(r) ==
  /\ inflight[r] # Nobody
  /\ stopped' = stopped \cup {inflight[r]}
  /\ UNCHANGED <<kind, useVars, runId, inflight, aborted>>

Abort(u) ==
  /\ u \notin aborted
  /\ aborted' = aborted \cup {u}
  /\ UNCHANGED <<kind, useVars, runId, inflight, stopped>>

-----------------------------------------------------------------------------
(* executeCli(). *)

\* A temporary directory, unless the user's own is used (not by Codex).
Make(u) ==
  /\ Move(u, "making", IF kind = "codex" THEN "writing" ELSE "running")
  /\ \E n \in (IF kind = "codex" THEN {1} ELSE {0, 1}) :
       directories' = [directories EXCEPT ![u] = n]
  /\ UNCHANGED <<kind, removalFailed, checks, healthy, failure, answer,
                 runId, inflight, stopped, aborted>>

MakeFails(u) ==
  /\ phase[u] = "making"
  /\ ReleaseEntry(u, "failed")
  /\ UNCHANGED <<kind, directories, removalFailed, checks, healthy, failure,
                 runId, stopped, aborted>>

\* Codex writes its schema.
Write(u) ==
  /\ Move(u, "writing", "running")
  /\ UNCHANGED <<kind, directories, removalFailed, checks, healthy, failure, answer,
                 runId, inflight, stopped, aborted>>

\* The command settles: Codex goes on to read its output file, the others
\* have parsed the standard output (or could not).
RunSucceeds(u) ==
  /\ ~IsAborted(u)
  /\ Move(u, "running", IF kind = "codex" THEN "reading" ELSE "removing")
  /\ UNCHANGED <<kind, directories, removalFailed, checks, healthy, failure, answer,
                 runId, inflight, stopped, aborted>>

ReadSucceeds(u) ==
  /\ Move(u, "reading", "removing")
  /\ UNCHANGED <<kind, directories, removalFailed, checks, healthy, failure, answer,
                 runId, inflight, stopped, aborted>>

\* Any of these steps fails; the process alone can fail by being cancelled.
StepFails(u, error) ==
  /\ phase[u] \in {"writing", "running", "reading"}
  /\ error = "cancelled" => phase[u] = "running" /\ IsAborted(u)
  /\ failure' = [failure EXCEPT ![u] = error]
  /\ phase' = [phase EXCEPT ![u] = "removing"]
  /\ UNCHANGED <<kind, directories, removalFailed, checks, healthy, answer,
                 runId, inflight, stopped, aborted>>

Outcome(u) == IF failure[u] = "none" THEN "response" ELSE failure[u]

Remove(u) ==
  /\ phase[u] = "removing"
  /\ directories' = [directories EXCEPT ![u] = 0]
  /\ ReleaseEntry(u, Outcome(u))
  /\ UNCHANGED <<kind, removalFailed, checks, healthy, failure, runId, stopped, aborted>>

\* Mutant (CleanupHonest): Codex forgets the primary failure too.
RemovalReplacesFailure(u) ==
  /\ phase[u] = "removing" /\ directories[u] > 0
  /\ removalFailed' = removalFailed \cup {u}
  /\ ReleaseEntry(u, "failed")
  /\ UNCHANGED <<kind, directories, checks, healthy, failure, runId, stopped, aborted>>

\* Codex throws the primary failure, if there is one; the others' finally
\* block replaces it by the failure of the removal.
RemovalFails(u) ==
  /\ phase[u] = "removing" /\ directories[u] > 0
  /\ removalFailed' = removalFailed \cup {u}
  /\ ReleaseEntry(u, IF kind = "codex" /\ failure[u] # "none" THEN failure[u] ELSE "failed")
  /\ UNCHANGED <<kind, directories, checks, healthy, failure, runId, stopped, aborted>>

-----------------------------------------------------------------------------
(* probe(). *)

Probe(u) ==
  /\ Move(u, "idle", "probeMaking")
  /\ UNCHANGED <<kind, directories, removalFailed, checks, healthy, failure, answer,
                 runId, inflight, stopped, aborted>>

\* With the probe's directories made, prepareEnvironment throws or the first
\* process is started.
Prepared == {"checking", "probeThrowing"}

\* prepareProbeEnvironment: Codex makes a second directory for behaviors.
ProbeMake(u) ==
  /\ \E next \in (IF kind = "codex" THEN {"probeMaking2"} ELSE Prepared) :
       Move(u, "probeMaking", next)
  /\ \E n \in {0, 1} : directories' = [directories EXCEPT ![u] = n]
  /\ UNCHANGED <<kind, removalFailed, checks, healthy, failure, answer,
                 runId, inflight, stopped, aborted>>

ProbeMake2(u) ==
  /\ \E next \in Prepared : Move(u, "probeMaking2", next)
  /\ directories' = [directories EXCEPT ![u] = @ + 1]
  /\ UNCHANGED <<kind, removalFailed, checks, healthy, failure, answer,
                 runId, inflight, stopped, aborted>>

\* What was made is removed before the probe is reported unavailable.
ProbeMakeFails(u) ==
  /\ phase[u] \in {"probeMaking", "probeMaking2"}
  /\ phase' = [phase EXCEPT ![u] = "probeUnmaking"]
  /\ UNCHANGED <<kind, directories, removalFailed, checks, healthy, failure, answer,
                 runId, inflight, stopped, aborted>>

\* Mutant (UsesEnd): a race of the removals, which never settles without any.
ProbeUnmadeByRace(u) ==
  /\ directories[u] > 0
  /\ Move(u, "probeUnmaking", "answered")
  /\ Answer(u, "unavailable")
  /\ directories' = [directories EXCEPT ![u] = 0]
  /\ UNCHANGED <<kind, removalFailed, checks, healthy, failure, runId, inflight, stopped, aborted>>

\* The removal may fail, and leaves something then.  Preparing the environment,
\* for what the diagnostic must not tell, may throw.
ProbeUnmade(u) ==
  /\ Move(u, "probeUnmaking", "answered")
  /\ \E verdict \in {"unavailable", "threw"} : Answer(u, verdict)
  /\ \/ directories' = [directories EXCEPT ![u] = 0] /\ UNCHANGED removalFailed
     \/ /\ directories[u] > 0
        /\ removalFailed' = removalFailed \cup {u}
        /\ UNCHANGED directories
  /\ UNCHANGED <<kind, checks, healthy, failure, runId, inflight, stopped, aborted>>

\* A process that was aborted is never the expected rejection of a value.
Expected(u) == u \notin aborted

\* version and help must succeed; the others are all tried.
Check(u, ok) ==
  /\ phase[u] = "checking" /\ checks[u] < AllChecks
  /\ ok => Expected(u)
  /\ checks' = [checks EXCEPT ![u] = @ + 1]
  /\ healthy' = IF ok THEN healthy ELSE healthy \ {u}
  /\ phase' = [phase EXCEPT ![u] =
       IF (~ok /\ checks[u] < 2) \/ checks'[u] = AllChecks THEN "probeRemoving" ELSE @]
  /\ UNCHANGED <<kind, directories, removalFailed, failure, answer,
                 runId, inflight, stopped, aborted>>

\* A check may also pass with the version or a flag missing: unavailable.
ProbeRemoved(u, verdict) ==
  /\ Move(u, "probeRemoving", "answered")
  /\ verdict = "available" => u \in healthy
  /\ directories' = [directories EXCEPT ![u] = 0]
  /\ Answer(u, verdict)
  /\ UNCHANGED <<kind, removalFailed, checks, healthy, failure,
                 runId, inflight, stopped, aborted>>

\* prepareEnvironment has thrown: probe() rejects, once its directories are gone.
ProbeThrows(u) ==
  /\ Move(u, "probeThrowing", "answered")
  /\ directories' = [directories EXCEPT ![u] = 0]
  /\ Answer(u, "threw")
  /\ UNCHANGED <<kind, removalFailed, checks, healthy, failure,
                 runId, inflight, stopped, aborted>>

\* probe() rejects; one of two directories may be gone.
ProbeRemovalFails(u) ==
  /\ \E from \in {"probeRemoving", "probeThrowing"} : Move(u, from, "answered")
  /\ \E n \in 1 .. directories[u] : directories' = [directories EXCEPT ![u] = n]
  /\ removalFailed' = removalFailed \cup {u}
  /\ Answer(u, "threw")
  /\ UNCHANGED <<kind, checks, healthy, failure, runId, inflight, stopped, aborted>>

-----------------------------------------------------------------------------
\* What a use owes its caller once it has begun: file operations and
\* runCliProcess settle.
Continue(u) ==
  \/ Make(u) \/ MakeFails(u) \/ Write(u) \/ RunSucceeds(u) \/ ReadSucceeds(u)
  \/ \E error \in {"cancelled", "failed"} : StepFails(u, error)
  \/ Remove(u) \/ RemovalFails(u)
  \/ ProbeMake(u) \/ ProbeMake2(u) \/ ProbeMakeFails(u) \/ ProbeUnmade(u)
  \/ \E ok \in BOOLEAN : Check(u, ok)
  \/ \E verdict \in {"available", "unavailable"} : ProbeRemoved(u, verdict)
  \/ ProbeThrows(u) \/ ProbeRemovalFails(u)

Done == (\A u \in Uses : phase[u] = "answered") /\ UNCHANGED vars

Next ==
  \/ \E u \in Uses : Execute(u) \/ ExecuteThrows(u) \/ Probe(u) \/ Abort(u) \/ Continue(u)
  \/ \E r \in RunIds : Cancel(r)
  \/ Done

Spec == Init /\ [][Next]_vars
FairSpec == Spec /\ \A u \in Uses : WF_vars(Continue(u))

-----------------------------------------------------------------------------
(* Properties. *)

\* An execution stays cancellable until it answers or a newer one with its run
\* id begins, whatever an older one with that id does (adapters/cli/base.ts
\* compares the controllers before it deletes the entry); and no entry outlives
\* its execution: a cancel cannot reach something that has already answered.
EntryKept ==
  /\ [][\A u \in Uses :
         phase[u] \in Inflight /\ inflight[runId[u]] = u /\ phase'[u] \in Inflight =>
           LET heir == inflight'[runId[u]]
           IN  heir = u \/ (heir # Nobody /\ phase[heir] = "idle")]_vars
  /\ [](\A r \in RunIds : inflight[r] # Nobody =>
          phase[inflight[r]] \in Inflight /\ runId[inflight[r]] = r)

\* An execution that is cancelled, by the caller's signal or through
\* cancel(runId), before its command has settled never answers with the
\* executor's response; and a probe aborted while it still has processes to run
\* is never available: their errors do not pass for the rejections it looks for.
AbortIsHonoured ==
  \A u \in Uses :
    /\ [](phase[u] \in {"making", "writing", "running"} /\ u \in stopped \cup aborted =>
           [](answer[u] # "response"))
    /\ [](phase[u] = "checking" /\ u \in aborted => [](answer[u] # "available"))

\* A temporary directory is left behind only by a removal that was tried and
\* failed, and then neither a response nor availability is reported.  What Codex
\* reports is what went wrong first, even if the removal then fails
\* (primaryFailure in codex-adapter.ts): a cancelled run stays cancelled.
CleanupHonest ==
  \A u \in Uses : phase[u] = "answered" =>
    /\ directories[u] > 0 =>
         u \in removalFailed /\ answer[u] \notin {"response", "available"}
    /\ kind = "codex" /\ failure[u] # "none" => answer[u] = failure[u]

\* Every probe and every execution answers.
UsesEnd == \A u \in Uses : (phase[u] \in Inflight \cup Probing) ~> (phase[u] = "answered")
=============================================================================
