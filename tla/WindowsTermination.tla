------------------------- MODULE WindowsTermination -------------------------
(***************************************************************************)
(* terminateWindowsProcessTree (adapters/cli/termination.ts): Windows has  *)
(* no process groups, so three helper processes are run one after another, *)
(* all under one deadline: a PowerShell script that lists the descendants, *)
(* a tree-aware taskkill and, unless these two prove enough, a script that *)
(* kills what was listed.                                                  *)
(*                                                                         *)
(* The tree goes on forking and exiting meanwhile; a name is never used    *)
(* again (a reused pid is out of the model).  A helper may fail to start,  *)
(* fail after doing part of its work, hang, or write nonsense.  The call   *)
(* begins with a child that has a pid; without one there is nothing to do. *)
(***************************************************************************)

CONSTANTS
  Root,     \* child.pid
  Others    \* names for its descendants, alive or to be forked

ASSUME RootAssumption == Root \notin Others

VARIABLES
  alive,      \* processes of the tree that exist
  born,       \* processes that exist or have existed
  parent,     \* ParentProcessId, kept when the parent is gone
  killed,     \* processes a kill was accepted for
  protected,  \* processes whose kill is denied (never changes)
  standing,   \* linked to Root by living processes for as long as they are listed
  stage,      \* where terminateWindowsProcessTree is
  expired,    \* Date.now() >= deadline
  outcome,    \* HelperOutcome of each stage
  frontier,   \* the listing: processes whose children are still to be queried
  listed,     \* the listing: $script:rolekitPids
  degraded,   \* the listing: $script:rolekitFailures is not empty
  captured    \* capturedPids

osVars == <<alive, born, parent, killed, protected>>
listVars == <<frontier, listed, degraded>>
vars == <<osVars, standing, stage, expired, outcome, listVars, captured>>

Processes == Others \cup {Root}
Helpers == {"snapshot", "taskkill", "fallback"}
Settled == {"returned", "threw"}
Stages == Helpers \cup {"waiting"} \cup Settled
Outcomes == {"none", "running", "ok", "failed", "timedOut"}

\* T holds Root, if S does, and every child in S of its members.
Closed(T, S) ==
  /\ Root \in S => Root \in T
  /\ \A p \in S \ {Root} : parent[p] \in T => p \in T

\* Processes that are reached from Root through members of S only.
Linked(S) == {p \in S : \A T \in SUBSET S : Closed(T, S) => p \in T}

\* Once a stage's await is over, the helper of the next one is started; a
\* helper started after the deadline is terminated at once.
FirstOutcomes(late) == {"failed", IF late THEN "timedOut" ELSE "running"}

Init ==
  /\ alive \in {S \in SUBSET Processes : Root \in S}
  /\ born = alive
  /\ parent \in [Others -> Processes]
  /\ \A p \in Others : IF p \in alive THEN parent[p] # p ELSE parent[p] = Root
  /\ Linked(alive) = alive
  /\ killed = {}
  /\ protected \in SUBSET Processes
  /\ standing = alive
  /\ expired \in BOOLEAN
  /\ stage = "snapshot"
  /\ outcome \in {[h \in Helpers |-> IF h = "snapshot" THEN first ELSE "none"] :
                    first \in FirstOutcomes(expired)}
  /\ frontier = {Root}
  /\ listed = {}
  /\ degraded = FALSE
  /\ captured = {Root}

-----------------------------------------------------------------------------
(* The operating system. *)

Fork(d) ==
  /\ d \notin born
  /\ \E p \in alive \ killed : parent' = [parent EXCEPT ![d] = p]
  /\ alive' = alive \cup {d}
  /\ born' = born \cup {d}
  /\ UNCHANGED <<killed, protected, standing, stage, expired, outcome, listVars, captured>>

\* While the tree is listed, what loses its link to Root no longer stands.
Exit(p) ==
  /\ p \in alive
  /\ alive' = alive \ {p}
  /\ standing' = IF stage = "snapshot" THEN Linked(standing \ {p}) ELSE standing
  /\ UNCHANGED <<born, parent, killed, protected, stage, expired, outcome, listVars, captured>>

Expire ==
  /\ ~expired
  /\ expired' = TRUE
  /\ UNCHANGED <<osVars, standing, stage, outcome, listVars, captured>>

-----------------------------------------------------------------------------
(* The helpers. *)

Running(h) == stage = h /\ outcome[h] = "running"

\* Get-RoleKitDescendants: one query for the children of one process.
Query(p) ==
  LET children == {d \in alive \cap Others : parent[d] = p}
  IN  /\ Running("snapshot")
      /\ p \in frontier
      /\ \/ /\ frontier' = (frontier \ {p}) \cup children
            /\ listed' = listed \cup children
            /\ UNCHANGED degraded
         \/ /\ frontier' = frontier \ {p}
            /\ degraded' = TRUE
            /\ UNCHANGED listed
      /\ UNCHANGED <<osVars, standing, stage, expired, outcome, captured>>

\* taskkill /T kills what is linked to Root, or what it finds of it; the
\* fallback kills what was captured.  Neither waits for the end of a process.
KillBy(h, p) ==
  /\ Running(h)
  /\ p \in alive \ (killed \cup protected)
  /\ p \in CASE h = "taskkill" -> born [] h = "fallback" -> captured [] OTHER -> {}
  /\ killed' = killed \cup {p}
  /\ UNCHANGED <<alive, born, parent, protected, standing, stage, expired, outcome,
                 listVars, captured>>

\* The listing is parsed: its pids count even when it reports failures.  If it
\* cannot be parsed, or the helper breaks, there are none.
SnapshotCompletes ==
  /\ Running("snapshot")
  /\ \E o \in {"ok", "failed"}, pids \in {listed, {}} :
       /\ o = "ok" => frontier = {} /\ ~degraded /\ pids = listed
       /\ pids # {} => frontier = {}
       /\ outcome' = [outcome EXCEPT !["snapshot"] = o]
       /\ captured' = {Root} \cup pids
  /\ UNCHANGED <<osVars, standing, stage, expired, listVars>>

KillerCompletes(h) ==
  /\ Running(h) /\ h # "snapshot"
  /\ \E o \in {"ok", "failed"} : outcome' = [outcome EXCEPT ![h] = o]
  /\ UNCHANGED <<osVars, standing, stage, expired, listVars, captured>>

\* Mutant (TerminationEnds): the deadline is the snapshot's only.
OnlySnapshotTimesOut(h) ==
  /\ Running(h) /\ expired /\ h = "snapshot"
  /\ outcome' = [outcome EXCEPT ![h] = "timedOut"]
  /\ UNCHANGED <<osVars, standing, stage, expired, listVars, captured>>

\* The timer of runHelperUntilDeadline wins the race: the helper is terminated.
HelperTimesOut(h) ==
  /\ Running(h) /\ expired
  /\ outcome' = [outcome EXCEPT ![h] = "timedOut"]
  /\ UNCHANGED <<osVars, standing, stage, expired, listVars, captured>>

-----------------------------------------------------------------------------
(* terminateWindowsProcessTree. *)

StartNext(h) ==
  /\ stage' = h
  /\ \E first \in FirstOutcomes(expired) : outcome' = [outcome EXCEPT ![h] = first]
  /\ UNCHANGED <<osVars, standing, expired, listVars, captured>>

SnapshotAwaited ==
  /\ stage = "snapshot"
  /\ ~Running("snapshot")
  /\ StartNext("taskkill")

\* Mutant (VerifiedMeansGone): the end of the parent counts as verification.
VerifiedByRoot ==
  /\ outcome["snapshot"] = "ok" /\ outcome["taskkill"] = "ok"
  /\ Root \notin alive

\* survivingWindowsPids after two helpers that report no failure.
Verified ==
  /\ outcome["snapshot"] = "ok" /\ outcome["taskkill"] = "ok"
  /\ captured \cap alive = {}

TaskkillAwaited ==
  /\ stage = "taskkill"
  /\ ~Running("taskkill")
  /\ IF Verified
     THEN stage' = "returned"
          /\ UNCHANGED <<osVars, standing, expired, outcome, listVars, captured>>
     ELSE StartNext("fallback")

FallbackAwaited ==
  /\ stage = "fallback"
  /\ ~Running("fallback")
  /\ stage' = "waiting"
  /\ UNCHANGED <<osVars, standing, expired, outcome, listVars, captured>>

\* Mutant (NothingSpared): survivors are reported and left.
WaitEndsSparing ==
  /\ stage = "waiting"
  /\ expired \/ captured \cap alive = {}
  /\ stage' = "threw"
  /\ UNCHANGED <<osVars, standing, expired, outcome, listVars, captured>>

\* waitForWindowsPidsExit; then what is left is killed without a helper, and
\* the cleanup is reported as unverified whatever it achieved.
WaitEnds ==
  /\ stage = "waiting"
  /\ expired \/ captured \cap alive = {}
  /\ killed' = killed \cup ((captured \cap alive) \ protected)
  /\ stage' = "threw"
  /\ UNCHANGED <<alive, born, parent, protected, standing, expired, outcome, listVars, captured>>

-----------------------------------------------------------------------------
Continue == SnapshotAwaited \/ TaskkillAwaited \/ FallbackAwaited \/ WaitEnds

Done == stage \in Settled /\ UNCHANGED vars

Next ==
  \/ \E d \in Others : Fork(d)
  \/ \E p \in Processes : Exit(p)
  \/ Expire
  \/ \E p \in Processes : Query(p)
  \/ \E h \in Helpers, p \in Processes : KillBy(h, p)
  \/ SnapshotCompletes
  \/ \E h \in Helpers : KillerCompletes(h)
  \/ \E h \in Helpers : HelperTimesOut(h)
  \/ Continue
  \/ Done

\* The clock and the code go on; neither the helpers nor the tree need to.
Fairness ==
  /\ WF_vars(Expire)
  /\ \A h \in Helpers : WF_vars(HelperTimesOut(h))
  /\ WF_vars(Continue)

Spec == Init /\ [][Next]_vars /\ Fairness

-----------------------------------------------------------------------------
(* Properties. *)

\* Termination is reported as done only when nothing is left of the tree the
\* listing went through: no descendant that was linked to the child all the
\* while it was listed, however the exits, forks and kills interleaved with it.
VerifiedMeansGone == stage = "returned" => standing \cap alive = {}

\* When the caller is told that termination could not be verified, every
\* captured process that is still there is dying or cannot be killed, and no
\* helper is left running: neither then nor after a success.
NothingSpared ==
  /\ stage = "threw" => captured \cap alive \subseteq killed \cup protected
  /\ stage \in Settled => \A h \in Helpers : outcome[h] # "running"

\* Hanging helpers and unkillable processes notwithstanding, the caller is
\* told an outcome: all the waiting ends at the one deadline.
TerminationEnds == <>(stage \in Settled)
=============================================================================
