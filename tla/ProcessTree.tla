---------------------------- MODULE ProcessTree ----------------------------
(***************************************************************************)
(* A spawned command, the processes it forks, and terminateProcessTree on  *)
(* POSIX (adapters/cli/termination.ts).  The command is spawned detached,  *)
(* so it leads a process group that its descendants stay in (a descendant  *)
(* that leaves the group is out of this code's reach, and of the model).   *)
(*                                                                         *)
(* Several callers may terminate the same tree; each goes through its own  *)
(* SIGTERM, grace period and SIGKILL.  Time is abstract: a grace period    *)
(* may end at any moment, early only if nothing is left to wait for.       *)
(***************************************************************************)
EXTENDS FiniteSets

CONSTANTS
  Leader,        \* the spawned process
  Descendants,   \* names for the processes it may fork
  Terminators,   \* the places that call terminateProcessTree
  Reachability   \* the values groupReachable may have

ASSUME LeaderAssumption == Leader \notin Descendants
ASSUME ReachabilityAssumption == Reachability \subseteq BOOLEAN

VARIABLES
  alive,         \* processes that exist
  termed,        \* processes SIGTERM has been sent to
  killed,        \* processes SIGKILL has been sent to
  stubborn,      \* processes that ignore SIGTERM (never changes)
  groupReachable,\* may the group be signalled? (not after a change of user)
  termination    \* of each call: none, waitGroup, waitLeader, done

treeVars == <<alive, termed, killed, stubborn, groupReachable, termination>>

Processes == Descendants \cup {Leader}

TreeInit(spawned) ==
  /\ alive = spawned
  /\ termed = {}
  /\ killed = {}
  /\ stubborn \in SUBSET Processes
  /\ groupReachable \in Reachability
  /\ termination = [t \in Terminators |-> "none"]

-----------------------------------------------------------------------------
(* The operating system. *)

SpawnLeader ==
  /\ alive' = {Leader}
  /\ UNCHANGED <<termed, killed, stubborn, groupReachable, termination>>

\* A name can be used again: the new process has no signal pending.
Fork(d) ==
  /\ alive \ killed # {}
  /\ d \in Descendants \ alive
  /\ alive' = alive \cup {d}
  /\ termed' = termed \ {d}
  /\ killed' = killed \ {d}
  /\ UNCHANGED <<stubborn, groupReachable, termination>>

\* A process may end by itself at any time.
Exit(p) ==
  /\ p \in alive
  /\ alive' = alive \ {p}
  /\ UNCHANGED <<termed, killed, stubborn, groupReachable, termination>>

\* Those that have to end.
Doomed(p) == p \in killed \/ p \in termed \ stubborn

-----------------------------------------------------------------------------
(* terminateProcessTree. *)

\* Signals the group; if that fails (there is no such group, or it may not be
\* signalled) the leader; if that fails too there is nothing left to do.
StartTermination(t) ==
  LET targets == IF groupReachable THEN alive ELSE alive \cap {Leader}
      next == IF targets = {} THEN "done"
              ELSE IF groupReachable THEN "waitGroup" ELSE "waitLeader"
  IN  /\ termination' = [termination EXCEPT ![t] = next]
      /\ termed' = termed \cup targets
      /\ UNCHANGED <<alive, killed, stubborn, groupReachable>>

\* The processes the grace period of t is given to.
Awaited(t) == IF termination[t] = "waitGroup" THEN alive ELSE alive \cap {Leader}

\* Mutants: what is left is spared (FailedTreeTerminated); the grace
\* period never ends (Settles).
EndGraceSpares(t) ==
  /\ termination[t] \in {"waitGroup", "waitLeader"}
  /\ termination' = [termination EXCEPT ![t] = "done"]
  /\ UNCHANGED <<alive, termed, killed, stubborn, groupReachable>>
EndGraceWaits(t) ==
  /\ termination[t] \in {"waitGroup", "waitLeader"} /\ Awaited(t) = {}
  /\ termination' = [termination EXCEPT ![t] = "done"]
  /\ UNCHANGED <<alive, termed, killed, stubborn, groupReachable>>

\* Nothing is left, or the grace period is over: what is left is killed, and
\* its end is not waited for.
EndGrace(t) ==
  /\ termination[t] \in {"waitGroup", "waitLeader"}
  /\ killed' = killed \cup Awaited(t)
  /\ termination' = [termination EXCEPT ![t] = "done"]
  /\ UNCHANGED <<alive, termed, stubborn, groupReachable>>

TreeNext ==
  \/ \E d \in Descendants : Fork(d)
  \/ \E p \in Processes : Exit(p)
  \/ \E t \in Terminators : EndGrace(t)

\* Once a termination is over, all that is left of a reachable group is dying.
TreeTerminated == groupReachable => alive \subseteq killed
=============================================================================
