-------------------------- MODULE CliProcessProofs --------------------------
(***************************************************************************)
(* Proofs about runCliProcess for any process tree, output limit and chunk *)
(* size.                                                                   *)
(***************************************************************************)
EXTENDS CliProcess, TLAPS

TerminalErrors == {"cancelled", "timeout", "output_limit"}

\* What a termination that is over leaves behind.
Cleared == IF groupReachable THEN alive \subseteq killed ELSE alive \cap {Leader} \subseteq killed

TypeInv ==
  /\ alive \subseteq Processes
  /\ groupReachable \in BOOLEAN
  /\ termination \in [Terminators -> {"none", "waitGroup", "waitLeader", "done"}]
  /\ stage \in {"entry", "resolving", "process"}
  /\ aborted \in BOOLEAN /\ listener \in BOOLEAN /\ timer \in BOOLEAN /\ dropped \in BOOLEAN
  /\ child \in {"none", "failed", "spawned", "closed"}
  /\ stdout \in Nat /\ stderr \in Nat
  /\ terminalError \in TerminalErrors \cup {"none"}
  /\ outcome \in TerminalErrors \cup {"pending", "resolved", "executable_not_found", "spawn", "exit"}

\* Before the child exists nothing is armed; while it runs and nothing has been
\* decided the abort listener is there, and an abort is what has been decided.
StageInv ==
  /\ stage # "process" => child = "none" /\ ~timer /\ ~listener /\ terminalError = "none"
  /\ stage = "process" /\ Pending => child # "none" /\ (~aborted => listener)
  /\ stage = "process" /\ Pending /\ aborted => terminalError # "none"
  /\ listener \/ timer => Pending
  /\ child = "spawned" => Pending

\* The tree is being terminated once there is a terminal error, and then only
\* the end of the termination settles the promise.
TerminationInv ==
  /\ terminalError = "none" <=> termination["run"] = "none"
  /\ outcome = terminalError => termination["run"] = "done"
  /\ termination["run"] = "waitGroup" => groupReachable
  /\ termination["run"] = "waitLeader" => ~groupReachable
  /\ termination["run"] = "done" => Cleared

\* Output that was not kept has a terminal error for its reason.
OutputInv ==
  /\ outputBytes <= MaxOutput
  /\ dropped => terminalError # "none"
  /\ terminalError # "none" => outcome # "resolved"

RunInv == TypeInv /\ StageInv /\ TerminationInv /\ OutputInv

(***************************************************************************)
(* RunInv is inductive.                                                    *)
(***************************************************************************)
THEOREM RunInvariant == Spec => []RunInv
<1> USE OutputAssumption, TerminatorAssumption, LeaderAssumption, ReachabilityAssumption
        DEF runVars, treeVars
<1>1. Init => RunInv
  <2> SUFFICES ASSUME Init PROVE RunInv
    OBVIOUS
  <2> USE DEF Init, TreeInit
  <2>1. TypeInv
    BY DEF TypeInv, TerminalErrors
  <2>2. StageInv
    BY DEF StageInv, Pending
  <2>3. TerminationInv
    BY DEF TerminationInv
  <2>4. OutputInv
    BY DEF OutputInv, outputBytes
  <2> QED
    BY <2>1, <2>2, <2>3, <2>4 DEF RunInv
<1>2. RunInv /\ [Next]_vars => RunInv'
  <2> SUFFICES ASSUME RunInv, [Next]_vars PROVE RunInv'
    OBVIOUS
  <2> USE DEF RunInv, TypeInv, StageInv, TerminationInv, OutputInv, Cleared, TerminalErrors,
              Pending, outputBytes, Processes
  <2>1. ASSUME Enter PROVE RunInv'
    BY <2>1 DEF Enter, Settle
  <2>2. ASSUME ResolveFails PROVE RunInv'
    BY <2>2 DEF ResolveFails, Settle
  <2>3. ASSUME ResolvedAborted PROVE RunInv'
    BY <2>3 DEF ResolvedAborted, Settle
  <2>4. ASSUME SpawnThrows PROVE RunInv'
    BY <2>4 DEF SpawnThrows, Settle
  <2>5. ASSUME NEW kind \in {"spawned", "failed"}, Spawn(kind) PROVE RunInv'
    BY <2>5 DEF Spawn, SpawnLeader
  <2>6. ASSUME NEW stream \in Streams, NEW size \in 1 .. MaxChunk, Data(stream, size) PROVE RunInv'
    <3> DEFINE retained == IF size <= Remaining(stream) THEN size ELSE Remaining(stream)
    <3>1. retained \in Nat /\ retained <= MaxOutput - outputBytes
      BY DEF Remaining
    <3>2. CASE terminalError # "none" \/ ~Pending
      BY <2>6, <3>2 DEF Data
    <3>3. CASE terminalError = "none" /\ Pending
      <4>1. /\ stdout' \in Nat /\ stderr' \in Nat /\ outputBytes' <= MaxOutput
            /\ child = "spawned" /\ dropped' \in BOOLEAN /\ (dropped' => dropped \/ retained < size)
            /\ UNCHANGED <<stage, aborted, listener, child, outcome>>
        BY <2>6, <3>1, <3>3 DEF Data, Streams
      <4>2. CASE retained < size
        <5>1. TerminateWith("output_limit")
          BY <2>6, <3>3, <4>2 DEF Data
        <5> HIDE DEF retained, outputBytes
        <5> QED
          BY <3>3, <4>1, <5>1 DEF TerminateWith, StartTermination
      <4>3. CASE ~(retained < size)
        <5>1. UNCHANGED <<terminalError, timer, treeVars>>
          BY <2>6, <3>3, <4>3 DEF Data
        <5> HIDE DEF retained, outputBytes
        <5> QED
          BY <3>3, <4>1, <4>3, <5>1
      <4> QED
        BY <4>2, <4>3
    <3> QED
      BY <3>2, <3>3
  <2>7. ASSUME Timeout PROVE RunInv'
    BY <2>7 DEF Timeout, TerminateWith, StartTermination
  <2>8. ASSUME Abort PROVE RunInv'
    BY <2>8 DEF Abort, TerminateWith, StartTermination
  <2>9. ASSUME ErrorEvent PROVE RunInv'
    BY <2>9 DEF ErrorEvent, Undecided, Settle
  <2>10. ASSUME NEW verdict \in {"resolved", "exit"}, CloseEvent(verdict) PROVE RunInv'
    BY <2>10 DEF CloseEvent, Undecided, Settle
  <2>11. ASSUME TerminationSettles PROVE RunInv'
    BY <2>11 DEF TerminationSettles, Settle
  <2>12. ASSUME NEW d \in Descendants, Fork(d), UNCHANGED runVars PROVE RunInv'
    BY <2>12 DEF Fork
  <2>13. ASSUME NEW p \in Processes, Exit(p), UNCHANGED runVars PROVE RunInv'
    BY <2>13 DEF Exit
  <2>14. ASSUME NEW t \in Terminators, EndGrace(t), UNCHANGED runVars PROVE RunInv'
    BY <2>14 DEF EndGrace, Awaited
  <2>15. CASE UNCHANGED vars
    BY <2>15 DEF vars
  <2> QED
    BY <2>1, <2>2, <2>3, <2>4, <2>5, <2>6, <2>7, <2>8, <2>9, <2>10, <2>11, <2>12, <2>13, <2>14, <2>15 DEF Next, Tree, TreeNext, Done
<1> QED
  BY <1>1, <1>2, PTL DEF Spec

\* The retained output stays within the limit, cut output never resolves, and
\* nothing stays armed.
THEOREM Bounded == Spec => []ResourcesBounded
<1>1. RunInv => ResourcesBounded
  BY DEF RunInv, TypeInv, StageInv, TerminationInv, OutputInv, ResourcesBounded, Pending
<1> QED
  BY <1>1, RunInvariant, PTL

\* No process of a reachable group survives the report unkilled.
THEOREM NobodySurvives == Spec => []NoSurvivors
<1>1. RunInv => NoSurvivors
  BY DEF RunInv, TerminationInv, Cleared, NoSurvivors
<1> QED
  BY <1>1, RunInvariant, PTL

\* What the action property says of one step.
CauseStays ==
  terminalError # "none" =>
    /\ terminalError' = terminalError
    /\ Pending => outcome' \in {"pending", terminalError}

\* An aborted call that has not resolved.
AbortedUnresolved == aborted /\ outcome # "resolved"

(***************************************************************************)
(* FirstCauseWins: the terminal error is decided once, and an abort before *)
(* the promise has settled decides it for good.                            *)
(***************************************************************************)
THEOREM FirstCause == Spec => FirstCauseWins
<1> USE DEF runVars, treeVars
<1>1. RunInv /\ [Next]_vars => [CauseStays]_vars
  <2> SUFFICES ASSUME RunInv, Next PROVE CauseStays \/ UNCHANGED vars
    OBVIOUS
  <2> USE DEF CauseStays, RunInv, TypeInv, StageInv, TerminationInv, Pending, Settle, TerminateWith
  <2>1. CASE Enter \/ ResolveFails \/ ResolvedAborted \/ SpawnThrows
    BY <2>1 DEF Enter, ResolveFails, ResolvedAborted, SpawnThrows
  <2>2. CASE \E kind \in {"spawned", "failed"} : Spawn(kind)
    BY <2>2 DEF Spawn
  <2>3. CASE \E stream \in Streams, size \in 1 .. MaxChunk : Data(stream, size)
    BY <2>3 DEF Data
  <2>4. CASE Timeout \/ Abort
    BY <2>4 DEF Timeout, Abort
  <2>5. CASE ErrorEvent \/ TerminationSettles
    BY <2>5 DEF ErrorEvent, TerminationSettles, Undecided
  <2>6. CASE \E verdict \in {"resolved", "exit"} : CloseEvent(verdict)
    BY <2>6 DEF CloseEvent, Undecided
  <2>7. CASE Tree \/ Done
    BY <2>7 DEF Tree, Done
  <2> QED
    BY <2>1, <2>2, <2>3, <2>4, <2>5, <2>6, <2>7 DEF Next
<1>2. RunInv /\ AbortedUnresolved /\ [Next]_vars => AbortedUnresolved'
  <2> SUFFICES ASSUME RunInv, AbortedUnresolved, [Next]_vars PROVE AbortedUnresolved'
    OBVIOUS
  <2> USE DEF AbortedUnresolved, RunInv, TypeInv, StageInv, TerminationInv, TerminalErrors, Pending,
              Settle
  <2>1. CASE Enter \/ ResolveFails \/ ResolvedAborted \/ SpawnThrows
    BY <2>1 DEF Enter, ResolveFails, ResolvedAborted, SpawnThrows
  <2>2. CASE \E kind \in {"spawned", "failed"} : Spawn(kind)
    BY <2>2 DEF Spawn
  <2>3. CASE \E stream \in Streams, size \in 1 .. MaxChunk : Data(stream, size)
    BY <2>3 DEF Data
  <2>4. CASE Timeout \/ Abort
    BY <2>4 DEF Timeout, Abort
  <2>5. CASE ErrorEvent \/ TerminationSettles
    BY <2>5 DEF ErrorEvent, TerminationSettles
  <2>6. CASE \E verdict \in {"resolved", "exit"} : CloseEvent(verdict)
    BY <2>6 DEF CloseEvent, Undecided
  <2>7. CASE Tree \/ Done \/ UNCHANGED vars
    BY <2>7 DEF Tree, Done, vars
  <2> QED
    BY <2>1, <2>2, <2>3, <2>4, <2>5, <2>6, <2>7 DEF Next
<1>3. aborted /\ Pending => AbortedUnresolved
  BY DEF AbortedUnresolved, Pending
<1>4. AbortedUnresolved => outcome # "resolved"
  BY DEF AbortedUnresolved
<1>5. Spec => [][CauseStays]_vars
  BY <1>1, RunInvariant, PTL DEF Spec
<1>6. Spec => [](aborted /\ Pending => [](outcome # "resolved"))
  BY <1>2, <1>3, <1>4, RunInvariant, PTL DEF Spec
<1> QED
  BY <1>5, <1>6 DEF FirstCauseWins, CauseStays
=============================================================================
