---------------------------- MODULE PiRpcProofs ----------------------------
(***************************************************************************)
(* Proofs about PiRpcClient on its own, for any number of requests, output *)
(* limit, callers of close() and process tree, and about the executions    *)
(* and probes of PiRpcRun on top of it.                                    *)
(***************************************************************************)
EXTENDS PiRpcRun, TLAPS

-----------------------------------------------------------------------------
(* The client. *)

\* Every variable of the client and of its process tree has its type.
ClientTypeInv ==
  /\ alive \subseteq Processes
  /\ groupReachable \in BOOLEAN
  /\ termination \in [Terminators -> {"none", "waitGroup", "waitLeader", "done"}]
  /\ child \in {"spawned", "failed", "gone"}
  /\ nextRequestId \in 1 .. MaxRequests + 1
  /\ command \in [Ids -> Commands \cup {NoCommand}]
  /\ pending \subseteq Ids
  /\ outcome \in [Ids -> {"unissued", "pending", "resolved", "rejected"}]
  /\ answer \in [Ids -> Commands \cup {NoCommand}]
  /\ outputBytes \in Nat
  /\ failure \in {"none", "timeout", "output", "process"}
  /\ closing \in BOOLEAN /\ closed \in BOOLEAN
  /\ completion \in {"pending", "resolved", "rejected"}
  /\ closer \in [Closers -> {"idle", "exitWait", "terminating", "finalWait", "returned"}]

\* The requests are matched, and those to come are not settled yet.
RequestInv ==
  /\ RequestsMatched
  /\ \A id \in Ids : outcome[id] = "unissued" <=> id >= nextRequestId

\* completion settles with the 'close' event.
CompletionInv ==
  /\ completion = "pending" <=> ~closed
  /\ completion = "resolved" => closing
  /\ completion = "rejected" => failure # "none"
  /\ closed <=> child = "gone"

\* The process is gone, or has been sent what it cannot ignore.
LeaderEnded == Leader \notin alive \/ Leader \in killed

\* A termination that is over has not spared anybody, whoever asked for it; a
\* close() that has returned has seen the process go, or has terminated it.
TreeInv ==
  /\ closed => Leader \notin alive
  /\ \A t \in Terminators :
       /\ termination[t] = "waitLeader" => ~groupReachable
       /\ termination[t] = "done" => TreeTerminated /\ LeaderEnded
  /\ \A k \in Closers :
       /\ closer[k] = "finalWait" => termination[k] = "done"
       /\ closer[k] = "returned" => closed \/ termination[k] = "done"

ClientInv == ClientTypeInv /\ RequestInv /\ CompletionInv /\ TreeInv

\* Rejecting some of the pending requests leaves the others matched.
LEMMA RejectKeeps ==
  ASSUME ClientTypeInv, RequestInv, NEW ids \in SUBSET pending,
         outcome' = RejectAll(ids), pending' = pending \ ids,
         UNCHANGED <<nextRequestId, command, answer>>,
         failure' # "none" \/ closed' => failure # "none" \/ closed \/ ids = pending
  PROVE  RequestInv'
BY DEF ClientTypeInv, RequestInv, RequestsMatched, RejectAll, Ids

\* Starting a termination spares nobody: who is not signalled is not there, or
\* cannot be signalled.
LEMMA StartKeeps ==
  ASSUME ClientTypeInv, TreeInv, NEW t \in Terminators, StartTermination(t),
         UNCHANGED closed,
         \A k \in Closers : closer'[k] \in {"finalWait", "returned"} => k # t /\ closer'[k] = closer[k]
  PROVE  TreeInv' /\ alive' = alive /\ groupReachable' = groupReachable
         /\ termination' \in [Terminators -> {"none", "waitGroup", "waitLeader", "done"}]
BY TerminatorsAssumption, LeaderAssumption
   DEF ClientTypeInv, TreeInv, StartTermination, TreeTerminated, LeaderEnded, Processes

\* #fail keeps ClientInv, whatever caused it.
LEMMA FailKeeps ==
  ASSUME ClientInv, NEW error \in {"timeout", "output", "process"}, NEW lost \in SUBSET pending,
         Fail(error, lost), outputBytes' \in Nat,
         UNCHANGED <<child, nextRequestId, command, answer, closing, closed, completion, closer>>
  PROVE  ClientInv'
<1> USE DEF ClientInv
<1>1. CASE failure # "none" \/ closed
  <2>1. outcome' = RejectAll(lost) /\ pending' = pending \ lost /\ UNCHANGED <<failure, treeVars>>
    BY <1>1 DEF Fail
  <2>2. RequestInv'
    BY <2>1, RejectKeeps
  <2>3. ClientTypeInv'
    BY <2>1 DEF ClientTypeInv, treeVars, RejectAll, Ids
  <2>4. CompletionInv' /\ TreeInv'
    BY <2>1 DEF CompletionInv, TreeInv, treeVars, TreeTerminated, LeaderEnded
  <2> QED
    BY <2>2, <2>3, <2>4
<1>2. CASE ~(failure # "none" \/ closed)
  <2>1. /\ failure' = error /\ outcome' = RejectAll(pending) /\ pending' = {}
        /\ StartTermination("fail")
    BY <1>2 DEF Fail
  <2>2. RequestInv'
    BY <2>1, RejectKeeps, pending \ pending = {}
  <2>3. /\ TreeInv' /\ alive' = alive /\ groupReachable' = groupReachable
        /\ termination' \in [Terminators -> {"none", "waitGroup", "waitLeader", "done"}]
    <3>1. "fail" \in Terminators /\ \A k \in Closers : k # "fail"
      BY TerminatorsAssumption
    <3> QED
      BY <2>1, <3>1, StartKeeps
  <2>4. ClientTypeInv'
    BY <2>1, <2>3 DEF ClientTypeInv, RejectAll, Ids
  <2>5. CompletionInv'
    BY <1>2, <2>1 DEF CompletionInv
  <2> QED
    BY <2>2, <2>3, <2>4, <2>5
<1> QED
  BY <1>1, <1>2

\* The operating system's steps keep ClientInv.
LEMMA TreeKeeps ==
  ASSUME ClientInv, TreeNext, UNCHANGED clientVars
  PROVE  ClientInv'
<1> USE DEF ClientInv, clientVars
<1>1. RequestInv' /\ CompletionInv'
  BY DEF RequestInv, RequestsMatched, CompletionInv
<1>2. ASSUME NEW d \in Descendants, Fork(d) PROVE ClientTypeInv' /\ TreeInv'
  BY <1>2, LeaderAssumption
  DEF Fork, ClientTypeInv, TreeInv, TreeTerminated, LeaderEnded, Processes
<1>3. ASSUME NEW p \in Processes, Exit(p) PROVE ClientTypeInv' /\ TreeInv'
  BY <1>3 DEF Exit, ClientTypeInv, TreeInv, TreeTerminated, LeaderEnded
<1>4. ASSUME NEW t \in Terminators, EndGrace(t) PROVE ClientTypeInv' /\ TreeInv'
  BY <1>4, TerminatorsAssumption
  DEF EndGrace, Awaited, ClientTypeInv, TreeInv, TreeTerminated, LeaderEnded
<1> QED
  BY <1>1, <1>2, <1>3, <1>4 DEF TreeNext

\* A step that only moves close() calls on keeps ClientInv, if those that are
\* over have seen the process go.
LEMMA CloserKeeps ==
  ASSUME ClientInv, closing' \in BOOLEAN, closing => closing',
         closer' \in [Closers -> {"idle", "exitWait", "terminating", "finalWait", "returned"}],
         \A k \in Closers :
           /\ closer'[k] = "finalWait" => termination[k] = "done"
           /\ closer'[k] = "returned" => closed \/ termination[k] = "done",
         UNCHANGED <<child, nextRequestId, command, pending, outcome, answer, outputBytes,
                     failure, closed, completion, treeVars>>
  PROVE  ClientInv'
BY DEF ClientInv, ClientTypeInv, RequestInv, RequestsMatched, CompletionInv, TreeInv, treeVars,
       TreeTerminated, LeaderEnded

(***************************************************************************)
(* Every step of the client keeps ClientInv.                               *)
(***************************************************************************)
LEMMA ClientStepKeeps ==
  ASSUME ClientInv, [Next]_vars
  PROVE  ClientInv'
<1> USE BoundsAssumption DEF ClientInv, vars, clientVars
<1>1. ASSUME NEW cmd \in Commands, Request(cmd) PROVE ClientInv'
  <2>1. ClientTypeInv' /\ CompletionInv' /\ TreeInv'
    BY <1>1 DEF Request, ClientTypeInv, CompletionInv, TreeInv, treeVars, TreeTerminated,
                LeaderEnded, Ids
  <2>2. RequestInv'
    BY <1>1 DEF Request, ClientTypeInv, RequestInv, RequestsMatched, Ids
  <2> QED
    BY <2>1, <2>2
<1>2. ASSUME NEW id \in Ids, RequestTimeout(id) PROVE ClientInv'
  <2>1. {id} \in SUBSET pending /\ outputBytes' \in Nat
    BY <1>2 DEF RequestTimeout, ClientTypeInv
  <2> QED
    BY <1>2, <2>1, FailKeeps DEF RequestTimeout
<1>3. ASSUME NEW id \in Ids, WriteFails(id) PROVE ClientInv'
  <2>1. ClientTypeInv' /\ CompletionInv' /\ TreeInv'
    BY <1>3 DEF WriteFails, RejectAll, ClientTypeInv, CompletionInv, TreeInv, treeVars,
                TreeTerminated, LeaderEnded
  <2>2. RequestInv'
    BY <1>3, RejectKeeps DEF WriteFails
  <2> QED
    BY <2>1, <2>2
<1>4. CASE ExceedLimit
  BY <1>4, FailKeeps, {} \in SUBSET pending DEF ExceedLimit
<1>5. CASE QuietOutput
  BY <1>5 DEF QuietOutput, Retained, ClientTypeInv, RequestInv, RequestsMatched, CompletionInv,
              TreeInv, treeVars, TreeTerminated, LeaderEnded
<1>6. CASE BadOutput
  <2>1. outputBytes' \in Nat /\ {} \in SUBSET pending
    BY <1>6 DEF BadOutput, Retained, ClientTypeInv
  <2> QED
    BY <1>6, <2>1, FailKeeps DEF BadOutput
<1>7. ASSUME NEW response \in Responses, HandleResponse(response) PROVE ClientInv'
  <2> DEFINE id == response.id
  <2>1. outputBytes' \in Nat /\ {} \in SUBSET pending
    BY <1>7 DEF HandleResponse, Retained, ClientTypeInv
  <2>2. CASE id \notin pending
    BY <1>7, <2>1, <2>2, FailKeeps DEF HandleResponse
  <2>3. CASE id \in pending /\ response.command # command[id]
    BY <1>7, <2>1, <2>3, FailKeeps, {id} \in SUBSET pending DEF HandleResponse
  <2>4. CASE id \in pending /\ response.command = command[id]
    <3>1. /\ pending' = pending \ {id}
          /\ outcome' = [outcome EXCEPT ![id] = IF response.success THEN "resolved" ELSE "rejected"]
          /\ answer' = [answer EXCEPT ![id] = IF response.success THEN response.command ELSE @]
          /\ UNCHANGED <<failure, treeVars, child, nextRequestId, command, closing, closed,
                         completion, closer>>
      BY <1>7, <2>4 DEF HandleResponse
    <3>2. response.command \in Commands /\ id \in Ids
      BY <2>4 DEF Responses, ClientTypeInv
    <3>3. ClientTypeInv'
      BY <2>1, <3>1, <3>2 DEF ClientTypeInv, treeVars
    <3>4. RequestInv'
      BY <2>4, <3>1, <3>2 DEF ClientTypeInv, RequestInv, RequestsMatched
    <3>5. CompletionInv' /\ TreeInv'
      BY <3>1 DEF CompletionInv, TreeInv, treeVars, TreeTerminated, LeaderEnded
    <3> QED
      BY <3>3, <3>4, <3>5
  <2> QED
    BY <2>2, <2>3, <2>4
<1>8. CASE StdinError
  <2>1. outputBytes' \in Nat /\ {} \in SUBSET pending
    BY <1>8 DEF StdinError, ClientTypeInv
  <2> QED
    BY <1>8, <2>1, FailKeeps DEF StdinError
<1>9. CASE ErrorEvent
  <2>1. outputBytes' \in Nat /\ {} \in SUBSET pending
    BY <1>9 DEF ErrorEvent, ClientTypeInv
  <2> QED
    BY <1>9, <2>1, FailKeeps DEF ErrorEvent
<1>10. ASSUME NEW exitCode \in {0, 1}, CloseEvent(exitCode) PROVE ClientInv'
  <2>1. ClientTypeInv'
    BY <1>10 DEF CloseEvent, ExitCause, RejectAll, ClientTypeInv, treeVars
  <2>2. RequestInv'
    BY <1>10, RejectKeeps, pending \ pending = {} DEF CloseEvent
  <2>3. CompletionInv'
    BY <1>10 DEF CloseEvent, ExitCause, ClientTypeInv, CompletionInv
  <2>4. TreeInv'
    BY <1>10 DEF CloseEvent, TreeInv, treeVars, TreeTerminated, LeaderEnded
  <2> QED
    BY <2>1, <2>2, <2>3, <2>4
<1>11. CASE Tree
  BY <1>11, TreeKeeps DEF Tree
<1>12. ASSUME NEW k \in Closers, Close(k) PROVE ClientInv'
  BY <1>12, CloserKeeps DEF Close, ClientTypeInv, TreeInv
<1>13. ASSUME NEW k \in Closers, ExitAwaited(k) PROVE ClientInv'
  <2>1. CASE closed
    BY <1>13, <2>1, CloserKeeps DEF ExitAwaited, ClientTypeInv, TreeInv
  <2>2. CASE ~closed
    <3>1. /\ closer[k] = "exitWait" /\ closer' = [closer EXCEPT ![k] = "terminating"]
          /\ StartTermination(k)
          /\ UNCHANGED <<child, nextRequestId, command, pending, outcome, answer, outputBytes,
                         failure, closing, closed, completion>>
      BY <1>13, <2>2 DEF ExitAwaited
    <3>2. /\ TreeInv' /\ alive' = alive /\ groupReachable' = groupReachable
          /\ termination' \in [Terminators -> {"none", "waitGroup", "waitLeader", "done"}]
      BY <3>1, StartKeeps, TerminatorsAssumption DEF ClientTypeInv
    <3>3. ClientTypeInv' /\ RequestInv' /\ CompletionInv'
      BY <3>1, <3>2 DEF ClientTypeInv, RequestInv, RequestsMatched, CompletionInv
    <3> QED
      BY <3>2, <3>3
  <2> QED
    BY <2>1, <2>2
<1>14. ASSUME NEW k \in Closers, TerminationAwaited(k) PROVE ClientInv'
  BY <1>14, CloserKeeps DEF TerminationAwaited, ClientTypeInv, TreeInv
<1>15. ASSUME NEW k \in Closers, CloseReturns(k) PROVE ClientInv'
  BY <1>15, CloserKeeps DEF CloseReturns, ClientTypeInv, TreeInv
<1>16. CASE UNCHANGED vars
  BY <1>16 DEF ClientTypeInv, RequestInv, RequestsMatched, CompletionInv, TreeInv, treeVars,
               TreeTerminated, LeaderEnded
<1> QED
  BY <1>1, <1>2, <1>3, <1>4, <1>5, <1>6, <1>7, <1>8, <1>9, <1>10, <1>11, <1>12, <1>13, <1>14,
     <1>15, <1>16
  DEF Next, Peer, ProcessEvent, CloseStep, Done

\* A client starts with no request, and with the process alive or not at all.
LEMMA ClientInitInv == ClientInit => ClientInv
<1> SUFFICES ASSUME ClientInit PROVE ClientInv
  OBVIOUS
<1> USE BoundsAssumption, ReachabilityAssumption DEF ClientInit, TreeInit
<1>1. ClientTypeInv
  <2>1. 1 \in 1 .. MaxRequests + 1 /\ NoCommand \in Commands \cup {NoCommand}
    OBVIOUS
  <2>2. alive \subseteq Processes /\ groupReachable \in BOOLEAN
    BY DEF Processes
  <2> QED
    BY <2>1, <2>2 DEF ClientTypeInv
<1>2. RequestInv
  BY DEF RequestInv, RequestsMatched, NoCommand, Ids
<1>3. CompletionInv /\ TreeInv
  BY TerminatorsAssumption DEF CompletionInv, TreeInv
<1> QED
  BY <1>1, <1>2, <1>3 DEF ClientInv

(***************************************************************************)
(* ClientInv holds of a client on its own.                                 *)
(***************************************************************************)
THEOREM ClientInvariant == Spec => []ClientInv
<1>1. ClientInv /\ [Next]_vars => ClientInv'
  BY ClientStepKeeps
<1> QED
  BY <1>1, ClientInitInv, PTL DEF Spec

\* No request is resolved by an answer to another command, or forgotten.
THEOREM RequestsAreMatched == Spec => []RequestsMatched
<1>1. ClientInv => RequestsMatched
  BY DEF ClientInv, RequestInv
<1> QED
  BY <1>1, ClientInvariant, PTL

\* The termination of a failed client spares nothing of a reachable group.
THEOREM FailedTreesTerminated == Spec => []FailedTreeTerminated
<1>1. ClientInv => FailedTreeTerminated
  BY TerminatorsAssumption DEF ClientInv, TreeInv, FailedTreeTerminated
<1> QED
  BY <1>1, ClientInvariant, PTL

\* What no step of the client takes back.
StaysSettled ==
  /\ failure # "none" =>
       /\ failure' = failure
       /\ \A id \in Ids : outcome'[id] = "resolved" => outcome[id] = "resolved"
  /\ \A id \in Ids : outcome[id] \in {"resolved", "rejected"} => outcome'[id] = outcome[id]
  /\ completion # "pending" => completion' = completion

\* A request keeps its number and its command.
StaysIssued ==
  /\ nextRequestId' >= nextRequestId
  /\ \A id \in Ids : id < nextRequestId => command'[id] = command[id]

\* A step of the client takes nothing back.
LEMMA ClientStepStays ==
  ASSUME ClientInv, [Next]_vars
  PROVE  StaysSettled /\ StaysIssued
<1> USE DEF ClientInv, vars, clientVars, StaysSettled, StaysIssued, ClientTypeInv, RequestInv,
            RequestsMatched, RejectAll
<1>1. CASE \E cmd \in Commands : Request(cmd)
  BY <1>1 DEF Request, Ids
<1>2. CASE \E id \in Ids : RequestTimeout(id) \/ WriteFails(id)
  BY <1>2 DEF RequestTimeout, WriteFails, Fail
<1>3. CASE ExceedLimit \/ QuietOutput \/ BadOutput
  BY <1>3 DEF ExceedLimit, QuietOutput, BadOutput, Fail
<1>4. CASE \E response \in Responses : HandleResponse(response)
  BY <1>4 DEF HandleResponse, Fail
<1>5. CASE StdinError \/ ErrorEvent
  BY <1>5 DEF StdinError, ErrorEvent, Fail
<1>6. CASE \E exitCode \in {0, 1} : CloseEvent(exitCode)
  BY <1>6 DEF CloseEvent, ExitCause, CompletionInv
<1>7. CASE \E k \in Closers : Close(k) \/ CloseStep(k)
  BY <1>7 DEF Close, CloseStep, ExitAwaited, TerminationAwaited, CloseReturns
<1>8. CASE Tree \/ Done \/ UNCHANGED vars
  BY <1>8 DEF Tree, Done
<1> QED
  BY <1>1, <1>2, <1>3, <1>4, <1>5, <1>6, <1>7, <1>8 DEF Next, Peer, ProcessEvent

(***************************************************************************)
(* FailureIsFinal: nothing that has been settled is settled again, and the *)
(* first failure stays (#fail and the 'close' handler of rpc-client.ts).   *)
(***************************************************************************)
THEOREM FailureStays == Spec => FailureIsFinal
<1>1. ClientInv /\ [Next]_vars => [StaysSettled]_vars
  BY ClientStepStays
<1>2. ClientInv => /\ completion = "pending" <=> ~closed
                   /\ completion = "resolved" => closing
                   /\ completion = "rejected" => failure # "none"
  BY DEF ClientInv, CompletionInv
<1>3. Spec => [][StaysSettled]_vars
  BY <1>1, ClientInvariant, PTL DEF Spec
<1>4. Spec => [](/\ completion = "pending" <=> ~closed
                 /\ completion = "resolved" => closing
                 /\ completion = "rejected" => failure # "none")
  BY <1>2, ClientInvariant, PTL
<1> QED
  BY <1>3, <1>4 DEF FailureIsFinal, StaysSettled

-----------------------------------------------------------------------------
(* The runs. *)

\* Where the dialogue is in its script, and what has been asked and answered.
DialogueInv ==
  /\ use \in Uses /\ script \in Scripts[use]
  /\ phase \in {"starting", "ask", "asked", "running", "awaitAbort", "finalAsked", "closing", "done"}
  /\ verdict \in {"none", "answered", "failed", "cancelled"}
  /\ verdict # "none" <=> phase \in {"closing", "done"}
  /\ position \in 0 .. Len(script) /\ current \in Nat
  /\ position <= current /\ current < nextRequestId
  /\ settled \in BOOLEAN /\ message \in BOOLEAN
  /\ phase = "starting" => position = 0
  /\ phase \in {"starting", "ask"} => position < Len(script)
  /\ phase = "asked" =>
       position < current /\ position < Len(script) /\ command[current] = script[position + 1]
  /\ phase \in {"running", "awaitAbort"} => ~Probing /\ position = Len(script)
  /\ phase = "finalAsked" =>
       /\ ~Probing /\ position = Len(script) /\ settled /\ message
       /\ position < current /\ command[current] = "get_state"
  /\ verdict = "answered" =>
       /\ position = Len(script)
       /\ ~Probing => /\ settled /\ message
                      /\ command[current] = "get_state" /\ current > Len(script)
  /\ phase = "done" => closer["final"] = "returned"

\* Each request of the script up to here has been answered, and so has the last
\* one of an execution that is.
AnsweredInv ==
  /\ \A i \in 1 .. position : \E id \in Ids :
       command[id] = script[i] /\ outcome[id] = "resolved"
  /\ verdict = "answered" /\ ~Probing => outcome[current] = "resolved"
\* A script is not empty, and its requests are commands of the client.
LEMMA ScriptType ==
  ASSUME NEW u \in Uses, NEW s \in Scripts[u]
  PROVE  s \in Seq(Commands) /\ Len(s) \in Nat \ {0} /\ DOMAIN s = 1 .. Len(s)
<1>1. CASE u = "execute"
  <2> DEFINE model == Configured("set_model")
             thinking == Configured("set_thinking_level")
  <2>1. s = <<"get_state">> \o model \o thinking \o <<"prompt">>
    BY <1>1 DEF Scripts
  <2>2. model \in Seq(Commands) /\ thinking \in Seq(Commands)
    <3>1. ASSUME NEW cmd \in {"set_model", "set_thinking_level"} PROVE Configured(cmd) \in Seq(Commands)
      <4>1. CASE cmd \in ConfiguredCommands
        <5>1. cmd \in Commands
          BY <4>1, CommandsAssumption
        <5> QED
          BY <4>1, <5>1 DEF Configured
      <4>2. CASE cmd \notin ConfiguredCommands
        BY <4>2 DEF Configured
      <4> QED
        BY <4>1, <4>2
    <3> QED
      BY <3>1
  <2>3. <<"get_state">> \in Seq(Commands) /\ <<"prompt">> \in Seq(Commands)
    BY CommandsAssumption
  <2> HIDE DEF model, thinking
  <2> QED
    BY <2>1, <2>2, <2>3
<1>2. CASE u = "probe"
  <2>1. PICK model \in {<<>>, <<"set_model">>} :
          s = <<"get_state">> \o model \o <<"set_thinking_level", "abort">>
    BY <1>2 DEF Scripts
  <2>2. /\ model \in Seq(Commands) /\ <<"get_state">> \in Seq(Commands)
        /\ <<"set_thinking_level", "abort">> \in Seq(Commands)
    <3>1. {"set_model", "set_thinking_level", "get_state", "abort"} \subseteq Commands
      BY <1>2, CommandsAssumption
    <3>2. "set_model" \in Commands /\ "set_thinking_level" \in Commands
          /\ "get_state" \in Commands /\ "abort" \in Commands
      BY <3>1
    <3>3. <<>> \in Seq(Commands) /\ <<"set_model">> \in Seq(Commands)
      BY <3>2
    <3>4. <<"get_state">> \in Seq(Commands) /\ <<"set_thinking_level", "abort">> \in Seq(Commands)
      BY <3>2
    <3> QED
      BY <3>3, <3>4
  <2> QED
    BY <2>1, <2>2
<1> QED
  BY <1>1, <1>2, UsesAssumption

\* The abort of a probe that has not begun: both closers start at once.
CloseBoth ==
  /\ closing' = (closing \/ ~closed)
  /\ closer' = [k \in Closers |-> IF closed THEN "returned" ELSE "exitWait"]
  /\ UNCHANGED <<child, nextRequestId, command, pending, outcome, answer, outputBytes, failure,
                 closed, completion, treeVars>>

\* The abort listener asks the client, or leaves it alone.
LEMMA ListenIsClientStep ==
  ASSUME Listen PROVE [Next]_vars
<1>1. "abort" \in Commands
  BY CommandsAssumption
<1> QED
  BY <1>1 DEF Listen, Next

\* Both closers are closers of the client.
LEMMA CloseIsClientStep ==
  ASSUME Close("abort") \/ Close("final") PROVE [Next]_vars
BY ClosersAssumption DEF Next

\* The dialogue asks the client for a command of its own, or closes it.
LEMMA AskIsClientStep ==
  ASSUME NEW cmd \in Commands, NEW next, Ask(cmd, next) PROVE [Next]_vars
<1>1. CASE Usable
  BY <1>1 DEF Ask, Next
<1>2. CASE ~Usable
  BY <1>2, CloseIsClientStep DEF Ask, Finish
<1> QED
  BY <1>1, <1>2

\* A step of a run is a step of its client, or closes it twice, or leaves it alone.
LEMMA RunStepOfClient ==
  ASSUME DialogueInv, RunNext
  PROVE  [Next]_vars \/ CloseBoth
<1>1. CASE Begin
  BY <1>1, ListenIsClientStep DEF Begin
<1>2. CASE BeginAbortedProbe
  BY <1>2 DEF BeginAbortedProbe, CloseBoth
<1>3. CASE AskNext
  <2>1. script[position + 1] \in Commands
    <3>1. script \in Seq(Commands) /\ position + 1 \in 1 .. Len(script)
      BY <1>3, ScriptType DEF AskNext, DialogueInv
    <3> QED
      BY <3>1
  <2> QED
    BY <1>3, <2>1, AskIsClientStep DEF AskNext
<1>4. CASE Proceed \/ AwaitCancellation \/ ClientClosed
  BY <1>4 DEF Proceed, AwaitCancellation, ClientClosed
<1>5. CASE Certify \/ RequestFails \/ CancellationWins \/ ExitsUnsettled \/ SettledBadly \/ Return
           \/ ExecutionTimeout
  BY <1>5, CloseIsClientStep
  DEF Certify, RequestFails, CancellationWins, ExitsUnsettled, SettledBadly, Return,
      ExecutionTimeout, Finish
<1>6. CASE AskFinalState
  BY <1>6, AskIsClientStep, CommandsAssumption DEF AskFinalState
<1>7. CASE Abort
  BY <1>7, ListenIsClientStep, CloseIsClientStep DEF Abort, ListenToProbe
<1>8. CASE Listener
  BY <1>8, CloseIsClientStep DEF Listener, AbortAnswered, DelayEnds, AbortCloses, Cancel
<1>9. CASE AgentEvent
  BY <1>9 DEF AgentEvent, Next, Peer
<1>10. CASE OtherRecord
  BY <1>10 DEF OtherRecord, Next, Peer
<1>11. CASE ClientEvent
  BY <1>11 DEF ClientEvent, Next
<1>12. CASE TreeNext /\ UNCHANGED <<clientVars, runVars>>
  BY <1>12 DEF Next, Tree
<1>13. CASE RunDone
  BY <1>13 DEF RunDone, allVars
<1> QED
  BY <1>1, <1>2, <1>3, <1>4, <1>5, <1>6, <1>7, <1>8, <1>9, <1>10, <1>11, <1>12, <1>13
  DEF RunNext, Dialogue

\* So its client keeps ClientInv and takes nothing back.
LEMMA RunKeepsClient ==
  ASSUME ClientInv, DialogueInv, [RunNext]_allVars
  PROVE  ClientInv' /\ StaysSettled /\ StaysIssued
<1>1. [Next]_vars \/ CloseBoth
  BY RunStepOfClient DEF allVars
<1>2. CASE [Next]_vars
  BY <1>2, ClientStepKeeps, ClientStepStays
<1>3. CASE CloseBoth
  <2>1. ClientInv'
    BY <1>3, CloserKeeps DEF CloseBoth, ClientInv, ClientTypeInv
  <2>2. StaysSettled /\ StaysIssued
    BY <1>3 DEF CloseBoth, StaysSettled, StaysIssued, ClientInv, ClientTypeInv
  <2> QED
    BY <2>1, <2>2
<1> QED
  BY <1>1, <1>2, <1>3

(***************************************************************************)
(* Every step of a run keeps DialogueInv and AnsweredInv.                  *)
(***************************************************************************)
LEMMA DialogueStepKeeps ==
  ASSUME ClientInv, DialogueInv, [RunNext]_allVars
  PROVE  DialogueInv'
<1>1. /\ nextRequestId \in 1 .. MaxRequests + 1 /\ nextRequestId' \in 1 .. MaxRequests + 1
      /\ nextRequestId' >= nextRequestId
      /\ \A id \in Ids : id < nextRequestId => command'[id] = command[id]
      /\ BoundsAssumption
  BY RunKeepsClient, BoundsAssumption DEF ClientInv, ClientTypeInv, StaysIssued
<1>2. script \in Seq(Commands) /\ Len(script) \in Nat \ {0}
  BY ScriptType DEF DialogueInv
<1> USE DEF DialogueInv, dialogueVars, abortVars, eventVars, runVars, Probing, Ids, ClientInv,
            ClientTypeInv, Close
<1>3. CASE Begin
  BY <1>1, <1>2, <1>3 DEF Begin
<1>4. CASE BeginAbortedProbe
  BY <1>1, <1>2, <1>4 DEF BeginAbortedProbe
<1>5. CASE AskNext
  <2>1. CASE Usable
    BY <1>1, <1>2, <1>5, <2>1 DEF AskNext, Ask, Request
  <2>2. CASE ~Usable
    BY <1>1, <1>2, <1>5, <2>2 DEF AskNext, Ask, Finish
  <2> QED
    BY <2>1, <2>2
<1>6. CASE Proceed
  BY <1>1, <1>2, <1>6 DEF Proceed, vars, clientVars
<1>7. CASE Certify
  BY <1>1, <1>2, <1>7 DEF Certify
<1>8. CASE RequestFails \/ CancellationWins \/ ExitsUnsettled \/ SettledBadly \/ ExecutionTimeout
  BY <1>1, <1>2, <1>8
  DEF RequestFails, CancellationWins, ExitsUnsettled, SettledBadly, ExecutionTimeout, Finish
<1>9. CASE AwaitCancellation
  BY <1>1, <1>2, <1>9 DEF AwaitCancellation, vars, clientVars
<1>10. CASE AskFinalState
  <2>1. CASE Usable
    BY <1>1, <1>2, <1>10, <2>1 DEF AskFinalState, Ask, Request
  <2>2. CASE ~Usable
    BY <1>1, <1>2, <1>10, <2>2 DEF AskFinalState, Ask, Finish
  <2> QED
    BY <2>1, <2>2
<1>11. CASE Return
  BY <1>1, <1>2, <1>11 DEF Return, Finish
<1>12. CASE ClientClosed
  BY <1>1, <1>2, <1>12 DEF ClientClosed, vars, clientVars
<1>13. CASE Abort
  BY <1>1, <1>2, <1>13 DEF Abort, ListenToProbe, Listen, Request, vars, clientVars
<1>14. CASE Listener
  <2>1. CASE AbortAnswered \/ DelayEnds \/ Cancel
    BY <1>1, <1>2, <2>1 DEF AbortAnswered, DelayEnds, Cancel, vars, clientVars
  <2>2. CASE AbortCloses
    BY <1>1, <1>2, <2>2, ClosersAssumption DEF AbortCloses
  <2> QED
    BY <1>14, <2>1, <2>2 DEF Listener
<1>15. CASE AgentEvent
  <2>1. /\ UNCHANGED <<use, script, dialogueVars, nextRequestId, command, closer>>
        /\ settled' \in {settled, TRUE} /\ message' \in {message, TRUE}
    BY <1>15 DEF AgentEvent, QuietOutput
  <2>2. settled \in BOOLEAN /\ message \in BOOLEAN
    OBVIOUS
  <2>3. /\ settled' \in BOOLEAN /\ message' \in BOOLEAN
        /\ settled = TRUE => settled' = TRUE
        /\ message = TRUE => message' = TRUE
    BY <2>1, <2>2
  <2> QED
    BY <1>1, <1>2, <2>1, <2>3
<1>16. CASE OtherRecord
  BY <1>1, <1>2, <1>16 DEF OtherRecord, ExceedLimit, BadOutput, HandleResponse
<1>17. CASE ClientEvent
  <2>1. /\ UNCHANGED <<runVars, nextRequestId, command>>
        /\ closer["final"] = "returned" => closer'["final"] = "returned"
    BY <1>17, ClosersAssumption
    DEF ClientEvent, RequestTimeout, WriteFails, ProcessEvent, StdinError, ErrorEvent, CloseEvent,
        CloseStep, ExitAwaited, TerminationAwaited, CloseReturns
  <2> QED
    BY <1>1, <1>2, <2>1
<1>18. CASE TreeNext /\ UNCHANGED <<clientVars, runVars>>
  BY <1>1, <1>2, <1>18 DEF clientVars
<1>19. CASE RunDone \/ UNCHANGED allVars
  BY <1>1, <1>2, <1>19 DEF RunDone, allVars, vars, clientVars
<1> QED
  BY <1>3, <1>4, <1>5, <1>6, <1>7, <1>8, <1>9, <1>10, <1>11, <1>12, <1>13, <1>14, <1>15, <1>16,
     <1>17, <1>18, <1>19
  DEF RunNext, Dialogue

\* What has been answered stays answered.
LEMMA AnsweredStepKeeps ==
  ASSUME ClientInv, DialogueInv, AnsweredInv, [RunNext]_allVars
  PROVE  AnsweredInv'
<1>1. /\ StaysSettled /\ StaysIssued /\ ClientTypeInv /\ RequestInv
      /\ position \in 0 .. Len(script) /\ Len(script) \in Nat
  BY RunKeepsClient, ScriptType DEF ClientInv, DialogueInv
<1>2. \A id \in Ids : outcome[id] = "resolved" => outcome'[id] = "resolved" /\ command'[id] = command[id]
  BY <1>1 DEF StaysSettled, StaysIssued, ClientTypeInv, RequestInv, Ids
<1>3. \A i \in 1 .. position' : \E id \in Ids : command'[id] = script'[i] /\ outcome'[id] = "resolved"
  <2>1. CASE UNCHANGED <<position, script>>
    BY <1>2, <2>1 DEF AnsweredInv
  <2>2. CASE Proceed \/ Certify
    <3>1. /\ position' = position + 1 /\ script' = script
          /\ phase = "asked" /\ outcome[current] = "resolved"
      BY <2>2 DEF Proceed, Certify
    <3>2. current \in Ids /\ command[current] = script[position + 1]
      BY <1>1, <3>1, BoundsAssumption DEF DialogueInv, ClientTypeInv, Ids
    <3> QED
      BY <1>1, <1>2, <3>1, <3>2 DEF AnsweredInv
  <2>3. UNCHANGED <<position, script>> \/ Proceed \/ Certify
    BY DEF RunNext, Dialogue, Begin, BeginAbortedProbe, AskNext, Ask, Finish, RequestFails,
       CancellationWins, ExitsUnsettled, AwaitCancellation, SettledBadly, AskFinalState, Return,
       ClientClosed, ExecutionTimeout, Abort, Listener, AbortAnswered, DelayEnds, AbortCloses,
       Cancel, AgentEvent, OtherRecord, ClientEvent, RunDone, allVars, runVars, dialogueVars
  <2> QED
    BY <2>1, <2>2, <2>3
<1>4. current \in Ids \/ current = 0
  BY <1>1, BoundsAssumption DEF DialogueInv, ClientTypeInv, Ids
<1>5. verdict' = "answered" /\ ~Probing' => outcome'[current'] = "resolved"
  <2>1. CASE verdict = "answered" /\ UNCHANGED <<use, verdict, current>>
    <3>1. ~Probing => current \in Ids
      BY <1>1, <1>4, <2>1 DEF DialogueInv
    <3> QED
      BY <1>2, <2>1, <3>1 DEF AnsweredInv, Probing
  <2>2. CASE Return
    BY <1>1, <1>2, <1>4, <2>2 DEF Return, Finish, DialogueInv
  <2>3. CASE Certify
    BY <2>3 DEF Certify, Probing
  <2>4. verdict' # "answered" \/ Return \/ Certify
          \/ (verdict = "answered" /\ UNCHANGED <<use, verdict, current>>)
    BY DEF DialogueInv, RunNext, Dialogue, Begin, BeginAbortedProbe, AskNext, Ask, Finish, Proceed,
       RequestFails, CancellationWins, ExitsUnsettled, AwaitCancellation, SettledBadly,
       AskFinalState, ClientClosed, ExecutionTimeout, Abort, Listener, AbortAnswered, DelayEnds,
       AbortCloses, Cancel, AgentEvent, OtherRecord, ClientEvent, RunDone, allVars, runVars,
       dialogueVars
  <2> QED
    BY <2>1, <2>2, <2>3, <2>4
<1> QED
  BY <1>3, <1>5 DEF AnsweredInv

\* A run starts with nothing asked.
LEMMA RunInitInv == Init => ClientInv /\ DialogueInv /\ AnsweredInv
<1> SUFFICES ASSUME Init PROVE ClientInv /\ DialogueInv /\ AnsweredInv
  OBVIOUS
<1>1. ClientInv
  BY ClientInitInv DEF Init
<1>2. Len(script) \in Nat \ {0}
  BY ScriptType DEF Init
<1>3. DialogueInv
  <2>1. position \in 0 .. Len(script) /\ current \in Nat /\ position < Len(script)
        /\ position <= current /\ current < nextRequestId
    BY <1>2 DEF Init, ClientInit
  <2> QED
    BY <2>1 DEF Init, DialogueInv
<1>4. AnsweredInv
  BY DEF Init, AnsweredInv
<1> QED
  BY <1>1, <1>3, <1>4

(***************************************************************************)
(* The invariants of a run and its client.                                 *)
(***************************************************************************)
THEOREM DialogueInvariant == RunSpec => [](ClientInv /\ DialogueInv /\ AnsweredInv)
<1>1. ClientInv /\ DialogueInv /\ AnsweredInv /\ [RunNext]_allVars
        => (ClientInv /\ DialogueInv /\ AnsweredInv)'
  BY RunKeepsClient, DialogueStepKeeps, AnsweredStepKeeps
<1> QED
  BY <1>1, RunInitInv, PTL DEF RunSpec

\* An answer is returned, and a probe available, only after the whole dialogue.
THEOREM AnswersAreEarned == RunSpec => []AnswerIsEarned
<1>1. ClientInv /\ DialogueInv /\ AnsweredInv => AnswerIsEarned
  <2> SUFFICES ASSUME ClientInv, DialogueInv, AnsweredInv, verdict = "answered"
               PROVE  /\ position = Len(script)
                      /\ \A cmd \in ToSet(script) : \E id \in Ids :
                           command[id] = cmd /\ outcome[id] = "resolved"
                      /\ ~Probing => /\ settled /\ message
                                     /\ command[current] = "get_state" /\ current > Len(script)
                                     /\ outcome[current] = "resolved"
    BY DEF AnswerIsEarned
  <2>1. DOMAIN script = 1 .. Len(script)
    BY ScriptType DEF DialogueInv
  <2> QED
    BY <2>1 DEF DialogueInv, AnsweredInv, ToSet
<1> QED
  BY <1>1, DialogueInvariant, PTL

\* Whoever closed the client, and how often, no process is left running.
THEOREM NoProcessIsLeft == RunSpec => []NoProcessLeft
<1>1. ClientInv /\ DialogueInv => NoProcessLeft
  BY ClosersAssumption, TerminatorsAssumption
  DEF ClientInv, TreeInv, LeaderEnded, DialogueInv, NoProcessLeft
<1> QED
  BY <1>1, DialogueInvariant, PTL
====
