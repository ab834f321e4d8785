---------------------------- MODULE PiRpcClient ----------------------------
(***************************************************************************)
(* PiRpcClient (adapters/pi-rpc/rpc-client.ts): the JSONL request client   *)
(* of one `pi --mode rpc` process.  Requests are correlated by id, time    *)
(* out one by one, and share one fate: the first failure rejects all of    *)
(* them and terminates the process.  close() may be called from several    *)
(* places at once, also while a failure is terminating the process.        *)
(*                                                                         *)
(* The process behind the pipes may write any record at any time, exit,    *)
(* or hang.  One action handles one record, timer, event or promise.       *)
(***************************************************************************)
EXTENDS ProcessTree, Naturals

CONSTANTS
  Commands,     \* request types
  MaxRequests,  \* bound: requests a client makes
  MaxOutput,    \* maxOutputBytes, in units
  Closers       \* the callers of close()

ASSUME BoundsAssumption == MaxRequests \in Nat /\ MaxOutput \in Nat
ASSUME TerminatorsAssumption == Terminators = Closers \cup {"fail"} /\ "fail" \notin Closers

VARIABLES
  child,         \* spawned, failed (will report an error), or gone ('close' seen)
  nextRequestId,
  command,       \* the command each request was made with
  pending,       \* ids in #pending, each with its timer running
  outcome,       \* what each request's promise settled with
  answer,        \* the command named by the response that resolved it
  outputBytes,
  failure,       \* timeout, output (malformed, too much, or refused by onEvent), or
                 \* process (it cannot be reached or used)
  closing,
  closed,
  completion,    \* the completion promise
  closer         \* progress of each close() call

clientVars == <<child, nextRequestId, command, pending, outcome, answer, outputBytes,
                failure, closing, closed, completion, closer>>
vars == <<clientVars, treeVars>>

Ids == 1 .. MaxRequests
NoCommand == "none"

\* What a response record may say; 0 stands for an id never issued.
Responses == [id : Ids \cup {0}, command : Commands, success : BOOLEAN]

ClientInit ==
  /\ child \in {"spawned", "failed"}
  /\ TreeInit(IF child = "spawned" THEN {Leader} ELSE {})
  /\ nextRequestId = 1
  /\ command = [id \in Ids |-> NoCommand]
  /\ pending = {}
  /\ outcome = [id \in Ids |-> "unissued"]
  /\ answer = [id \in Ids |-> NoCommand]
  /\ outputBytes = 0
  /\ failure = "none"
  /\ closing = FALSE
  /\ closed = FALSE
  /\ completion = "pending"
  /\ closer = [k \in Closers |-> "idle"]

-----------------------------------------------------------------------------
(* Requests. *)

\* request() of a usable client; an unusable one rejects and changes nothing.
Request(cmd) ==
  /\ failure = "none" /\ ~closing /\ ~closed
  /\ nextRequestId \in Ids
  /\ nextRequestId' = nextRequestId + 1
  /\ command' = [command EXCEPT ![nextRequestId] = cmd]
  /\ pending' = pending \cup {nextRequestId}
  /\ outcome' = [outcome EXCEPT ![nextRequestId] = "pending"]
  /\ UNCHANGED <<child, answer, outputBytes, failure, closing, closed, completion, closer,
                 treeVars>>

\* #rejectPending, of the requests that are still in the map.
RejectAll(ids) == [id \in Ids |-> IF id \in ids THEN "rejected" ELSE outcome[id]]

\* Mutant (FailureIsFinal): a later failure replaces the first.
FailAgain(error, lost) ==
  /\ failure' = error
  /\ outcome' = RejectAll(pending)
  /\ pending' = {}
  /\ StartTermination("fail")

\* #fail, with `lost` the request that caused it (already rejected and deleted).
\* A client that has failed or is closed keeps its first failure, and the other
\* requests.
Fail(error, lost) ==
  IF failure # "none" \/ closed
  THEN /\ outcome' = RejectAll(lost)
       /\ pending' = pending \ lost
       /\ UNCHANGED <<failure, treeVars>>
  ELSE /\ failure' = error
       /\ outcome' = RejectAll(pending)
       /\ pending' = {}
       /\ StartTermination("fail")

\* A request's timer is cleared when it leaves the map.
RequestTimeout(id) ==
  /\ id \in pending
  /\ Fail("timeout", {id})
  /\ UNCHANGED <<child, nextRequestId, command, answer, outputBytes, closing, closed,
                 completion, closer>>

\* The write callback reports an error: only that request is rejected.
WriteFails(id) ==
  /\ id \in pending
  /\ pending' = pending \ {id}
  /\ outcome' = RejectAll({id})
  /\ UNCHANGED <<child, nextRequestId, command, answer, outputBytes, failure, closing,
                 closed, completion, closer, treeVars>>

-----------------------------------------------------------------------------
(* Output of the process. *)

\* #retainOutput, one aggregate bound for both streams.  A unit of output is
\* larger than most records, so a record may or may not use up another one.
\* A close() that has returned has destroyed the pipes.
Readable ==
  /\ child = "spawned" /\ outputBytes <= MaxOutput
  /\ \A k \in Closers : closer[k] # "returned"
Retained ==
  /\ outputBytes' \in {outputBytes, outputBytes + 1}
  /\ outputBytes' <= MaxOutput

\* The chunk that exceeds the limit is not looked at.
ExceedLimit ==
  /\ Readable
  /\ outputBytes' = MaxOutput + 1
  /\ Fail("output", {})
  /\ UNCHANGED <<child, nextRequestId, command, answer, closing, closed, completion, closer>>

\* stderr, or an event that onEvent accepts.
QuietOutput ==
  /\ Readable /\ Retained
  /\ UNCHANGED <<child, nextRequestId, command, pending, outcome, answer, failure, closing,
                 closed, completion, closer, treeVars>>

\* An empty, malformed or untyped line, a malformed response, or an event
\* whose handler throws.
BadOutput ==
  /\ Readable /\ Retained
  /\ Fail("output", {})
  /\ UNCHANGED <<child, nextRequestId, command, answer, closing, closed, completion, closer>>

\* Mutant (RequestsMatched): the command of the response is not compared.
HandleAnyResponse(response) ==
  /\ Readable /\ Retained
  /\ LET id == response.id
     IN  IF id \notin pending
         THEN Fail("output", {}) /\ UNCHANGED answer
         ELSE /\ pending' = pending \ {id}
              /\ outcome' = [outcome EXCEPT ![id] =
                   IF response.success THEN "resolved" ELSE "rejected"]
              /\ answer' = [answer EXCEPT ![id] =
                   IF response.success THEN response.command ELSE @]
              /\ UNCHANGED <<failure, treeVars>>
  /\ UNCHANGED <<child, nextRequestId, command, closing, closed, completion, closer>>

\* #handleResponse: an id that is not pending and a command that is not the
\* request's are failures of the client, success = false of the request only.
HandleResponse(response) ==
  /\ Readable /\ Retained
  /\ LET id == response.id
     IN  IF id \notin pending
         THEN Fail("output", {}) /\ UNCHANGED answer
         ELSE IF response.command # command[id]
         THEN Fail("output", {id}) /\ UNCHANGED answer
         ELSE /\ pending' = pending \ {id}
              /\ outcome' = [outcome EXCEPT ![id] =
                   IF response.success THEN "resolved" ELSE "rejected"]
              /\ answer' = [answer EXCEPT ![id] =
                   IF response.success THEN response.command ELSE @]
              /\ UNCHANGED <<failure, treeVars>>
  /\ UNCHANGED <<child, nextRequestId, command, closing, closed, completion, closer>>

-----------------------------------------------------------------------------
(* Events of the process. *)

StdinError ==
  /\ child = "spawned" /\ ~closing
  /\ Fail("process", {})
  /\ UNCHANGED <<child, nextRequestId, command, answer, outputBytes, closing, closed,
                 completion, closer>>

\* The 'error' event of a process that could not be started.
ErrorEvent ==
  /\ child = "failed" /\ failure = "none"
  /\ Fail("process", {})
  /\ UNCHANGED <<child, nextRequestId, command, answer, outputBytes, closing, closed,
                 completion, closer>>

\* An exit nobody asked for is a failure whatever its code.
ExitCause(exitCode) == IF exitCode = 0 THEN "output" ELSE "process"

\* The 'close' event, of an exit nobody asked for when close() was not called.
CloseEvent(exitCode) ==
  LET unexpected == ~closing /\ failure = "none"
  IN  /\ child # "gone" /\ Leader \notin alive
      /\ child' = "gone"
      /\ closed' = TRUE
      /\ failure' = IF unexpected THEN ExitCause(exitCode) ELSE failure
      /\ outcome' = RejectAll(pending)
      /\ pending' = {}
      /\ completion' = IF failure' = "none" \/ closing THEN "resolved" ELSE "rejected"
      /\ UNCHANGED <<nextRequestId, command, answer, outputBytes, closing, closer, treeVars>>

-----------------------------------------------------------------------------
(* close(). *)

\* Mutant (NoProcessLeft): a client that is being closed counts as closed.
CloseOnce(k) ==
  /\ closer[k] = "idle"
  /\ closing' = TRUE
  /\ closer' = [closer EXCEPT ![k] = IF closing \/ closed THEN "returned" ELSE "exitWait"]
  /\ UNCHANGED <<child, nextRequestId, command, pending, outcome, answer, outputBytes,
                 failure, closed, completion, treeVars>>

\* A closed client returns at once; otherwise stdin ends and the exit is given
\* a grace period.
Close(k) ==
  /\ closer[k] = "idle"
  /\ closing' = (closing \/ ~closed)
  /\ closer' = [closer EXCEPT ![k] = IF closed THEN "returned" ELSE "exitWait"]
  /\ UNCHANGED <<child, nextRequestId, command, pending, outcome, answer, outputBytes,
                 failure, closed, completion, treeVars>>

\* The race is over: on the exit, or after the grace.
ExitAwaited(k) ==
  /\ closer[k] = "exitWait"
  /\ IF closed
     THEN closer' = [closer EXCEPT ![k] = "returned"] /\ UNCHANGED treeVars
     ELSE closer' = [closer EXCEPT ![k] = "terminating"] /\ StartTermination(k)
  /\ UNCHANGED <<child, nextRequestId, command, pending, outcome, answer, outputBytes,
                 failure, closing, closed, completion>>

TerminationAwaited(k) ==
  /\ closer[k] = "terminating" /\ termination[k] = "done"
  /\ closer' = [closer EXCEPT ![k] = "finalWait"]
  /\ UNCHANGED <<child, nextRequestId, command, pending, outcome, answer, outputBytes,
                 failure, closing, closed, completion, treeVars>>

\* Mutant (NothingHangs): the exit is awaited without a grace period.
CloseReturnsAtExit(k) ==
  /\ closer[k] = "finalWait" /\ closed
  /\ closer' = [closer EXCEPT ![k] = "returned"]
  /\ UNCHANGED <<child, nextRequestId, command, pending, outcome, answer, outputBytes,
                 failure, closing, closed, completion, treeVars>>

\* Again the exit or the grace; the pipes are destroyed and close() returns,
\* whether or not the process is gone.
CloseReturns(k) ==
  /\ closer[k] = "finalWait"
  /\ closer' = [closer EXCEPT ![k] = "returned"]
  /\ UNCHANGED <<child, nextRequestId, command, pending, outcome, answer, outputBytes,
                 failure, closing, closed, completion, treeVars>>

-----------------------------------------------------------------------------
Peer ==
  \/ ExceedLimit
  \/ QuietOutput
  \/ BadOutput
  \/ \E response \in Responses : HandleResponse(response)

Tree == TreeNext /\ UNCHANGED clientVars

ProcessEvent ==
  \/ StdinError
  \/ ErrorEvent
  \/ \E exitCode \in {0, 1} : CloseEvent(exitCode)

CloseStep(k) == ExitAwaited(k) \/ TerminationAwaited(k) \/ CloseReturns(k)

Done == closed /\ (\A k \in Closers : closer[k] = "returned") /\ UNCHANGED vars

Next ==
  \/ \E cmd \in Commands : Request(cmd)
  \/ \E id \in Ids : RequestTimeout(id) \/ WriteFails(id)
  \/ Peer
  \/ ProcessEvent
  \/ Tree
  \/ \E k \in Closers : Close(k) \/ CloseStep(k)
  \/ Done

Spec == ClientInit /\ [][Next]_vars

\* Timers fire, promises continue, and a process that cannot ignore its signal
\* ends; nothing else is owed.
Fairness ==
  /\ \A id \in Ids : WF_vars(RequestTimeout(id))
  /\ \A k \in Closers : WF_vars(CloseStep(k))
  /\ \A t \in Terminators : WF_vars(EndGrace(t) /\ UNCHANGED clientVars)
  /\ \A p \in Processes : WF_vars(Doomed(p) /\ Exit(p) /\ UNCHANGED clientVars)

FairSpec == Spec /\ Fairness
-----------------------------------------------------------------------------
(* Properties. *)

\* A request resolves only with a response to its own command, in whatever
\* order the responses come; and none is forgotten or settled behind the map's
\* back: its promise is pending exactly while #pending (and so its timer) still
\* holds it, and a failed or closed client has none.
RequestsMatched ==
  /\ \A id \in Ids : outcome[id] = "resolved" => answer[id] = command[id]
  /\ pending = {id \in Ids : outcome[id] = "pending"}
  /\ failure # "none" \/ closed => pending = {}

\* The first failure is the one everybody is told, nothing resolves after it,
\* and a settled request or completion stays as it is.  completion settles with
\* the 'close' event, and an exit is an orderly one only if close() was called.
FailureIsFinal ==
  /\ [][/\ failure # "none" =>
             /\ failure' = failure
             /\ \A id \in Ids : outcome'[id] = "resolved" => outcome[id] = "resolved"
        /\ \A id \in Ids : outcome[id] \in {"resolved", "rejected"} => outcome'[id] = outcome[id]
        /\ completion # "pending" => completion' = completion]_vars
  /\ [](/\ completion = "pending" <=> ~closed
        /\ completion = "resolved" => closing
        /\ completion = "rejected" => failure # "none")

\* A client that failed while its process ran has left nothing of a reachable
\* group unsignalled once its termination is over, whoever else called close().
FailedTreeTerminated == termination["fail"] = "done" => TreeTerminated

\* Every request settles, without an answer too, and close() returns, whether
\* or not the process reacts.
NothingHangs ==
  /\ \A id \in Ids : (outcome[id] = "pending") ~> (outcome[id] # "pending")
  /\ \A k \in Closers : (closer[k] # "idle") ~> (closer[k] = "returned")
=============================================================================
